------------------------------- MODULE Daemon -------------------------------
(***************************************************************************)
(* frontends/grpc/daemon.cpp: Daemon::start(), the storage drain thread    *)
(* that moves events from its subscription to the JSONL sink, the reactor  *)
(* thread, and shutdown(), over a store directory that outlives the        *)
(* process.  Publishers are the session's pump and the RPC handlers of the *)
(* transport server; the subscription's queue is EventQueue.               *)
(***************************************************************************)
EXTENDS JsonlSink, EventQueue

CONSTANTS
    KindOf,        \* the kind of an event
    QueueDepth     \* DaemonOptions::storage_queue_depth

ASSUME DaemonAssumption ==
    /\ KindOf \in [Events -> Kinds]
    /\ QueueDepth \in Nat \ {0}

Publishers == {"pump", "rpc"}

VARIABLES
    owner,      \* where the thread in start() and shutdown() is
    stored,     \* store_dir_ is set
    session,    \* session_: "none", "up", "gone"
    server,     \* server_: "none", "up", "draining", "down"
    streaming,  \* some client has a Subscribe stream open
    observing,  \* the pump runs
    reactor,    \* reactor_thread_: "none", "run", "ended"
    stopping,   \* reactor_.stop() was called
    startup,    \* StartupSignal: "none", "ok", "error"
    drain,      \* where drain_thread_ is
    ready,      \* the promise of start_drain_thread()
    ds,         \* DrainState: [notified, stopping]
    queue,      \* the subscription's queue
    sub,        \* the subscription: "none", "quiet", "notifying"
    pub,        \* what every publisher is doing: "idle", "notify"
    published,  \* events published
    crashes,    \* crashes so far
    owed        \* history: events that storage took on since the start

daemonVars == <<owner, stored, session, server, streaming, observing, reactor, stopping, startup,
                drain, ready, ds, queue, sub, pub, published, crashes, owed>>
vars == <<sinkVars, daemonVars>>

Fresh ==
    /\ owner' = "compose" /\ session' = "none" /\ server' = "none" /\ streaming' = FALSE
    /\ observing' = FALSE /\ reactor' = "none" /\ stopping' = FALSE
    /\ startup' = "none" /\ drain' = "none" /\ ready' = "none"
    /\ ds' = [notified |-> FALSE, stopping |-> FALSE]
    /\ queue' = EmptyQueue /\ sub' = "none" /\ owed' = {}
    /\ pub' = [p \in Publishers |-> "idle"]

Init ==
    /\ SinkInit
    /\ owner = "compose" /\ session = "none" /\ server = "none" /\ streaming = FALSE
    /\ observing = FALSE /\ reactor = "none" /\ stopping = FALSE
    /\ startup = "none" /\ drain = "none" /\ ready = "none"
    /\ ds = [notified |-> FALSE, stopping |-> FALSE]
    /\ queue = EmptyQueue /\ sub = "none" /\ owed = {}
    /\ pub = [p \in Publishers |-> "idle"]
    /\ published = 0 /\ crashes = 0 /\ stored \in BOOLEAN

-----------------------------------------------------------------------------
(* Daemon::start(); every failure goes on with shutdown().                 *)

Shutdown == "stopReactor"
Later    == <<session, server, streaming, observing, reactor, stopping, startup, drain, ready, ds,
              queue, sub, pub, published, stored, crashes, owed>>

\* compose_session().
ComposeSession ==
    /\ owner = "compose"
    /\ \/ session' = "up" /\ owner' = "storage"
       \/ UNCHANGED session /\ owner' = Shutdown
    /\ UNCHANGED <<sinkVars, stored, server, streaming, observing, reactor, stopping, startup, drain,
                   ready, ds, queue, sub, pub, published, crashes, owed>>

\* start_storage(): without a directory there is no sink and no thread; opening
\* the sink or starting the thread may fail.
StartStorage ==
    /\ owner = "storage"
    /\ \/ ~stored /\ owner' = "transport" /\ UNCHANGED <<sinkVars, drain>>
       \/ stored /\ owner' = Shutdown /\ UNCHANGED <<sinkVars, drain>>
       \/ stored /\ OpenSink /\ owner' = "handshake" /\ drain' = "subscribe"
    /\ UNCHANGED <<session, server, streaming, observing, reactor, stopping, startup, ready, ds, queue,
                   sub, pub, published, stored, crashes, owed>>

\* start_drain_thread() waits for the thread's promise.
Handshake ==
    /\ owner = "handshake"
    /\ ready # "none"
    /\ owner' = IF ready = "ok" THEN "transport" ELSE Shutdown
    /\ ds' = [ds EXCEPT !.stopping = @ \/ ready = "error"]
    /\ UNCHANGED <<sinkVars, stored, session, server, streaming, observing, reactor, stopping, startup,
                   drain, ready, queue, sub, pub, published, crashes, owed>>

\* start_transport().
StartTransport ==
    /\ owner = "transport"
    /\ \/ server' = "up" /\ owner' = "sources"
       \/ UNCHANGED server /\ owner' = Shutdown
    /\ UNCHANGED <<sinkVars, stored, session, streaming, observing, reactor, stopping, startup, drain,
                   ready, ds, queue, sub, pub, published, crashes, owed>>

\* start_sources(): the reactor thread is started and reports once, by the
\* posted task or by failing.
StartSources ==
    /\ owner = "sources"
    /\ \/ reactor' = "run" /\ owner' = "startup"
       \/ UNCHANGED reactor /\ owner' = Shutdown
    /\ UNCHANGED <<sinkVars, stored, session, server, streaming, observing, stopping, startup, drain,
                   ready, ds, queue, sub, pub, published, crashes, owed>>

\* The result of start_observation() is dropped.
StartObservation ==
    /\ owner = "startup"
    /\ startup # "none"
    /\ IF startup = "ok"
       THEN owner' = "running" /\ observing' \in BOOLEAN
       ELSE owner' = Shutdown /\ UNCHANGED observing
    /\ UNCHANGED <<sinkVars, stored, session, server, streaming, reactor, stopping, startup, drain,
                   ready, ds, queue, sub, pub, published, crashes, owed>>

\* run_reactor(): the startup task runs, or reactor_.run() fails; a later end of
\* the loop is reported to nobody.
ReactorThread ==
    /\ reactor = "run"
    /\ \/ startup = "none" /\ startup' = "ok" /\ UNCHANGED reactor
       \/ startup = "none" /\ startup' = "error" /\ reactor' = "ended"
       \/ stopping /\ startup # "none" /\ reactor' = "ended" /\ UNCHANGED startup
    /\ UNCHANGED <<sinkVars, stored, session, server, streaming, observing, stopping, drain, ready, ds,
                   queue, sub, pub, owner, published, crashes, owed>>

-----------------------------------------------------------------------------
(* shutdown(), by the thread that owns the daemon.                         *)

Go(from, to) == owner = from /\ owner' = to

CallShutdown ==
    /\ Go("running", Shutdown)
    /\ UNCHANGED <<sinkVars, Later>>

StopReactor ==
    /\ Go(Shutdown, "joinReactor")
    /\ stopping' = TRUE
    /\ UNCHANGED <<sinkVars, stored, session, server, streaming, observing, reactor, startup, drain,
                   ready, ds, queue, sub, pub, published, crashes, owed>>

\* join_reactor(), then TransportServer::shutdown(): no new call is taken, and it
\* waits without a deadline for those under way.
JoinReactor ==
    /\ Go("joinReactor", "server")
    /\ reactor # "run"
    /\ server' = IF server = "up" THEN "draining" ELSE server
    /\ UNCHANGED <<sinkVars, stored, session, streaming, observing, reactor, stopping, startup, drain,
                   ready, ds, queue, sub, pub, published, crashes, owed>>

StopServer ==
    /\ Go("server", "pump")
    /\ pub["rpc"] = "idle" /\ ~streaming
    /\ server' = "down"
    /\ UNCHANGED <<sinkVars, stored, session, streaming, observing, reactor, stopping, startup, drain,
                   ready, ds, queue, sub, pub, published, crashes, owed>>

\* stop_observation(): the pump thread is stopped and joined.
StopObservation ==
    /\ Go("pump", "signal")
    /\ pub["pump"] = "idle"
    /\ observing' = FALSE
    /\ UNCHANGED <<sinkVars, stored, session, server, streaming, reactor, stopping, startup, drain,
                   ready, ds, queue, sub, pub, published, crashes, owed>>

\* signal_drain_stop().
SignalDrainStop ==
    /\ Go("signal", "joinDrain")
    /\ ds' = [notified |-> TRUE, stopping |-> TRUE]
    /\ UNCHANGED <<sinkVars, stored, session, server, streaming, observing, reactor, stopping, startup,
                   drain, ready, queue, sub, pub, published, crashes, owed>>

\* Mutant: the session goes before the drain thread was joined.
JoinDrainLate ==
    /\ Go("joinDrain", "flush")
    /\ session' = "gone"
    /\ UNCHANGED <<sinkVars, stored, server, streaming, observing, reactor, stopping, startup, drain,
                   ready, ds, queue, sub, pub, published, crashes, owed>>

\* join_drain() and session_.reset().
JoinDrain ==
    /\ Go("joinDrain", "flush")
    /\ drain \in {"none", "exited"}
    /\ session' = "gone"
    /\ UNCHANGED <<sinkVars, stored, server, streaming, observing, reactor, stopping, startup, drain,
                   ready, ds, queue, sub, pub, published, crashes, owed>>

\* flush_and_close_sink(): flush(), then close(), which flushes what is left.
FlushSink ==
    /\ IF closed
       THEN Go("flush", "done") /\ UNCHANGED sinkVars
       ELSE Go("flush", "flushing") /\ Flush
    /\ UNCHANGED Later

CloseFlush ==
    /\ Go("flushing", "closing")
    /\ Flush
    /\ UNCHANGED Later

CloseStorage ==
    /\ Go("closing", "done")
    /\ CloseSink
    /\ UNCHANGED Later

-----------------------------------------------------------------------------
(* The drain thread: drain_loop(), drain_available().                      *)

DrainTo(to) == drain' = to
DrainRest   == <<owner, stored, session, server, streaming, observing, reactor, stopping, startup, pub,
                 published, crashes, owed>>

\* Subscribing may throw.
Subscribe ==
    /\ drain = "subscribe"
    /\ \/ DrainTo("setNotify") /\ sub' = "quiet" /\ UNCHANGED ready
       \/ DrainTo("exited") /\ ready' = "error" /\ UNCHANGED sub
    /\ UNCHANGED <<sinkVars, DrainRest, ds, queue>>

SetNotify ==
    /\ drain = "setNotify"
    /\ DrainTo("drain") /\ sub' = "notifying" /\ ready' = "ok"
    /\ UNCHANGED <<sinkVars, DrainRest, ds, queue>>

\* drain_available() up to the end of a write() to the sink; a gap marker looks
\* like the end of the queue.
DrainAvailable ==
    /\ drain \in {"drain", "final"}
    /\ Ended
    /\ IF queue.items = <<>> \/ IsGap(Head(queue.items))
       THEN /\ DrainTo(IF drain = "drain" THEN "wait" ELSE "unset")
            /\ UNCHANGED sinkVars
       ELSE Write(Head(queue.items).seq) /\ UNCHANGED drain
    /\ queue' = IF queue.items = <<>> THEN queue ELSE TryPop(queue)
    /\ UNCHANGED <<DrainRest, ready, ds, sub>>

\* wait_for_data_or_stop() finds nothing and blocks.
Block ==
    /\ drain = "wait"
    /\ ~ds.notified /\ ~ds.stopping
    /\ DrainTo("blocked")
    /\ UNCHANGED <<sinkVars, DrainRest, ready, ds, queue, sub>>

\* wait_for_data_or_stop() returns.
WaitForDataOrStop ==
    /\ drain \in {"wait", "blocked"}
    /\ ds.notified \/ ds.stopping
    /\ ds' = [ds EXCEPT !.notified = FALSE]
    /\ DrainTo(IF ds.stopping THEN "final" ELSE "drain")
    /\ UNCHANGED <<sinkVars, DrainRest, ready, queue, sub>>

\* set_notify( {} ) and the end of the subscription.
LeaveDrain ==
    /\ drain = "unset"
    /\ DrainTo("exited") /\ sub' = "none"
    /\ UNCHANGED <<sinkVars, DrainRest, ready, ds, queue>>

-----------------------------------------------------------------------------
(* Clients, publishers, and the crash.                                     *)

\* A client opens a Subscribe stream, whose handler reads the bus until the client
\* goes; when that is, nothing says.
ClientStreams ==
    /\ server = "up" /\ ~streaming
    /\ streaming' = TRUE
    /\ UNCHANGED <<sinkVars, owner, stored, session, server, observing, reactor, stopping,
                   startup, drain, ready, ds, queue, sub, pub, published, crashes, owed>>

ClientLeaves ==
    /\ streaming
    /\ streaming' = FALSE
    /\ UNCHANGED <<sinkVars, owner, stored, session, server, observing, reactor, stopping,
                   startup, drain, ready, ds, queue, sub, pub, published, crashes, owed>>

Queued(q) == {q.items[i].seq : i \in 1 .. Len(q.items)}

MayPublish(p) == IF p = "pump" THEN observing ELSE server = "up"

\* publish(): the event is queued and the callback taken under the locks of the
\* bus, and called after they are released.
Publish(p) ==
    /\ pub[p] = "idle"
    /\ MayPublish(p)
    /\ published < MaxEvents
    /\ published' = published + 1
    /\ queue' = IF sub = "none" THEN queue
                ELSE Enqueue(queue, Event(KindOf[published'], published'),
                             QueueDepth, "coalesce")
    /\ owed' = IF sub = "none" THEN owed
               ELSE (owed \cup {published'}) \ (Queued(queue) \ Queued(queue'))
    /\ pub' = [pub EXCEPT ![p] = IF sub = "notifying" /\ queue'.items # queue.items
                                 THEN "notify" ELSE "idle"]
    /\ UNCHANGED <<sinkVars, owner, stored, session, server, streaming, observing, reactor, stopping,
                   startup, drain, ready, ds, sub, crashes>>

\* Mutant: the condition variable is signalled without the flag, which only a
\* thread that already waits can hear.
NotifyWithoutFlag(p) ==
    /\ pub[p] = "notify"
    /\ pub' = [pub EXCEPT ![p] = "idle"]
    /\ ds' = [ds EXCEPT !.notified = @ \/ drain = "blocked"]
    /\ UNCHANGED <<sinkVars, owner, stored, session, server, streaming, observing, reactor, stopping,
                   startup, drain, ready, queue, sub, published, crashes, owed>>

\* notify_waiter().
NotifyWaiter(p) ==
    /\ pub[p] = "notify"
    /\ pub' = [pub EXCEPT ![p] = "idle"]
    /\ ds' = [ds EXCEPT !.notified = TRUE]
    /\ UNCHANGED <<sinkVars, owner, stored, session, server, streaming, observing, reactor, stopping,
                   startup, drain, ready, queue, sub, published, crashes, owed>>

Sinking == FlushStep /\ UNCHANGED daemonVars

\* The machine stops and the daemon is started again over the same directory.
Crash ==
    /\ crashes < MaxCrashes
    /\ crashes' = crashes + 1
    /\ Fresh
    /\ disk' \in {f \in [Days -> UNION {Survivors(disk[d]) : d \in Days}] :
                     \A d \in Days : f[d] \in Survivors(disk[d])}
    /\ adrift' = adrift \cup UNION {LinesOf(d) : d \in {x \in There : ~disk'[x].there}}
    /\ buffer' = <<>> /\ fd' = NoDate /\ flush' = Idle /\ closed' = TRUE
    /\ outcome' = "none"
    /\ UNCHANGED <<faults, acked, reaped, glued, stored, published>>

Owner ==
    \/ ComposeSession \/ StartStorage \/ Handshake \/ StartTransport \/ StartSources
    \/ StartObservation \/ StopReactor \/ JoinReactor \/ StopServer \/ StopObservation
    \/ SignalDrainStop \/ JoinDrain \/ FlushSink \/ CloseFlush \/ CloseStorage
Drain == Subscribe \/ SetNotify \/ DrainAvailable \/ Block \/ WaitForDataOrStop \/ LeaveDrain

Next ==
    \/ Owner \/ CallShutdown \/ Drain \/ ReactorThread \/ Sinking \/ Crash
    \/ ClientStreams \/ ClientLeaves
    \/ \E p \in Publishers : Publish(p) \/ NotifyWaiter(p)

Fairness ==
    /\ WF_vars(Owner) /\ WF_vars(Drain) /\ WF_vars(ReactorThread) /\ WF_vars(Sinking)
    /\ \A p \in Publishers : WF_vars(NotifyWaiter(p))

Spec == Init /\ [][Next]_vars /\ Fairness

-----------------------------------------------------------------------------
(* Properties.                                                             *)

Overflowed == queue.overflow > 0
Sound(e)   == DateOf[e] # NoDate

\* The session and its bus go only when nobody uses them any more: "Reordering
\* this is a use-after-free" (daemon.cpp, shutdown()).  A start that failed half
\* way leaves no thread behind either.
BusOutlivesUsers ==
    session = "gone" \/ owner = "done" =>
        /\ drain \in {"none", "exited"}
        /\ reactor # "run"
        /\ \A p \in Publishers : pub[p] = "idle"
        /\ ~observing /\ ~streaming /\ server # "up"

\* What a flush() reported as stored can be read back, through failed calls and
\* crashes, until retention removes its file.  Two things excuse it: a crash takes a
\* file whose directory was never synced, and the line that is appended to a fragment
\* is part of it and no record (write_all() does not look at what the file ends in);
\* without a failed call or a crash there is no fragment.
AckedIsStored ==
    /\ acked \subseteq OnDisk \cup reaped \cup adrift \cup glued
    /\ faults = 0 /\ crashes = 0 => glued = {}

\* Unless a system call failed, a file holds every event once and in order.
StoredOnceInOrder ==
    faults = 0 =>
        \A d \in There : \A i, j \in 1 .. Len(disk[d].lines) :
            i < j => disk[d].lines[i] < disk[d].lines[j]

\* What storage took on is on disk when shutdown() is done, if its last flush
\* reported no error, even after earlier ones did: "best-effort under extreme
\* overflow", and lossless otherwise (daemon.cpp, drain_loop()).
StoredAtShutdown ==
    owner = "done" /\ outcome # "error" /\ ~Overflowed =>
        \A e \in owed : Sound(e) => e \in OnDisk \cup reaped \cup glued

\* A flush that reported success left the directory within its limits.
RetentionHeld == outcome = "ok" /\ Ended => ~OverLimit(disk)

\* Storage is worth what flush() and shutdown() say of it: the four above.
StorageTruthful == AckedIsStored /\ StoredOnceInOrder /\ StoredAtShutdown /\ RetentionHeld

\* Daemon::start() and shutdown() return, unless a client keeps its stream open for
\* ever: the server waits for it.
OwnerReturns ==
    []<>(~streaming) =>
        ((owner \notin {"running", "done"}) ~> (owner \in {"running", "done"}))

\* Events do not wait in the queue for another event to come: the drain thread
\* gets to all of them, unless the queue overflowed.
DrainKeepsUp == (queue.items # <<>>) ~> (queue.items = <<>> \/ Overflowed)

\* Neither the owner nor an event waits for something that is not coming.
DaemonServes == OwnerReturns /\ DrainKeepsUp
=============================================================================
