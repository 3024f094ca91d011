----------------------------- MODULE RpcService -----------------------------
(***************************************************************************)
(* frontends/grpc/service.cpp and server.cpp: every RPC is admitted by     *)
(* AdmissionController before its handler works, PushEvent publishes,      *)
(* Subscribe streams until its client is gone, and                         *)
(* TransportServer::shutdown() waits for the calls under way.  A call is   *)
(* served by a thread of its own; gRPC itself is external: it starts       *)
(* calls, cancels them when their client goes, and starts none once        *)
(* Shutdown() was called.                                                  *)
(***************************************************************************)
EXTENDS Naturals, Sequences, FiniteSets

CONSTANTS
    Calls,          \* the threads that serve calls, one call at a time
    Requests,       \* what the clients ask of every thread
    Cap,            \* AdmissionPolicy::concurrency_cap
    QueueCapacity,  \* AdmissionPolicy::queue_capacity
    MaxTickets,     \* no call comes when more than these found no free slot
    MaxPushed       \* events pushed

\* "Query" is any call that neither publishes nor streams: ResolveNode,
\* PerformAction, CaptureFrame, ListEventTypes and SetClientContext.
Rpcs == {"PushEvent", "Subscribe", "Query"}

ASSUME ServiceAssumption ==
    /\ IsFiniteSet(Calls)
    /\ Requests \in [Calls -> SUBSET Rpcs]
    /\ Cap \in Nat \ {0}
    /\ QueueCapacity \in Nat
    /\ MaxTickets \in Nat
    /\ MaxPushed \in Nat

VARIABLES
    at,         \* where every call is
    rpc,        \* what it calls
    ticket,     \* its ticket, 0 without one
    cancelled,  \* ServerContext::IsCancelled()
    late,       \* its admission deadline has passed
    tickets,    \* queue_
    next,       \* next_ticket_
    active,     \* active_
    healthy,    \* policy_.healthy
    transport,  \* "up", "draining", "down"
    open,       \* a stream has its subscription
    queued,     \* events in the queue of the subscription
    pushed      \* events published

admission == <<ticket, tickets, next, active>>
streams   == <<open, queued, pushed>>
serviceVars == <<at, rpc, cancelled, late, healthy, transport, admission, streams>>

Working == {"push", "subscribe", "stream", "wait", "query"}
Places  == {"idle", "acquire", "waiting"} \cup Working

TypeOK ==
    /\ at \in [Calls -> Places]
    /\ rpc \in [Calls -> Rpcs]
    /\ ticket \in [Calls -> Nat]
    /\ cancelled \in [Calls -> BOOLEAN]
    /\ late \in [Calls -> BOOLEAN]
    /\ tickets \in Seq(Nat)
    /\ next \in Nat
    /\ active \in Nat
    /\ healthy \in BOOLEAN
    /\ transport \in {"up", "draining", "down"}

ServiceInit ==
    /\ at = [c \in Calls |-> "idle"]
    /\ rpc = [c \in Calls |-> "Query"]
    /\ ticket = [c \in Calls |-> 0]
    /\ cancelled = [c \in Calls |-> FALSE]
    /\ late = [c \in Calls |-> FALSE]
    /\ tickets = <<>> /\ next = 1 /\ active = 0
    /\ healthy \in BOOLEAN
    /\ transport = "up"
    /\ open = [c \in Calls |-> FALSE]
    /\ queued = [c \in Calls |-> 0]
    /\ pushed = 0

Goto(c, place) == at' = [at EXCEPT ![c] = place]

\* The call is answered and its thread free again.
Return(c) ==
    /\ Goto(c, "idle")
    /\ rpc' = [rpc EXCEPT ![c] = "Query"]
    /\ cancelled' = [cancelled EXCEPT ![c] = FALSE]
    /\ late' = [late EXCEPT ![c] = FALSE]

\* What the handler does first.
Entry(r) ==
    CASE r = "PushEvent"        -> "push"
      [] r = "Subscribe"        -> "subscribe"
      [] OTHER                  -> "query"

-----------------------------------------------------------------------------
(* gRPC and the clock.                                                     *)

\* The client goes away; only a call that waits or streams looks.
Cancel(c) ==
    /\ at[c] \in {"waiting", "stream", "wait"}
    /\ ~cancelled[c]
    /\ cancelled' = [cancelled EXCEPT ![c] = TRUE]
    /\ UNCHANGED <<at, rpc, late, healthy, transport, admission, streams>>

\* per_call_deadline passes.
Tick(c) ==
    /\ at[c] = "waiting"
    /\ ~late[c]
    /\ late' = [late EXCEPT ![c] = TRUE]
    /\ UNCHANGED <<at, rpc, cancelled, healthy, transport, admission, streams>>

ChangeHealth ==
    /\ healthy' = ~healthy
    /\ UNCHANGED <<at, rpc, cancelled, late, transport, admission, streams>>

-----------------------------------------------------------------------------
(* AdmissionController.                                                    *)

\* dispatch() of a new call: acquire() looks at the health before it takes the lock.
Dispatch(c, r) ==
    /\ at[c] = "idle"
    /\ transport = "up"
    /\ healthy
    /\ next <= MaxTickets
    /\ Goto(c, "acquire")
    /\ rpc' = [rpc EXCEPT ![c] = r]
    /\ UNCHANGED <<cancelled, late, healthy, transport, admission, streams>>

\* Mutant: a free slot is taken past those who queue for it.
AcquireBarges(c) ==
    /\ at[c] = "acquire"
    /\ \/ /\ active < Cap
          /\ active' = active + 1
          /\ Goto(c, Entry(rpc[c]))
          /\ UNCHANGED <<rpc, cancelled, late, ticket, tickets, next>>
       \/ /\ active >= Cap
          /\ Len(tickets) < QueueCapacity
          /\ next' = next + 1
          /\ ticket' = [ticket EXCEPT ![c] = next]
          /\ tickets' = Append(tickets, next)
          /\ Goto(c, "waiting")
          /\ UNCHANGED <<rpc, cancelled, late, active>>
       \/ /\ active >= Cap
          /\ Len(tickets) >= QueueCapacity
          /\ Return(c)
          /\ UNCHANGED admission
    /\ UNCHANGED <<healthy, transport, streams>>

\* acquire() under the lock: a free slot is taken only when nobody queues for it; with
\* the queue full the call is refused.
Acquire(c) ==
    /\ at[c] = "acquire"
    /\ \/ /\ active < Cap /\ tickets = <<>>
          /\ active' = active + 1
          /\ Goto(c, Entry(rpc[c]))
          /\ UNCHANGED <<rpc, cancelled, late, ticket, tickets, next>>
       \/ /\ active >= Cap \/ tickets # <<>>
          /\ Len(tickets) < QueueCapacity
          /\ next' = next + 1
          /\ ticket' = [ticket EXCEPT ![c] = next]
          /\ tickets' = Append(tickets, next)
          /\ Goto(c, "waiting")
          /\ UNCHANGED <<rpc, cancelled, late, active>>
       \/ /\ active >= Cap \/ tickets # <<>>
          /\ Len(tickets) >= QueueCapacity
          /\ Return(c)
          /\ UNCHANGED admission
    /\ UNCHANGED <<healthy, transport, streams>>

Without(s, i) == [j \in 1 .. Len(s) - 1 |-> IF j < i THEN s[j] ELSE s[j + 1]]

\* erase_ticket(): find, and erase what was found.
EraseTicket(c) ==
    /\ tickets' = IF \E i \in 1 .. Len(tickets) : tickets[i] = ticket[c]
                  THEN Without(tickets, CHOOSE i \in 1 .. Len(tickets) : tickets[i] = ticket[c])
                  ELSE tickets
    /\ ticket' = [ticket EXCEPT ![c] = 0]

\* Mutant: a call that gives up releases the slot it never got.
GiveUpReleases(c) ==
    /\ at[c] = "waiting"
    /\ \/ ~healthy
       \/ cancelled[c]
       \/ late[c] /\ ~(Head(tickets) = ticket[c] /\ active < Cap)
    /\ EraseTicket(c)
    /\ active' = IF active > 0 THEN active - 1 ELSE active
    /\ Return(c)
    /\ UNCHANGED <<healthy, transport, next, streams>>

\* One turn of the loop in acquire(), every admissionPollInterval or on a
\* notification: the checks in their order.
GiveUp(c) ==
    /\ at[c] = "waiting"
    /\ \/ ~healthy
       \/ cancelled[c]
       \/ late[c] /\ ~(Head(tickets) = ticket[c] /\ active < Cap)
    /\ EraseTicket(c)
    /\ Return(c)
    /\ UNCHANGED <<healthy, transport, next, active, streams>>

Admit(c) ==
    /\ at[c] = "waiting"
    /\ healthy /\ ~cancelled[c]
    /\ tickets # <<>> /\ Head(tickets) = ticket[c]
    /\ active < Cap
    /\ tickets' = Tail(tickets)
    /\ ticket' = [ticket EXCEPT ![c] = 0]
    /\ active' = active + 1
    /\ Goto(c, Entry(rpc[c]))
    /\ late' = [late EXCEPT ![c] = FALSE]
    /\ UNCHANGED <<rpc, cancelled, healthy, transport, next, streams>>

\* The handler returns: release(), and the answer.
Release(c) ==
    /\ active' = IF active > 0 THEN active - 1 ELSE active
    /\ Return(c)
    /\ UNCHANGED <<healthy, transport, ticket, tickets, next>>

-----------------------------------------------------------------------------
(* The handlers.                                                           *)

Handled == <<rpc, cancelled, late, healthy, transport, admission>>

\* PushEvent: every open stream has the event queued.  A bad
\* event is refused.
PushEvent(c) ==
    /\ at[c] = "push"
    /\ \/ UNCHANGED streams
       \/ /\ pushed < MaxPushed
          /\ pushed' = pushed + 1
          /\ queued' = [d \in Calls |-> IF open[d] THEN queued[d] + 1 ELSE queued[d]]
          /\ UNCHANGED open
    /\ Release(c)

\* Subscribe: a bad filter is refused, or the subscription is made.
SubscribeStream(c) ==
    /\ at[c] = "subscribe"
    /\ \/ /\ Release(c)
          /\ UNCHANGED streams
       \/ /\ open' = [open EXCEPT ![c] = TRUE]
          /\ Goto(c, "stream")
          /\ UNCHANGED <<Handled, queued, pushed>>

\* write_available_events(), then the wait.
WriteAvailableEvents(c) ==
    /\ at[c] = "stream"
    /\ ~cancelled[c]
    /\ queued' = [queued EXCEPT ![c] = 0]
    /\ Goto(c, "wait")
    /\ UNCHANGED <<Handled, open, pushed>>

\* Mutant: the loop never asks whether its client is gone.
EndStreamDeaf(c) ==
    /\ at[c] = "stream"
    /\ queued[c] > 0
    /\ open' = [open EXCEPT ![c] = FALSE]
    /\ queued' = [queued EXCEPT ![c] = 0]
    /\ Release(c)
    /\ UNCHANGED pushed

\* The stream ends: its client is gone, or an event could not be sent.
EndStream(c) ==
    /\ at[c] = "stream"
    /\ cancelled[c] \/ queued[c] > 0
    /\ open' = [open EXCEPT ![c] = FALSE]
    /\ queued' = [queued EXCEPT ![c] = 0]
    /\ Release(c)
    /\ UNCHANGED pushed

\* wait_for_data_or_poll_interval() returns, because a publisher set the flag or
\* because poll_interval is over: it may do so at any time.
WaitForDataOrPollInterval(c) ==
    /\ at[c] = "wait"
    /\ Goto(c, "stream")
    /\ UNCHANGED <<Handled, streams>>

Query(c) ==
    /\ at[c] = "query"
    /\ Release(c)
    /\ UNCHANGED streams

-----------------------------------------------------------------------------
(* TransportServer::shutdown().                                            *)

ServerShutdown ==
    /\ transport = "up"
    /\ transport' = "draining"
    /\ UNCHANGED <<at, rpc, cancelled, late, healthy, admission, streams>>

\* Wait() returns, and the service goes.
ServerDown ==
    /\ transport = "draining"
    /\ \A c \in Calls : at[c] = "idle"
    /\ transport' = "down"
    /\ UNCHANGED <<at, rpc, cancelled, late, healthy, admission, streams>>

-----------------------------------------------------------------------------
Handler(c) ==
    \/ PushEvent(c) \/ SubscribeStream(c) \/ WriteAvailableEvents(c) \/ EndStream(c)
    \/ WaitForDataOrPollInterval(c) \/ Query(c)

Serve(c) == Acquire(c) \/ GiveUp(c) \/ Admit(c) \/ Handler(c)

ServiceNext ==
    \/ \E c \in Calls : Serve(c) \/ Cancel(c) \/ Tick(c) \/ \E r \in Requests[c] : Dispatch(c, r)
    \/ ChangeHealth \/ ServerShutdown \/ ServerDown

ServiceFairness ==
    /\ \A c \in Calls : WF_serviceVars(Serve(c)) /\ WF_serviceVars(Tick(c))
    /\ WF_serviceVars(ServerDown)

ServiceSpec == ServiceInit /\ [][ServiceNext]_serviceVars /\ ServiceFairness

-----------------------------------------------------------------------------
Waiting  == {c \in Calls : at[c] = "waiting"}
Admitted == {c \in Calls : at[c] \in Working}

\* active_ counts exactly the calls whose handler runs, so no slot leaks and
\* none is given back twice, and there are never more than concurrency_cap.
SlotsExact == active = Cardinality(Admitted) /\ active <= Cap

\* queue_ holds the tickets of the waiting calls and nothing else, oldest first:
\* a ticket left behind by a call that gave up would block the queue for good.
QueueExact ==
    /\ Len(tickets) <= QueueCapacity
    /\ {tickets[i] : i \in 1 .. Len(tickets)} = {ticket[c] : c \in Waiting}
    /\ Len(tickets) = Cardinality(Waiting)
    /\ \A i, j \in 1 .. Len(tickets) : i < j => tickets[i] < tickets[j]

\* Nobody overtakes: a call is admitted only when every call that waits came
\* after it.
NoOvertaking ==
    [][\A c \in Calls : c \notin Admitted /\ c \in Admitted' =>
          \A d \in Waiting \ {c} : c \in Waiting /\ ticket[c] < ticket[d]]_serviceVars

\* The queue is what it should be and is served in its order.
QueueFair == []QueueExact /\ NoOvertaking

\* An event queued for a stream is written, or the stream ends.
StreamDelivers ==
    \A c \in Calls : (queued[c] > 0) ~> (queued[c] = 0)

\* Every call returns, if no client keeps a stream open for ever; with none
\* left, shutdown() returns.
CallsReturn ==
    (\A c \in Calls : []<>(at[c] \in Working => rpc[c] # "Subscribe" \/ cancelled[c])) =>
        /\ \A c \in Calls : (at[c] # "idle") ~> (at[c] = "idle")
        /\ (transport = "draining") ~> (transport = "down")

\* Streams deliver and calls end: the two above.
CallsServed == StreamDelivers /\ CallsReturn
=============================================================================
