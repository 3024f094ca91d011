------------------------------ MODULE EventBus ------------------------------
(***************************************************************************)
(* kernel/events/event_bus.cpp with the two parties of a session that hang *)
(* on it: the snapshot providers, called under the bus mutex while a       *)
(* subscription joins, and the demand callback, called after the mutex is  *)
(* released, which counts demand in X11EventSource and selects XI2 masks.  *)
(*                                                                         *)
(* A critical section of the bus mutex is one action, except the one of    *)
(* add(): it calls into a provider once per replayed event, so the mutex   *)
(* is a variable and the replay is a sequence of steps that hold it.       *)
(* The notify callback is left to the consumers that install one.         *)
(***************************************************************************)
EXTENDS EventQueue, FiniteSets

CONSTANTS
    Subscribers,    \* each is one Subscription, made and dropped once
    Scope,          \* Scope[s]: the kinds s subscribes to
    Capacity,       \* Capacity[s], Policy[s]: its QueueOptions
    Policy,
    ReplayKinds,    \* replay_policy_of( kind ) = CurrentSet
    DemandKinds,    \* kinds with a demand_slot() in X11EventSource
    MaskBit,        \* MaskBit[k]: the XI2 mask bit of a demand kind
    MaxSequence     \* the bus hands out no sequence beyond this

ASSUME BusAssumption ==
    /\ IsFiniteSet(Subscribers)
    /\ Scope \in [Subscribers -> SUBSET Kinds]
    /\ Capacity \in [Subscribers -> Nat]
    /\ Policy \in [Subscribers -> Policies]
    /\ ReplayKinds \subseteq Kinds
    /\ DemandKinds \subseteq Kinds
    /\ MaxSequence \in Nat

Free == "free"

ASSUME FreeAssumption == Free \notin Subscribers

VARIABLES
    mutex,          \* EventBusState::mutex_: Free, or the subscriber joining
    subscriptions,  \* subscriptions_
    queue,          \* the SubscriptionState of every subscriber
    nextSequence,   \* next_sequence_
    refcount,       \* subscription_refcounts_
    providers,      \* keys of snapshot_providers_
    callback,       \* demand_callback_ is set
    phase,          \* where each subscriber stands
    pending,        \* kinds whose demand transition it has still to report
    demand,         \* X11EventSource::demand_refcounts_
    selectFailed,   \* history: select_events() failed once
    blind,          \* history: a transition found no callback to report it
    runtime,        \* the X11 runtime the callback captured
    pump,           \* pump_: the session is observing
    reentered       \* history: the callback ran into a destroyed runtime

demandVars  == <<demand, selectFailed, reentered>>
sessionVars == <<callback, runtime, pump>>
vars == <<mutex, subscriptions, queue, nextSequence, refcount, providers, phase,
          pending, blind, demandVars, sessionVars>>

Phases == {"absent", "replaying", "subscribed", "gone"}

TypeOK ==
    /\ mutex \in Subscribers \cup {Free}
    /\ subscriptions \subseteq Subscribers
    /\ queue \in [Subscribers -> Queues]
    /\ nextSequence \in Nat \ {0}
    /\ refcount \in [Kinds -> Nat]
    /\ providers \subseteq Kinds
    /\ callback \in BOOLEAN
    /\ phase \in [Subscribers -> Phases]
    /\ pending \in [Subscribers -> SUBSET Kinds]
    /\ demand \in [DemandKinds -> Nat]
    /\ selectFailed \in BOOLEAN
    /\ blind \in BOOLEAN
    /\ runtime \in {"up", "closing", "destroyed"}
    /\ pump \in BOOLEAN
    /\ reentered \in BOOLEAN

\* A session that has just been opened: SessionCore::open() installed the
\* demand callback, nobody subscribes to an input kind yet.
Init ==
    /\ mutex = Free
    /\ subscriptions = {}
    /\ queue = [s \in Subscribers |-> EmptyQueue]
    /\ nextSequence = 1
    /\ refcount = [k \in Kinds |-> 0]
    /\ providers = {}
    /\ callback = TRUE
    /\ phase = [s \in Subscribers |-> "absent"]
    /\ pending = [s \in Subscribers |-> {}]
    /\ demand = [k \in DemandKinds |-> 0]
    /\ selectFailed = FALSE
    /\ blind = FALSE
    /\ runtime = "up"
    /\ pump = FALSE
    /\ reentered = FALSE

-----------------------------------------------------------------------------
(* EventBusState::add(). *)

\* The transitions of the thread that makes or drops s, to be reported through
\* the callback of this moment, or to nobody.
Record(s, kinds) ==
    /\ pending' = [pending EXCEPT ![s] = IF callback THEN kinds ELSE {}]
    /\ blind' = (blind \/ (~callback /\ kinds \cap DemandKinds # {}))

SubscribeBegin(s) ==
    /\ mutex = Free
    /\ phase[s] = "absent"
    /\ mutex' = s
    /\ phase' = [phase EXCEPT ![s] = "replaying"]
    /\ UNCHANGED <<subscriptions, queue, nextSequence, refcount, providers, pending,
                   blind, demandVars, sessionVars>>

\* Mutant: a replayed event keeps the unset sequence the provider gave it.
ReplayUnstamped(s, k) ==
    /\ mutex = s
    /\ k \in Scope[s] \cap ReplayKinds \cap providers
    /\ nextSequence <= MaxSequence
    /\ queue' = [queue EXCEPT ![s] =
                    Enqueue(@, Event(k, 0), Capacity[s], Policy[s])]
    /\ nextSequence' = nextSequence + 1
    /\ UNCHANGED <<mutex, subscriptions, refcount, providers, phase, pending,
                   blind, demandVars, sessionVars>>

\* One event out of a provider's answer, stamped and put in the new queue.
Replay(s, k) ==
    /\ mutex = s
    /\ k \in Scope[s] \cap ReplayKinds \cap providers
    /\ nextSequence <= MaxSequence
    /\ queue' = [queue EXCEPT ![s] =
                    Enqueue(@, Event(k, nextSequence), Capacity[s], Policy[s])]
    /\ nextSequence' = nextSequence + 1
    /\ UNCHANGED <<mutex, subscriptions, refcount, providers, phase, pending,
                   blind, demandVars, sessionVars>>

\* Mutant: every kind of the scope is reported, first subscriber or not.
SubscribeEndAlways(s) ==
    /\ mutex = s
    /\ subscriptions' = subscriptions \cup {s}
    /\ refcount' = [k \in Kinds |-> IF k \in Scope[s] THEN refcount[k] + 1 ELSE refcount[k]]
    /\ Record(s, Scope[s])
    /\ phase' = [phase EXCEPT ![s] = "subscribed"]
    /\ mutex' = Free
    /\ UNCHANGED <<queue, nextSequence, providers, demandVars, sessionVars>>

\* The subscription is listed and counted, the kinds it is the first to want
\* are remembered with the callback of that moment, the mutex is released.
SubscribeEnd(s) ==
    /\ mutex = s
    /\ subscriptions' = subscriptions \cup {s}
    /\ refcount' = [k \in Kinds |-> IF k \in Scope[s] THEN refcount[k] + 1 ELSE refcount[k]]
    /\ Record(s, {k \in Scope[s] : refcount[k] = 0})
    /\ phase' = [phase EXCEPT ![s] = "subscribed"]
    /\ mutex' = Free
    /\ UNCHANGED <<queue, nextSequence, providers, demandVars, sessionVars>>

-----------------------------------------------------------------------------
(* EventBusState::remove(), from ~Subscription once subscribe() returned. *)

Unsubscribe(s) ==
    /\ mutex = Free
    /\ phase[s] = "subscribed"
    /\ pending[s] = {}
    /\ subscriptions' = subscriptions \ {s}
    /\ refcount' = [k \in Kinds |-> IF k \in Scope[s] THEN refcount[k] - 1 ELSE refcount[k]]
    /\ Record(s, {k \in Scope[s] : refcount[k] = 1})
    /\ phase' = [phase EXCEPT ![s] = "gone"]
    /\ UNCHANGED <<mutex, queue, nextSequence, providers, demandVars, sessionVars>>

-----------------------------------------------------------------------------
(* invoke_demand_callback(), one transition at a time, outside the mutex.  *)

Mask(counts) == {MaskBit[k] : k \in {d \in DemandKinds : counts[d] > 0}}

\* The counts become wanted, and the mask is selected again if it differs;
\* when that fails the counts are put back and the error is swallowed.
Select(wanted) ==
    \/ /\ demand' = wanted
       /\ UNCHANGED selectFailed
    \/ /\ Mask(wanted) # Mask(demand)
       /\ selectFailed' = TRUE
       /\ UNCHANGED demand

\* X11EventSource::enable() and disable(); a disable without demand is refused.
Enable(k) == Select([demand EXCEPT ![k] = @ + 1])

Disable(k) ==
    IF demand[k] = 0
    THEN UNCHANGED <<demand, selectFailed>>
    ELSE Select([demand EXCEPT ![k] = @ - 1])

\* The callback of the thread that made or dropped s reports kind k.  A kind
\* without a slot changes nothing; with the runtime gone the call has nowhere
\* to go.
ReportDemand(s, k) ==
    /\ k \in pending[s]
    /\ phase[s] \in {"subscribed", "gone"}
    /\ pending' = [pending EXCEPT ![s] = @ \ {k}]
    /\ IF runtime = "destroyed"
       THEN reentered' = TRUE /\ UNCHANGED <<demand, selectFailed>>
       ELSE /\ UNCHANGED reentered
            /\ IF k \notin DemandKinds THEN UNCHANGED <<demand, selectFailed>>
               ELSE IF phase[s] = "subscribed" THEN Enable(k)
               ELSE Disable(k)
    /\ UNCHANGED <<mutex, subscriptions, queue, nextSequence, refcount, providers,
                   phase, blind, sessionVars>>

-----------------------------------------------------------------------------
(* Publishing and popping. *)

\* publish(): one sequence for all, every matching queue under one lock.
Publish(k) ==
    /\ mutex = Free
    /\ nextSequence <= MaxSequence
    /\ queue' = [s \in Subscribers |->
                    IF s \in subscriptions /\ k \in Scope[s]
                    THEN Enqueue(queue[s], Event(k, nextSequence), Capacity[s], Policy[s])
                    ELSE queue[s]]
    /\ nextSequence' = nextSequence + 1
    /\ UNCHANGED <<mutex, subscriptions, refcount, providers, phase, pending,
                   blind, demandVars, sessionVars>>

\* Subscription::try_pop_item(), under the queue's own mutex.
Pop(s) ==
    /\ phase[s] = "subscribed"
    /\ pending[s] = {}
    /\ queue[s].items # <<>>
    /\ queue' = [queue EXCEPT ![s] = TryPopItem(@)]
    /\ UNCHANGED <<mutex, subscriptions, nextSequence, refcount, providers, phase,
                   pending, blind, demandVars, sessionVars>>

-----------------------------------------------------------------------------
(* The session. *)

RegisterProvider(k) ==
    /\ mutex = Free
    /\ providers' = providers \cup {k}
    /\ UNCHANGED <<mutex, subscriptions, queue, nextSequence, refcount, phase, pending,
                   blind, demandVars, sessionVars>>

UnregisterProvider(k) ==
    /\ mutex = Free
    /\ providers' = providers \ {k}
    /\ UNCHANGED <<mutex, subscriptions, queue, nextSequence, refcount, phase, pending,
                   blind, demandVars, sessionVars>>

\* start_observation() installs the same callback again; the kinds that were
\* subscribed to in the meantime are not reported.
StartObservation ==
    /\ mutex = Free
    /\ runtime = "up"
    /\ ~pump
    /\ pump' = TRUE
    /\ callback' = TRUE
    /\ UNCHANGED <<mutex, subscriptions, queue, nextSequence, refcount, providers, phase,
                   pending, blind, demandVars, runtime>>

\* stop_observation() stops the pump if there is one and takes the callback away.
StopObservation ==
    /\ mutex = Free
    /\ runtime = "up"
    /\ pump' = FALSE
    /\ callback' = FALSE
    /\ UNCHANGED <<mutex, subscriptions, queue, nextSequence, refcount, providers, phase,
                   pending, blind, demandVars, runtime>>

\* ~SessionCore() stops the pump and clears the callback, then stops and destroys
\* the runtime.
ClearDemandCallback ==
    /\ mutex = Free
    /\ runtime = "up"
    /\ runtime' = "closing"
    /\ pump' = FALSE
    /\ callback' = FALSE
    /\ UNCHANGED <<mutex, subscriptions, queue, nextSequence, refcount, providers, phase,
                   pending, blind, demandVars>>

DestroyRuntime ==
    /\ runtime = "closing"
    /\ runtime' = "destroyed"
    /\ UNCHANGED <<mutex, subscriptions, queue, nextSequence, refcount, providers, phase,
                   pending, blind, demandVars, callback, pump>>

Next ==
    \/ \E s \in Subscribers :
          \/ SubscribeBegin(s)
          \/ SubscribeEnd(s)
          \/ Unsubscribe(s)
          \/ Pop(s)
          \/ \E k \in Kinds : Replay(s, k) \/ ReportDemand(s, k)
    \/ \E k \in Kinds : Publish(k)
    \/ \E k \in ReplayKinds : RegisterProvider(k) \/ UnregisterProvider(k)
    \/ StartObservation
    \/ StopObservation
    \/ ClearDemandCallback
    \/ DestroyRuntime

Spec == Init /\ [][Next]_vars

-----------------------------------------------------------------------------
(* Properties. *)

\* For every subscriber, whatever was replayed to it, published to it by several
\* threads, coalesced and lost: its queue is in bus order (event_bus.cpp:325-328,
\* 429-444), and what it had to lose is marked at its place.
QueuesKeepPromises ==
    \A s \in Subscribers :
        /\ Ordered(queue[s], nextSequence)
        /\ LossIsMarked(queue[s])

\* The demand held by the event source, with transitions still on their way to it
\* in other threads, accounts for the subscribers: the callbacks run outside the
\* mutex and may overtake one another, and the counts come out the same
\* (event_bus.cpp:344, 381; x11_event_source.cpp:671, 708).
Enables(k)  == {s \in Subscribers : phase[s] = "subscribed" /\ k \in pending[s]}
Disables(k) == {s \in Subscribers : phase[s] = "gone" /\ k \in pending[s]}

DemandAccounted ==
    ~selectFailed /\ ~reentered /\ ~blind =>
        \A k \in DemandKinds :
            demand[k] + Cardinality(Enables(k)) =
                (IF refcount[k] > 0 THEN 1 ELSE 0) + Cardinality(Disables(k))

\* With no transition under way the XI2 mask is armed for exactly the kinds that
\* somebody subscribes to (session_impl.cpp:785-786).
MaskIsCurrent ==
    (\A s \in Subscribers : pending[s] = {}) =>
        Mask(demand) = {MaskBit[k] : k \in {d \in DemandKinds : refcount[d] > 0}}

\* So it is as long as nobody came or went while the callback was away.
MaskFollowsSubscribers == ~selectFailed /\ ~reentered /\ ~blind => MaskIsCurrent

\* What the event source is asked to report is what subscribers need: on the way, by
\* the counts, and once quiet, by the mask.
DemandFollows == DemandAccounted /\ MaskFollowsSubscribers

=============================================================================
