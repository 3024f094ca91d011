---------------------------- MODULE Transaction ----------------------------
(***************************************************************************)
(* kernel/action: one Transaction::perform() with the WaitEngine it waits  *)
(* in, against a user interface that changes under it.                     *)
(*                                                                         *)
(* The target is one widget.  It has an identity (runtime, epoch, node and *)
(* generation of the code, one number here, zero while it is absent) and a *)
(* state word of which Enabled is the part that matters.  Every look at    *)
(* the interface is a snapshot of its own and may fail.                    *)
(*                                                                         *)
(* Routes, event source and input seat are interfaces (src/spi): their     *)
(* answers are free within what spi/route.hpp promises, except for the     *)
(* routes in LaxRoutes.                                                    *)
(***************************************************************************)
EXTENDS Integers, Sequences, FiniteSets

CONSTANTS
    Routes,         \* route_order(): the routes to try, in order
    LaxRoutes,      \* routes that may report another error after the effect
    Barriers,       \* barriers a reservation asks for
    Budget,         \* ActionOptions::deadline
    MaxTime,        \* the clock stops here
    MaxChanges      \* changes of the interface

ASSUME TransactionAssumption ==
    /\ LaxRoutes \subseteq {Routes[i] : i \in DOMAIN Routes}
    /\ IsFiniteSet(Barriers)
    /\ Budget \in Nat /\ MaxTime \in Nat /\ MaxChanges \in Nat

VARIABLES
    now, stop,        \* the clock, and whether the caller requested a stop
    ui, changes,      \* the widget, and how often it changed
    options,          \* force; retry: RetryClass is not Never; pinned: the target is a
                      \* Match, not a Locator
    pc,               \* where perform() is
    target,           \* identity of the resolved match, zero before
    purpose,          \* what the wait engine waits for
    result,           \* outcome of the wait, or of execute()
    stability,        \* StabilityState of state_stable()
    enabledSpecs,     \* event specs enabled and not disabled
    leaked,           \* history: a disable failed
    route, armed,     \* routes tried, barriers armed
    receipt,          \* Receipt::commit, barriers and neutralization
    effects,          \* history: effects the action had on the interface
    held,             \* the input seat holds a button or a key down
    looks             \* history: what the last looks of each predicate saw

uiVars    == <<now, stop, ui, changes, options>>
waitVars  == <<purpose, stability, enabledSpecs, leaked, looks>>
routeVars == <<route, armed, receipt, effects, held>>
vars == <<uiVars, waitVars, routeVars, pc, target, result>>

Widgets == [id : Nat, enabled : BOOLEAN]
Absent  == [id |-> 0, enabled |-> FALSE]
NoLook  == [id |-> 0, enabled |-> FALSE, count |-> 0]

Codes == {"ok", "cancelled", "deadline", "retryable", "fatal", "possibly", "unavailable"}
Commits == {"failedBefore", "possibly", "committed", "verified"}

TypeOK ==
    /\ now \in 0 .. MaxTime /\ changes \in 0 .. MaxChanges
    /\ ui \in Widgets /\ target \in Nat
    /\ result \in Codes
    /\ enabledSpecs \subseteq {"resolve", "actionable"}
    /\ route \in 0 .. Len(Routes) /\ armed \subseteq Barriers
    /\ receipt.commit \in Commits
    /\ effects \in Nat
    /\ options \in [force : BOOLEAN, retry : BOOLEAN, pinned : BOOLEAN]
    /\ {stop, held, leaked} \subseteq BOOLEAN

\* perform(): a context with a deadline, an empty receipt.  A pinned target was
\* resolved from the widget with identity 1.
Init ==
    /\ now = 0 /\ stop = FALSE /\ changes = 0
    /\ ui \in {Absent, [id |-> 1, enabled |-> FALSE], [id |-> 1, enabled |-> TRUE]}
    /\ options \in [force : BOOLEAN, retry : BOOLEAN, pinned : BOOLEAN]
    /\ pc = "check" /\ target = 0 /\ result = "ok"
    /\ purpose = "resolve" /\ stability = [previous |-> NoLook, consecutive |-> 0]
    /\ enabledSpecs = {} /\ leaked = FALSE
    /\ route = 0 /\ armed = {}
    /\ receipt = [commit |-> "failedBefore", pending |-> {}, timedOut |-> {},
                  neutral |-> "notAttempted"]
    /\ effects = 0 /\ held = FALSE
    /\ looks = [present |-> Absent, stable |-> NoLook, enabled |-> Absent]

-----------------------------------------------------------------------------
(* The interface, the clock and the caller. *)

Identities == 1 .. MaxChanges + 1

\* The widget changes state, goes away, or is replaced by a new one; an identity
\* does not come back.
Change ==
    /\ changes < MaxChanges
    /\ changes' = changes + 1
    /\ \/ ui.id # 0 /\ ui' = [ui EXCEPT !.enabled = ~@]
       \/ ui.id # 0 /\ ui' = Absent
       \/ \E b \in BOOLEAN : ui' = [id |-> changes + 2, enabled |-> b]
    /\ UNCHANGED <<now, stop, options, waitVars, routeVars, pc, target, result>>

Tick ==
    /\ now < MaxTime
    /\ now' = now + 1
    /\ UNCHANGED <<stop, ui, changes, options, waitVars, routeVars, pc, target, result>>

RequestStop ==
    /\ ~stop /\ stop' = TRUE
    /\ UNCHANGED <<now, ui, changes, options, waitVars, routeVars, pc, target, result>>

Expired == now >= Budget

-----------------------------------------------------------------------------
(* execute(): every error leads to neutralize(). *)

Goto(next) == pc' = next /\ UNCHANGED result

Fail(code) == pc' = "neutralize" /\ result' = code

\* context_.check().
Check ==
    /\ pc = "check"
    /\ CASE stop -> Fail("cancelled")
         [] ~stop /\ Expired -> Fail("deadline")
         [] OTHER -> Goto("resolve")
    /\ UNCHANGED <<uiVars, waitVars, routeVars, target>>

\* resolve_once(): a locator finds the widget that is there, a pinned match only
\* its own; the snapshot itself may fail.
Resolution(code, id) ==
    \/ code \in {"retryable", "fatal"} /\ id = 0
    \/ ~options.pinned /\ ui.id # 0 /\ code = "ok" /\ id = ui.id
    \/ ~options.pinned /\ ui.id = 0 /\ code = "fatal" /\ id = 0
    \/ options.pinned /\ ui.id = 1 /\ code = "ok" /\ id = 1
    \/ options.pinned /\ ui.id # 1 /\ code = "retryable" /\ id = 0

\* The first attempt of resolve_target().
Resolve ==
    /\ pc = "resolve"
    /\ \E code \in {"ok", "retryable", "fatal"}, id \in {0, ui.id} :
          /\ Resolution(code, id)
          /\ target' = id
          /\ IF code = "ok" THEN Goto("mapping")
             ELSE IF code = "retryable" /\ options.retry THEN Goto("enable")
             ELSE Fail(code)
    /\ UNCHANGED <<uiVars, waitVars, routeVars>>

\* refresh_mapping(), and the choice between force and wait_for_actionability().
Mapping ==
    /\ pc = "mapping"
    /\ purpose' = "actionable"
    /\ Fail("fatal") \/ Goto(IF options.force THEN "reserve" ELSE "enable")
    /\ UNCHANGED <<uiVars, stability, enabledSpecs, leaked, looks, routeVars, target>>

-----------------------------------------------------------------------------
(* WaitEngine::wait(). *)

Enable ==
    /\ pc = "enable"
    /\ \/ enabledSpecs' = enabledSpecs \cup {purpose} /\ Goto("loop")
       \/ UNCHANGED enabledSpecs /\ Fail("fatal")
    /\ UNCHANGED <<uiVars, purpose, stability, leaked, looks, routeVars, target>>

\* The wait is over, successfully or not; finish_wait() follows.
WaitEnds(code) == pc' = "finish" /\ result' = code

Loop ==
    /\ pc = "loop"
    /\ IF stop THEN WaitEnds("cancelled")
       ELSE Goto(IF purpose = "resolve" THEN "retry" ELSE "present")
    /\ UNCHANGED <<uiVars, waitVars, routeVars, target>>

\* The "resolve_target" predicate.
ResolveAgain ==
    /\ pc = "retry"
    /\ \E code \in {"ok", "retryable", "fatal"}, id \in {0, ui.id} :
          /\ Resolution(code, id)
          /\ target' = id
          /\ IF code = "retryable" THEN Goto("expiry") ELSE WaitEnds(code)
    /\ UNCHANGED <<uiVars, waitVars, routeVars>>

\* Mutant: the generation is not compared.
SamePresent == ui.id # 0

\* node_observer(): the widget there is the one that was resolved.
IdentityMatches == ui.id = target

\* node_present().
LookPresent ==
    /\ pc = "present"
    /\ looks' = [looks EXCEPT !.present = ui]
    /\ \/ WaitEnds("fatal")
       \/ IdentityMatches /\ Goto("stable")
       \/ ~IdentityMatches /\ Goto("expiry")
    /\ UNCHANGED <<uiVars, purpose, stability, enabledSpecs, leaked, routeVars, target>>

\* Counts of equal observations; beyond the two that are required none is told apart.
Required    == 2
CountUp(n)  == IF n < Required THEN n + 1 ELSE n

\* Consecutive observations of the same states.
Consecutive ==
    IF ~IdentityMatches THEN 0
    ELSE IF stability.consecutive > 0 /\ stability.previous.enabled = ui.enabled
    THEN CountUp(stability.consecutive)
    ELSE 1

\* History: one more look, at the same widget in the same state or at another.
FirstLook == [id |-> ui.id, enabled |-> ui.enabled, count |-> 1]

LookAgain ==
    IF looks.stable.id = ui.id /\ looks.stable.enabled = ui.enabled
    THEN [looks.stable EXCEPT !.count = CountUp(looks.stable.count)]
    ELSE FirstLook

\* state_stable( observer, 2 ).
LookStable ==
    /\ pc = "stable"
    /\ stability' = [previous |-> FirstLook, consecutive |-> Consecutive]
    /\ looks' = [looks EXCEPT !.stable = LookAgain]
    /\ \/ WaitEnds("fatal")
       \/ stability'.consecutive >= Required /\ Goto("enabled")
       \/ stability'.consecutive < Required /\ Goto("expiry")
    /\ UNCHANGED <<uiVars, purpose, enabledSpecs, leaked, routeVars, target>>

\* enabled(), the last check of all_of().
LookEnabled ==
    /\ pc = "enabled"
    /\ looks' = [looks EXCEPT !.enabled = ui]
    /\ \/ WaitEnds("fatal")
       \/ IdentityMatches /\ ui.enabled /\ WaitEnds("ok")
       \/ ~(IdentityMatches /\ ui.enabled) /\ Goto("expiry")
    /\ UNCHANGED <<uiVars, purpose, stability, enabledSpecs, leaked, routeVars, target>>

\* Mutant: a deadline is only noticed by the event source.
ExpiryUnchecked ==
    /\ pc = "expiry"
    /\ Goto("sleep")
    /\ UNCHANGED <<uiVars, waitVars, routeVars, target>>

\* Unsatisfied: the deadline, or another round.
Expiry ==
    /\ pc = "expiry"
    /\ IF Expired THEN WaitEnds("deadline") ELSE Goto("sleep")
    /\ UNCHANGED <<uiVars, waitVars, routeVars, target>>

\* wait_for_event() returns at the latest after the backoff, sooner for an event.
Sleep ==
    /\ pc = "sleep"
    /\ \/ Goto("loop")
       \/ Expired /\ WaitEnds("deadline")
       \/ WaitEnds("fatal")
    /\ UNCHANGED <<uiVars, waitVars, routeVars, target>>

Continue == IF purpose = "resolve" THEN "mapping" ELSE "reserve"

\* finish_wait(): a failed disable spoils a successful wait only.
FinishWait ==
    /\ pc = "finish"
    /\ \/ /\ enabledSpecs' = enabledSpecs \ {purpose} /\ UNCHANGED leaked
          /\ IF result = "ok" THEN Goto(Continue) ELSE Fail(result)
       \/ /\ leaked' = TRUE /\ UNCHANGED enabledSpecs
          /\ Fail(IF result = "ok" THEN "fatal" ELSE result)
    /\ UNCHANGED <<uiVars, purpose, stability, looks, routeVars, target>>

-----------------------------------------------------------------------------
(* reserve_route() and execute_reserved(). *)

SetCommit(status) == receipt' = [receipt EXCEPT !.commit = status]

\* The interface is changed, possibly with input left held down.
Effect(n) ==
    /\ effects' = effects + n
    /\ held' \in (IF n = 0 THEN {held} ELSE BOOLEAN)

\* Mutant: after a reservation that may have acted the next route is tried.
ReserveOnward ==
    /\ pc = "reserve" /\ route < Len(Routes)
    /\ route' = route + 1
    /\ \/ UNCHANGED <<receipt, effects, held>> /\ Goto("reserve")
       \/ UNCHANGED <<receipt, effects, held>> /\ Goto("arm")
       \/ SetCommit("possibly") /\ (\E n \in {0, 1} : Effect(n)) /\ Goto("reserve")
    /\ UNCHANGED <<uiVars, waitVars, armed, target>>

\* One turn of the loop: refused (or a route without executor), reserved, or an
\* error after which the action may have happened.
Reserve ==
    /\ pc = "reserve" /\ route < Len(Routes)
    /\ route' = route + 1
    /\ \/ UNCHANGED <<receipt, effects, held>> /\ Goto("reserve")
       \/ UNCHANGED <<receipt, effects, held>> /\ Goto("arm")
       \/ SetCommit("possibly") /\ (\E n \in {0, 1} : Effect(n)) /\ Fail("possibly")
    /\ UNCHANGED <<uiVars, waitVars, armed, target>>

ReserveNone ==
    /\ pc = "reserve" /\ route = Len(Routes)
    /\ Fail("unavailable")
    /\ UNCHANGED <<uiVars, waitVars, routeVars, target>>

ArmBarrier ==
    /\ pc = "arm"
    /\ IF armed = Barriers
       THEN Goto("commit") /\ UNCHANGED <<armed, receipt>>
       ELSE \E b \in Barriers \ armed :
               /\ receipt' = [receipt EXCEPT !.pending = @ \cup {b}]
               /\ \/ armed' = armed \cup {b} /\ Goto("arm")
                  \/ UNCHANGED armed /\ Fail("fatal")
    /\ UNCHANGED <<uiVars, waitVars, route, effects, held, target>>

\* Mutant: any error of the route means that nothing happened.
CommitOptimistic ==
    /\ pc = "commit"
    /\ \/ Effect(1) /\ SetCommit("committed") /\ Goto("settle")
       \/ (\E n \in {0, 1} : Effect(n)) /\ SetCommit("failedBefore") /\ Fail("possibly")
       \/ Effect(0) /\ SetCommit("failedBefore") /\ Fail("fatal")
    /\ UNCHANGED <<uiVars, waitVars, route, armed, target>>

\* commit().  PossiblyCommitted is the only error after which there may be an effect,
\* unless the route breaks that promise.
Commit ==
    /\ pc = "commit"
    /\ \/ Effect(1) /\ SetCommit("committed") /\ Goto("settle")
       \/ (\E n \in {0, 1} : Effect(n)) /\ SetCommit("possibly") /\ Fail("possibly")
       \/ Effect(0) /\ SetCommit("failedBefore") /\ Fail("fatal")
       \/ /\ Routes[route] \in LaxRoutes
          /\ Effect(1) /\ SetCommit("failedBefore") /\ Fail("fatal")
    /\ UNCHANGED <<uiVars, waitVars, route, armed, target>>

\* settle() and merge_barriers().
Settle ==
    /\ pc = "settle"
    /\ \/ /\ \E satisfied \in SUBSET Barriers :
                receipt' = [receipt EXCEPT !.pending = @ \ satisfied]
          /\ Goto("verify")
       \/ /\ receipt' = [receipt EXCEPT !.timedOut = receipt.pending]
          /\ Fail("deadline")
       \/ UNCHANGED receipt /\ Fail("fatal")
    /\ UNCHANGED <<uiVars, waitVars, route, armed, effects, held, target>>

Verify ==
    /\ pc = "verify"
    /\ \/ SetCommit("verified") /\ pc' = "neutralize" /\ result' = "ok"
       \/ UNCHANGED receipt /\ Fail("fatal")
    /\ UNCHANGED <<uiVars, waitVars, route, armed, effects, held, target>>

\* Mutant: an action that failed is left as it is.
NeutralizeOnSuccess ==
    /\ pc = "neutralize"
    /\ pc' = "done"
    /\ IF result = "ok"
       THEN held' = FALSE /\ receipt' = [receipt EXCEPT !.neutral = "released"]
       ELSE UNCHANGED <<held, receipt>>
    /\ UNCHANGED <<uiVars, waitVars, route, armed, effects, target, result>>

\* neutralize(), whatever came before; a failure is the error only when there is none.
\* A runtime without an input seat holds nothing and is not asked.
Neutralize ==
    /\ pc = "neutralize"
    /\ pc' = "done"
    /\ \/ /\ held' = FALSE
          /\ receipt' = [receipt EXCEPT !.neutral = IF held THEN "released" ELSE "nothingHeld"]
          /\ UNCHANGED result
       \/ /\ receipt' = [receipt EXCEPT !.neutral = "failed"]
          /\ result' = IF result = "ok" THEN "fatal" ELSE result
          /\ UNCHANGED held
       \/ ~held /\ UNCHANGED <<held, receipt, result>>
    /\ UNCHANGED <<uiVars, waitVars, route, armed, effects, target>>

-----------------------------------------------------------------------------
Wait == \/ Enable \/ Loop \/ ResolveAgain \/ LookPresent \/ LookStable \/ LookEnabled
        \/ Expiry \/ Sleep \/ FinishWait

Perform == \/ Check \/ Resolve \/ Mapping \/ Wait
           \/ Reserve \/ ReserveNone \/ ArmBarrier \/ Commit \/ Settle \/ Verify
           \/ Neutralize

Next == Change \/ Tick \/ RequestStop \/ Perform

Spec == Init /\ [][Next]_vars

\* The calling thread runs and the clock advances; the interface need not change and
\* no event need arrive.
FairSpec == Spec /\ WF_vars(Perform) /\ WF_vars(Tick)

-----------------------------------------------------------------------------
(* Properties. *)

\* However many routes refuse or break off, the action has at most one effect: no route
\* is tried once another may have acted (transaction.cpp:525-533).
NeverActsTwice == effects <= 1

\* What the receipt says of the commit is true of the interface: a caller that reads
\* FailedBeforeCommit may try again, one that reads Committed or Verified need not
\* (transaction.cpp:568-580; spi/route.hpp:99-100).  Of all routes that were tried only the
\* one committed to can make it untrue, and only in one way: by breaking the promise of
\* route.hpp, as window activation does (x11_routes.cpp:565).
ReceiptIsTrue ==
    pc = "done" =>
        /\ receipt.commit = "failedBefore" => effects = 0 \/ Routes[route] \in LaxRoutes
        /\ receipt.commit \in {"committed", "verified"} => effects = 1
        /\ result = "ok" => receipt.commit = "verified"

\* Unless it was forced, an action goes ahead only on the widget it resolved: its last
\* looks saw that widget, twice in the same state and then enabled, however the
\* interface changed between the looks (transaction.cpp:392-444; wait_engine.cpp:172-225).
ActsOnWhatItSaw ==
    (pc \in {"reserve", "arm", "commit", "settle", "verify"} /\ ~options.force) =>
        /\ looks.present.id = target
        /\ looks.stable.id = target /\ looks.stable.count >= 2
        /\ looks.enabled.id = target /\ looks.enabled.enabled

\* No input stays held down behind the caller's back, whichever step failed
\* (transaction.cpp:183-190, 631-660).
NothingLeftHeld ==
    pc = "done" /\ held => receipt.neutral = "failed" /\ result # "ok"

\* perform() returns, with every event it enabled disabled again unless the event source
\* refused: neither a stale target nor a widget that never settles outlives the deadline
\* (wait_engine.cpp:70-89, 292-355).
PerformReturns == <>[](pc = "done" /\ (enabledSpecs = {} \/ leaked))
=============================================================================
