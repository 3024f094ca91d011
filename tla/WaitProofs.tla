----------------------------- MODULE WaitProofs -----------------------------
(***************************************************************************)
(* Waiting: what Transaction promises, for any list of routes, any set of  *)
(* barriers, any deadline and any number of changes of the interface, and  *)
(* what TimerThread promises for any clients, clock and tokens.            *)
(*                                                                         *)
(* Transaction has two inductive invariants.  ActInv follows the effect of *)
(* the action through execute(): before commit() there is none, and from   *)
(* then on the commit status tells what there is.  LookInv follows what    *)
(* the predicates of the wait engine saw: StabilityState remembers the     *)
(* states of the last look and a count, not whose states they were, and it *)
(* is the identity that resets the count which makes the two looks those   *)
(* of one widget.                                                          *)
(*                                                                         *)
(* TimerThread has TimerInv.  NoUnwatchedDeadline speaks of the thread     *)
(* blocked in poll(), whether or not timerfd_settime failed before; one    *)
(* step earlier, between the mutex and timerfd_settime, the same must hold *)
(* of the local "next" that is about to be programmed (ArmCovered).        *)
(* Delivery without repetition needs that no token at or above next_token_ *)
(* was ever used (Fresh).                                                  *)
(***************************************************************************)
EXTENDS Transaction, TimerThread, TLAPS

Receipts == [commit : Commits, pending : SUBSET Barriers, timedOut : SUBSET Barriers,
             neutral : {"notAttempted", "released", "nothingHeld", "failed"}]

\* Every place of perform() before commit() has been called.
BeforeCommit == {"check", "resolve", "mapping", "enable", "loop", "retry", "present",
                 "stable", "enabled", "expiry", "sleep", "finish", "reserve", "arm",
                 "commit"}

Places == BeforeCommit \cup {"settle", "verify", "neutralize", "done"}

\* The receipt is true of the effects so far.
Truthful ==
    /\ receipt.commit = "failedBefore" => effects = 0 \/ Routes[route] \in LaxRoutes
    /\ receipt.commit \in {"committed", "verified"} => effects = 1
    /\ pc \in {"neutralize", "done"} /\ result = "ok" => receipt.commit = "verified"

ActInv ==
    /\ pc \in Places
    /\ receipt \in Receipts
    /\ effects \in {0, 1}
    /\ pc \in BeforeCommit => effects = 0 /\ receipt.commit = "failedBefore"
    /\ pc \in {"settle", "verify"} => effects = 1 /\ receipt.commit = "committed"
    /\ Truthful
    /\ NothingLeftHeld

-----------------------------------------------------------------------------
(* The effect. *)

LEMMA InitActInv == Init => ActInv
BY DEF Init, ActInv, Places, BeforeCommit, Receipts, Commits, Truthful, NothingLeftHeld

\* A step that stays before commit() and leaves receipt and effects alone.
LEMMA QuietStep ==
    ASSUME ActInv, pc \in BeforeCommit, UNCHANGED <<receipt, effects>>,
           \/ pc' \in BeforeCommit
           \/ pc' = "neutralize" /\ result' # "ok"
    PROVE  ActInv'
BY DEF ActInv, Places, BeforeCommit, Truthful, NothingLeftHeld

LEMMA StepActInv == ActInv /\ [Next]_vars => ActInv'
<1> SUFFICES ASSUME ActInv, [Next]_vars PROVE ActInv'
  OBVIOUS
<1>1. CASE Change \/ Tick \/ RequestStop \/ UNCHANGED vars
  <2>1. UNCHANGED <<pc, result, receipt, effects, held, route>>
    BY <1>1 DEF Change, Tick, RequestStop, vars, routeVars
  <2> QED
    BY <2>1 DEF ActInv, Truthful, NothingLeftHeld
<1>2. CASE Check \/ Resolve \/ Mapping
  <2>1. pc \in BeforeCommit /\ UNCHANGED <<receipt, effects>>
    BY <1>2 DEF Check, Resolve, Mapping, routeVars, BeforeCommit
  <2>2. pc' \in BeforeCommit \/ (pc' = "neutralize" /\ result' # "ok")
    BY <1>2 DEF Check, Resolve, Mapping, Goto, Fail, BeforeCommit
  <2> QED
    BY <2>1, <2>2, QuietStep
<1>3. CASE Wait
  <2>1. pc \in BeforeCommit /\ UNCHANGED <<receipt, effects>>
    BY <1>3 DEF Wait, Enable, Loop, ResolveAgain, LookPresent, LookStable, LookEnabled,
                Expiry, Sleep, FinishWait, routeVars, BeforeCommit
  <2>2. CASE FinishWait
    BY <2>1, <2>2, QuietStep DEF FinishWait, Goto, Fail, Continue, BeforeCommit
  <2>3. CASE ~FinishWait
    <3>1. pc' \in BeforeCommit \/ (pc' = "neutralize" /\ result' # "ok")
      BY <1>3, <2>3 DEF Wait, Enable, Loop, ResolveAgain, LookPresent, LookStable,
                LookEnabled, Expiry, Sleep, WaitEnds, Goto, Fail, BeforeCommit
    <3> QED
      BY <2>1, <3>1, QuietStep
  <2> QED
    BY <2>2, <2>3
<1>4. CASE Reserve
  BY <1>4 DEF Reserve, Goto, Fail, SetCommit, Effect, ActInv, Places, BeforeCommit,
              Receipts, Commits, Truthful, NothingLeftHeld
<1>5. CASE ReserveNone
  BY <1>5, QuietStep DEF ReserveNone, Fail, routeVars, BeforeCommit
<1>6. CASE ArmBarrier
  BY <1>6 DEF ArmBarrier, Goto, Fail, ActInv, Places, BeforeCommit,
              Receipts, Commits, Truthful, NothingLeftHeld
<1>7. CASE Commit
  BY <1>7 DEF Commit, Goto, Fail, SetCommit, Effect, ActInv, Places, BeforeCommit,
              Receipts, Commits, Truthful, NothingLeftHeld
<1>8. CASE Settle
  BY <1>8 DEF Settle, Goto, Fail, ActInv, Places, BeforeCommit,
              Receipts, Commits, Truthful, NothingLeftHeld
<1>9. CASE Verify
  BY <1>9 DEF Verify, Fail, SetCommit, ActInv, Places, BeforeCommit,
              Receipts, Commits, Truthful, NothingLeftHeld
<1>10. CASE Neutralize
  BY <1>10 DEF Neutralize, ActInv, Places, BeforeCommit,
              Receipts, Commits, Truthful, NothingLeftHeld
<1> QED
  BY <1>1, <1>2, <1>3, <1>4, <1>5, <1>6, <1>7, <1>8, <1>9, <1>10 DEF Next, Perform

LEMMA ActInvariance == Spec => []ActInv
BY InitActInv, StepActInv, PTL DEF Spec

\* However many routes there are and whatever they answer, in keeping with their
\* interface or not, the action has at most one effect (transaction.cpp:525-533).
THEOREM ActsAtMostOnce == Spec => []NeverActsTwice
<1>1. ActInv => NeverActsTwice
  BY DEF ActInv, NeverActsTwice
<1> QED
  BY <1>1, ActInvariance, PTL

\* Whatever the routes answer, the receipt is true (transaction.cpp:568-580), unless the
\* one route that was committed to does not keep the promise of spi/route.hpp:99-100.
THEOREM ReceiptsAreTrue == Spec => []ReceiptIsTrue
<1>1. ActInv => ReceiptIsTrue
  BY DEF ActInv, Truthful, ReceiptIsTrue
<1> QED
  BY <1>1, ActInvariance, PTL

\* Whichever step failed, input is left held only when neutralize() itself failed
\* and the caller is told (transaction.cpp:183-190, 631-660).
THEOREM InputReleased == Spec => []NothingLeftHeld
<1>1. ActInv => NothingLeftHeld
  BY DEF ActInv
<1> QED
  BY <1>1, ActInvariance, PTL
-----------------------------------------------------------------------------
(* What was seen. *)

Looks == [id : Nat, enabled : BOOLEAN, count : Nat]

\* What the "ok" of wait_for_actionability() stands for.
Saw ==
    /\ looks.present.id = target
    /\ looks.stable.id = target /\ looks.stable.count >= Required
    /\ looks.enabled.id = target /\ looks.enabled.enabled

LookTypes ==
    /\ pc \in Places
    /\ ui \in Widgets /\ changes \in Nat
    /\ purpose \in {"resolve", "actionable"}
    /\ looks \in [present : Widgets, stable : Looks, enabled : Widgets]
    /\ stability \in [previous : Looks, consecutive : 0 .. Required]

\* Which wait is on, by where perform() stands; the target is only resolved in the
\* first, before any look is counted.
PurposeFits ==
    /\ pc \in {"check", "resolve", "retry", "mapping"} => purpose = "resolve"
    /\ pc \in {"present", "stable", "enabled"} => purpose = "actionable"
    /\ purpose = "resolve" => stability.consecutive = 0

\* The count of state_stable() never exceeds what was really seen of the target.
CountHonest ==
    stability.consecutive > 0 =>
        /\ looks.stable.id = target
        /\ looks.stable.enabled = stability.previous.enabled
        /\ looks.stable.count >= stability.consecutive

\* all_of() goes from check to check only on success.
SoFar ==
    /\ pc \in {"stable", "enabled"} => looks.present.id = target
    /\ pc = "enabled" => stability.consecutive = Required
    /\ pc = "finish" /\ result = "ok" /\ purpose = "actionable" => Saw
    /\ pc \in {"reserve", "arm", "commit", "settle", "verify"} /\ ~options.force => Saw

LookInv == LookTypes /\ PurposeFits /\ CountHonest /\ SoFar

LEMMA WidgetType ==
    ASSUME NEW n \in Nat, NEW b \in BOOLEAN
    PROVE  [id |-> n, enabled |-> b] \in Widgets
BY Zenon DEF Widgets

LEMMA WidgetSet ==
    ASSUME NEW w \in Widgets, NEW b \in BOOLEAN
    PROVE  [w EXCEPT !.enabled = b] \in Widgets
BY DEF Widgets

LEMMA LookType ==
    ASSUME NEW n \in Nat, NEW b \in BOOLEAN, NEW c \in Nat
    PROVE  [id |-> n, enabled |-> b, count |-> c] \in Looks
BY Zenon DEF Looks

LEMMA InitLookInv == Init => LookInv
<1> SUFFICES ASSUME Init PROVE LookInv
  OBVIOUS
<1>1. 0 \in Nat /\ 1 \in Nat /\ TRUE \in BOOLEAN /\ FALSE \in BOOLEAN
  OBVIOUS
<1>2. Absent \in Widgets /\ NoLook \in Looks
  BY <1>1, WidgetType, LookType, Zenon DEF Absent, NoLook
<1>3. ui \in Widgets
  BY <1>1, <1>2, WidgetType, Zenon DEF Init
<1>4. LookTypes
  BY <1>2, <1>3 DEF Init, LookTypes, Places, BeforeCommit, Required
<1> QED
  BY <1>4 DEF Init, LookInv, PurposeFits, CountHonest, SoFar

\* A step that resolves nothing and looks at nothing keeps what was seen.
LEMMA BlindStep ==
    ASSUME LookInv, UNCHANGED <<ui, changes, target, purpose, looks, stability, options>>,
           pc' \in Places,
           pc' \in {"check", "resolve", "retry", "mapping"} => purpose = "resolve",
           pc' \in {"present", "stable", "enabled"} => purpose = "actionable",
           pc' \in {"stable", "enabled"} => pc' = pc,
           pc' = "finish" => result' # "ok" \/ (pc = "finish" /\ result' = result),
           pc' \in {"reserve", "arm", "commit", "settle", "verify"} /\ ~options.force => Saw
    PROVE  LookInv'
BY DEF LookInv, LookTypes, PurposeFits, CountHonest, SoFar, Saw

LEMMA StepLookInv == LookInv /\ [Next]_vars => LookInv'
<1> SUFFICES ASSUME LookInv, [Next]_vars PROVE LookInv'
  OBVIOUS
<1> USE DEF LookInv
<1>1. CASE Change
  <2>1. ui' \in Widgets /\ changes' \in Nat
    <3>1. changes' = changes + 1 /\ changes \in Nat /\ changes + 2 \in Nat
      BY <1>1 DEF Change, LookTypes
    <3>2. CASE \E b \in BOOLEAN : ui' = [id |-> changes + 2, enabled |-> b]
      BY <3>1, <3>2, WidgetType
    <3>3. CASE ui' = [ui EXCEPT !.enabled = ~@]
      <4>1. (~ui.enabled) \in BOOLEAN
        BY Zenon
      <4>2. ui' \in Widgets
        BY <3>3, <4>1, WidgetSet, Zenon DEF LookTypes
      <4> QED
        BY <3>1, <4>2
    <3>4. CASE ui' = Absent
      <4>1. 0 \in Nat /\ FALSE \in BOOLEAN
        OBVIOUS
      <4>2. ui' \in Widgets
        BY <3>4, <4>1, WidgetType, Zenon DEF Absent
      <4> QED
        BY <3>1, <4>2
    <3> QED
      BY <1>1, <3>2, <3>3, <3>4 DEF Change
  <2>2. UNCHANGED <<pc, result, target, purpose, looks, stability, options>>
    BY <1>1 DEF Change, waitVars
  <2> QED
    BY <2>1, <2>2 DEF LookTypes, PurposeFits, CountHonest, SoFar, Saw
<1>2. CASE Tick \/ RequestStop \/ UNCHANGED vars
  <2>1. UNCHANGED <<pc, result, ui, changes, target, purpose, looks, stability,
                  options>>
    BY <1>2 DEF Tick, RequestStop, vars, uiVars, waitVars
  <2> QED
    BY <2>1 DEF LookTypes, PurposeFits, CountHonest, SoFar, Saw
<1>3. CASE Check \/ Enable \/ Loop \/ Expiry \/ Sleep
  <2>1. UNCHANGED <<ui, changes, target, purpose, looks, stability, options>>
    BY <1>3 DEF Check, Enable, Loop, Expiry, Sleep, uiVars, waitVars
  <2> QED
    BY <1>3, <2>1, BlindStep
       DEF Check, Enable, Loop, Expiry, Sleep, Goto, Fail, WaitEnds, PurposeFits,
           LookTypes, Places, BeforeCommit
<1>4. CASE FinishWait
  <2>1. UNCHANGED <<ui, changes, target, purpose, looks, stability, options>>
    BY <1>4 DEF FinishWait, uiVars
  <2> QED
    BY <1>4, <2>1, BlindStep
       DEF FinishWait, Goto, Fail, Continue, SoFar, LookTypes, Places, BeforeCommit
<1>5. CASE Reserve \/ ReserveNone \/ ArmBarrier \/ Commit \/ Settle \/ Verify \/ Neutralize
  <2>1. UNCHANGED <<ui, changes, target, purpose, looks, stability, options>>
    BY <1>5 DEF Reserve, ReserveNone, ArmBarrier, Commit, Settle, Verify, Neutralize,
                uiVars, waitVars
  <2> QED
    BY <1>5, <2>1, BlindStep
       DEF Reserve, ReserveNone, ArmBarrier, Commit, Settle, Verify, Neutralize,
           Goto, Fail, SoFar, LookTypes, Places, BeforeCommit
<1>6. CASE Resolve \/ ResolveAgain
  <2>1. UNCHANGED <<ui, changes, purpose, looks, stability, options>> /\ purpose = "resolve"
    BY <1>6 DEF Resolve, ResolveAgain, uiVars, waitVars, PurposeFits
  <2>2. pc' \in {"mapping", "enable", "neutralize", "expiry", "finish"}
    BY <1>6 DEF Resolve, ResolveAgain, Goto, Fail, WaitEnds
  <2> QED
    BY <2>1, <2>2 DEF LookTypes, PurposeFits, CountHonest, SoFar, Places, BeforeCommit
<1>7. CASE Mapping
  BY <1>7 DEF Mapping, Goto, Fail, uiVars, LookTypes, PurposeFits, CountHonest, SoFar, Saw,
              Places, BeforeCommit
<1>8. CASE LookPresent
  BY <1>8 DEF LookPresent, IdentityMatches, Goto, WaitEnds, uiVars, LookTypes,
              PurposeFits, CountHonest, SoFar, Saw, Places, BeforeCommit
<1>9. CASE LookStable
  <2>1. ui.id \in Nat /\ ui.enabled \in BOOLEAN /\ looks.stable \in Looks /\ 1 \in Nat
    BY DEF LookTypes, Widgets
  <2>2. FirstLook \in Looks
    BY <2>1, LookType, Zenon DEF FirstLook
  <2>3. LookAgain \in Looks /\ LookAgain.id = ui.id /\ LookAgain.enabled = ui.enabled
        /\ LookAgain.count >= 1
    BY <2>1, <2>2 DEF LookAgain, FirstLook, Looks, CountUp, Required
  <2>4. Consecutive \in 0 .. Required
    BY DEF LookTypes, Consecutive, CountUp, Required
  <2>5. looks' \in [present : Widgets, stable : Looks, enabled : Widgets]
        /\ stability' \in [previous : Looks, consecutive : 0 .. Required]
        /\ looks'.present = looks.present /\ looks'.stable = LookAgain
        /\ stability'.consecutive = Consecutive /\ stability'.previous.enabled = ui.enabled
    BY <1>9, <2>2, <2>3, <2>4 DEF LookStable, LookTypes, FirstLook
  <2>6. Consecutive > 0 => LookAgain.id = target /\ LookAgain.count >= Consecutive
    <3>1. CASE stability.consecutive > 0 /\ stability.previous.enabled = ui.enabled
               /\ IdentityMatches
      <4>1. looks.stable.id = ui.id /\ looks.stable.enabled = ui.enabled
            /\ looks.stable.count >= stability.consecutive
        BY <3>1 DEF CountHonest, IdentityMatches
      <4>2. LookAgain.count = CountUp(looks.stable.count)
        BY <2>1, <4>1 DEF LookAgain, Looks
      <4> QED
        BY <2>1, <2>3, <3>1, <4>1, <4>2
           DEF Consecutive, CountUp, Required, IdentityMatches, Looks, LookTypes
    <3> QED
      BY <2>3, <3>1 DEF Consecutive, IdentityMatches
  <2>7. CountHonest'
    BY <1>9, <2>3, <2>5, <2>6 DEF CountHonest, LookStable
  <2> QED
    BY <1>9, <2>5, <2>7
       DEF LookStable, Goto, WaitEnds, uiVars, LookTypes, PurposeFits, SoFar,
           Places, BeforeCommit, Required
<1>10. CASE LookEnabled
  BY <1>10 DEF LookEnabled, IdentityMatches, Goto, WaitEnds, uiVars, LookTypes, Required,
              PurposeFits, CountHonest, SoFar, Saw, Places, BeforeCommit
<1> QED
  BY <1>1, <1>2, <1>3, <1>4, <1>5, <1>6, <1>7, <1>8, <1>9, <1>10 DEF Next, Perform, Wait

\* However often the interface changes, an action that was not forced goes ahead only
\* on the widget it resolved, seen twice in the same state and then enabled
\* (transaction.cpp:392-444; wait_engine.cpp:172-225).
THEOREM TargetWasSeen == Spec => []ActsOnWhatItSaw
<1>1. LookInv => ActsOnWhatItSaw
  BY DEF LookInv, SoFar, Saw, Required, ActsOnWhatItSaw
<1> QED
  BY <1>1, InitLookInv, StepLookInv, PTL DEF Spec

-----------------------------------------------------------------------------
(* The timer thread.                                                      *)

\* Every token in use was handed out.
Fresh == \A t \in armedTokens \cup due \cup cancelled \cup delivered : t < nextToken

\* What run() is about to program covers every armed deadline, or a wake is on
\* its way.
ArmCovered ==
    worker = "arm" /\ armedTokens # {} =>
        \/ controlFd
        \/ client # {}
        \/ next # None /\ \A t \in armedTokens : next <= deadline[t]

\* stop() is past "idle" exactly when the flag is set, and a loop that has not
\* read the flag since has a wake to come.
StopCovered ==
    /\ stopping <=> stopper # "idle"
    /\ worker \in {"arm", "poll"} /\ stopping => controlFd \/ stopper = "signal"

\* The inductive invariant.
TimerInv ==
    /\ TimerTypeOK
    /\ Fresh
    /\ WakeNotLost
    /\ CancelIsFinal
    /\ DeliveredOnce
    /\ NeverEarly
    /\ NoUnwatchedDeadline
    /\ ArmCovered
    /\ StopCovered

\* The constructor establishes it.
LEMMA TimerInvInit ==
    TimerInit => TimerInv
  <1> SUFFICES ASSUME TimerInit PROVE TimerInv
    OBVIOUS
  <1> USE TimerAssumption DEF TimerInit
  <1>1. clock \in Time /\ deadline \in [Token -> Time] /\ nextToken \in 1 .. MaxTokens + 1
    BY DEF Time
  <1>2. TimerTypeOK
    BY <1>1 DEF TimerTypeOK, None, WorkerState, StopperState
  <1>3. Fresh /\ WakeNotLost /\ CancelIsFinal /\ DeliveredOnce /\ NeverEarly
    BY DEF Fresh, WakeNotLost, CancelIsFinal, DeliveredOnce, NeverEarly
  <1>4. NoUnwatchedDeadline /\ ArmCovered /\ StopCovered
    BY DEF NoUnwatchedDeadline, ArmCovered, StopCovered
  <1> QED
    BY <1>2, <1>3, <1>4 DEF TimerInv

\* Every action keeps the types.
LEMMA TimerTypes ==
    TimerTypeOK /\ [TimerNext]_timerVars => TimerTypeOK'
  <1> SUFFICES ASSUME TimerTypeOK, [TimerNext]_timerVars PROVE TimerTypeOK'
    OBVIOUS
  <1> USE TimerAssumption DEF TimerTypeOK, Time, Token, None, WorkerState, StopperState,
          tokenVars, fdVars, loopVars, stopVars, history
  <1>1. CASE TimerTick
    BY <1>1 DEF TimerTick
  <1>2. CASE \E c \in Clients, d \in Time : Arm(c, d)
    <2>1. PICK c \in Clients, d \in Time : Arm(c, d)
      BY <1>2
    <2>2. nextToken \in Token
      BY <2>1 DEF Arm
    <2>3. deadline' \in [Token -> Time]
      BY <2>1, <2>2 DEF Arm
    <2>4. nextToken' \in 1 .. MaxTokens + 1
      BY <2>1 DEF Arm
    <2>5. armedTokens' \subseteq Token /\ client' \subseteq Clients
      BY <2>1, <2>2 DEF Arm
    <2> QED
      BY <2>1, <2>3, <2>4, <2>5 DEF Arm
  <1>3. CASE \E c \in Clients, t \in Token : Cancel(c, t)
    BY <1>3 DEF Cancel
  <1>4. CASE \E c \in Clients : Signal(c)
    BY <1>4 DEF Signal
  <1>5. CASE Drain
    BY <1>5 DEF Drain
  <1>6. CASE StopSet \/ StopSignal \/ StopJoin
    BY <1>6 DEF StopSet, StopSignal, StopJoin
  <1>7. CASE WorkerCollect
    BY <1>7 DEF WorkerCollect, ExpiredTokens
  <1>8. CASE WorkerExit \/ WorkerArmTimer \/ WorkerPollFails \/ WorkerSettimeFails
    BY <1>8 DEF WorkerExit, WorkerArmTimer, WorkerPollFails, WorkerSettimeFails
  <1>9. CASE WorkerWake
    BY <1>9 DEF WorkerWake
  <1>10. CASE WorkerDrain
    BY <1>10 DEF WorkerDrain
  <1>11. CASE UNCHANGED timerVars
    BY <1>11 DEF timerVars
  <1> QED
    BY <1>1, <1>2, <1>3, <1>4, <1>5, <1>6, <1>7, <1>8, <1>9, <1>10, <1>11
    DEF TimerNext, Worker

\* The token sets: Fresh, CancelIsFinal, DeliveredOnce and NeverEarly are
\* preserved together.
LEMMA TimerTokens ==
    TimerTypeOK /\ Fresh /\ WakeNotLost /\ CancelIsFinal /\ DeliveredOnce
             /\ NeverEarly /\ [TimerNext]_timerVars
           => Fresh' /\ WakeNotLost' /\ CancelIsFinal' /\ DeliveredOnce' /\ NeverEarly'
  <1> SUFFICES ASSUME TimerTypeOK, Fresh, WakeNotLost, CancelIsFinal, DeliveredOnce,
                      NeverEarly, [TimerNext]_timerVars
               PROVE  Fresh' /\ WakeNotLost' /\ CancelIsFinal' /\ DeliveredOnce'
                      /\ NeverEarly'
    OBVIOUS
  <1> USE TimerAssumption DEF TimerTypeOK, Time, Token, None, tokenVars, fdVars, loopVars,
          stopVars, history, Fresh, WakeNotLost, CancelIsFinal, DeliveredOnce, NeverEarly
  <1>1. CASE TimerTick
    BY <1>1 DEF TimerTick
  <1>2. CASE \E c \in Clients, d \in Time : Arm(c, d)
    <2>1. PICK c \in Clients, d \in Time : Arm(c, d)
      BY <1>2
    <2>2. /\ nextToken \in Token
          /\ nextToken' = nextToken + 1
          /\ armedTokens' \subseteq armedTokens \cup {nextToken}
          /\ UNCHANGED <<clock, due, wakeFd, cancelled, delivered>>
      BY <2>1 DEF Arm
    <2>3. \A t \in due \cup delivered : deadline'[t] = deadline[t]
      BY <2>1, <2>2 DEF Arm
    <2> QED
      BY <2>2, <2>3
  <1>3. CASE \E c \in Clients, t \in Token : Cancel(c, t)
    BY <1>3 DEF Cancel
  <1>4. CASE \E c \in Clients : Signal(c)
    BY <1>4 DEF Signal
  <1>5. CASE Drain
    BY <1>5 DEF Drain
  <1>6. CASE StopSet \/ StopSignal \/ StopJoin
    BY <1>6 DEF StopSet, StopSignal, StopJoin
  <1>7. CASE WorkerCollect
    BY <1>7 DEF WorkerCollect, ExpiredTokens
  <1>8. CASE WorkerExit \/ WorkerArmTimer \/ WorkerPollFails \/ WorkerSettimeFails
    BY <1>8 DEF WorkerExit, WorkerArmTimer, WorkerPollFails, WorkerSettimeFails
  <1>9. CASE WorkerWake \/ WorkerDrain
    BY <1>9 DEF WorkerWake, WorkerDrain
  <1>10. CASE UNCHANGED timerVars
    BY <1>10 DEF timerVars
  <1> QED
    BY <1>1, <1>2, <1>3, <1>4, <1>5, <1>6, <1>7, <1>8, <1>9, <1>10
    DEF TimerNext, Worker

\* The wakes: NoUnwatchedDeadline, ArmCovered and StopCovered are preserved
\* together.
LEMMA TimerWakes ==
    TimerTypeOK /\ Fresh /\ NoUnwatchedDeadline /\ ArmCovered /\ StopCovered
             /\ [TimerNext]_timerVars
           => NoUnwatchedDeadline' /\ ArmCovered' /\ StopCovered'
  <1> SUFFICES ASSUME TimerTypeOK, Fresh, NoUnwatchedDeadline, ArmCovered, StopCovered,
                      [TimerNext]_timerVars
               PROVE  NoUnwatchedDeadline' /\ ArmCovered' /\ StopCovered'
    OBVIOUS
  <1> USE TimerAssumption DEF TimerTypeOK, Time, Token, None, tokenVars, fdVars, loopVars,
          stopVars, history, Fresh, NoUnwatchedDeadline, Covered, ArmCovered, StopCovered
  <1>1. CASE TimerTick
    BY <1>1 DEF TimerTick
  <1>2. CASE \E c \in Clients, d \in Time : Arm(c, d)
    <2>1. PICK c \in Clients, d \in Time : Arm(c, d)
      BY <1>2
    <2>2. nextToken \in Token /\ \A t \in armedTokens : deadline'[t] = deadline[t]
      BY <2>1 DEF Arm
    <2>3. CASE stopping
      BY <2>1, <2>2, <2>3 DEF Arm
    <2>4. CASE ~stopping
      <3>1. client' # {}
        BY <2>1, <2>4 DEF Arm
      <3> QED
        BY <2>1, <2>4, <3>1 DEF Arm
    <2> QED
      BY <2>3, <2>4
  <1>3. CASE \E c \in Clients, t \in Token : Cancel(c, t)
    BY <1>3 DEF Cancel
  <1>4. CASE \E c \in Clients : Signal(c)
    BY <1>4 DEF Signal
  <1>5. CASE Drain
    BY <1>5 DEF Drain
  <1>6. CASE StopSet \/ StopSignal \/ StopJoin
    BY <1>6 DEF StopSet, StopSignal, StopJoin, StopperState
  <1>7. CASE WorkerCollect
    BY <1>7 DEF WorkerCollect, ExpiredTokens, Earliest
  <1>8. CASE WorkerExit \/ WorkerPollFails
    BY <1>8 DEF WorkerExit, WorkerPollFails
  <1>9. CASE WorkerArmTimer
    BY <1>9 DEF WorkerArmTimer
  <1>12. CASE WorkerSettimeFails
    <2>1. unprogrammed' /\ worker' = "poll" /\ UNCHANGED <<controlFd, stopping, stopper>>
      BY <1>12, Zenon DEF WorkerSettimeFails
    <2>2. StopCovered'
      BY <1>12, <2>1 DEF WorkerSettimeFails
    <2> QED
      BY <2>1, <2>2, Zenon
  <1>10. CASE WorkerWake \/ WorkerDrain
    BY <1>10 DEF WorkerWake, WorkerDrain
  <1>11. CASE UNCHANGED timerVars
    BY <1>11 DEF timerVars
  <1> QED
    BY <1>1, <1>2, <1>3, <1>4, <1>5, <1>6, <1>7, <1>8, <1>9, <1>10, <1>11, <1>12
    DEF TimerNext, Worker

\* TimerInv holds in every reachable state.
THEOREM TimerInvariance ==
    TimerSpec => []TimerInv
  <1>1. TimerInv /\ [TimerNext]_timerVars => TimerInv'
    BY TimerTypes, TimerTokens, TimerWakes DEF TimerInv
  <1> QED
    BY TimerInvInit, <1>1, PTL DEF TimerSpec

\* Type correctness.
THEOREM TimerTypeCorrect ==
    TimerSpec => []TimerTypeOK
  BY TimerInvariance, PTL DEF TimerInv

\* The promises of timer_thread.hpp to the consumer of wake_fd(): no expired
\* token without a readable descriptor, none after its cancel(), none twice and
\* none before its deadline.
THEOREM TokenSafety ==
    TimerSpec => []TokensSafe
  BY TimerInvariance, PTL DEF TimerInv, TokensSafe

\* The thread never blocks in poll() with a deadline nobody will wake it for
\* (the self-pipe ordering of timer_thread.cpp:375-378), unless its last
\* timerfd_settime failed: that error the code only logs.
THEOREM DeadlinesWatched ==
    TimerSpec => []NoUnwatchedDeadline
  BY TimerInvariance, PTL DEF TimerInv

\* The thread never blocks in poll() while a stop() waits to join it.
THEOREM StopHeard ==
    TimerSpec => []StopIsHeard
  <1>1. TimerInv => StopIsHeard
    BY DEF TimerInv, StopCovered, StopIsHeard
  <1> QED
    BY TimerInvariance, <1>1, PTL
=============================================================================
