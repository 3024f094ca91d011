-------------------------- MODULE SequencePlayer --------------------------
(***************************************************************************)
(* Playing a sequence document: the player, the command runner under it,   *)
(* and the loop that drives them.                                          *)
(*                                                                         *)
(* One thread does everything.  What makes it hard is what a step leaves   *)
(* behind: a press leaves a button down for a later step to lift, a drag   *)
(* holds a button for its own walk, a grab freezes the pointer.  Any seat  *)
(* call may be refused, a refused call may have taken effect all the same, *)
(* and a run may end at any moment: by a failing step, a jump, a skip, a   *)
(* cancellation.  One action is one call into the runner, or one decision  *)
(* of the player or of the loop between two such calls.                    *)
(*                                                                         *)
(* Time is kept as one bit per step: whether the moment it waits for (the  *)
(* gap before a Ready step, the next tick of a Running one) has come.      *)
(***************************************************************************)
EXTENDS SequenceDocument

CONSTANTS
    Documents,      \* the raw documents a run may be given
    Pointer,        \* what a grab takes: the pointer capture
    MaxWaypoints,   \* bound: the waypoints of a walk
    MaxCalls        \* bound: pause, resume, skip and goto calls of a run

MaxRetries == 1     \* maxRetriesPerStep

VARIABLES
    doc,        \* the document; resolved once it is loaded
    pacing,     \* "Strict": no gap between steps; "Grace": a gap
    pstate,     \* Player::state_
    status,     \* Player::status_
    exited,     \* StepRun::exited
    retries,    \* StepRun::retries
    frontier,   \* Player::frontier_
    entry,      \* Player::entry_order_; a step in it has been entered
    neutral,    \* Player::neutralization_
    hold,       \* CommandState: held, document_hold or overlay_grab_held
    last,       \* SeatRunner::Entry::last_status
    left,       \* CommandState: waypoints still to emit
    due,        \* the step's own moment has come
    holds,      \* SeatRunner: buttons_, keys_ and capture_held_
    down,       \* the seat: what is really down
    shot,       \* the seat: its one capture slot is filled
    at,         \* where the driving thread is
    scan,       \* Player::scratch_: what is left of the loop over the frontier
    cur,        \* the step whose status is being handled, or the jump's target
    progressed, \* pump(): this iteration moved a step
    iter,       \* pump(): iterations so far
    todo,       \* steps an unwind, jump or skip still has to exit
    back,       \* where the thread goes on after that
    calls,      \* calls made by the loop's hook
    enters, exits,  \* history: runner calls per step
    refused,    \* history: what the seat last refused to release
    up,         \* history: what the seat last confirmed to be up
    twice,      \* history: what a cleanup released although confirmed up
    loose,      \* history: what a click left without anybody tracking it
    jumped      \* history: a goto has abandoned part of the document

playerVars == <<pstate, status, exited, retries, frontier, entry, neutral>>
runnerVars == <<hold, last, left, due, holds>>
seatVars   == <<down, shot>>
driverVars == <<at, scan, cur, progressed, iter, todo, back, calls>>
history    == <<enters, exits, refused, up, twice, loose, jumped>>
vars       == <<doc, pacing, playerVars, runnerVars, seatVars, driverVars, history>>

Steps     == 1..Len(doc)
Things    == {doc[s].of : s \in Steps}
Entered   == Range(entry)
Live      == pstate \in {"Playing", "Paused"}
terminal_status(st) == st \in {"Succeeded", "Failed", "Skipped"}
Put(f, s, v)        == [f EXCEPT ![s] = v]

(* The commands whose descriptor says Idempotent; only these are retried. *)
may_retry(s) == doc[s].op \in {"wait", "capture", "ungrab", "converge"}

Init ==
    /\ doc \in Documents
    /\ pacing \in {"Strict", "Grace"}
    /\ pstate = "Idle" /\ neutral = "NotAttempted"
    /\ status  = [s \in Steps |-> "Pending"]
    /\ exited  = [s \in Steps |-> FALSE]
    /\ retries = [s \in Steps |-> 0]
    /\ frontier = <<>> /\ entry = <<>>
    /\ hold = [s \in Steps |-> FALSE]
    /\ last = [s \in Steps |-> "Running"]
    /\ left = [s \in Steps |-> 0]
    /\ due  = [s \in Steps |-> FALSE]
    /\ holds = {} /\ down = {} /\ shot = FALSE
    /\ at = "load" /\ scan = <<>> /\ cur = 0 /\ progressed = FALSE /\ iter = 0
    /\ todo = <<>> /\ back = "load" /\ calls = 0
    /\ enters = [s \in Steps |-> 0]
    /\ exits  = [s \in Steps |-> 0]
    /\ refused = {} /\ up = Things /\ twice = {} /\ loose = {} /\ jumped = FALSE

-----------------------------------------------------------------------------
(* Seat calls.  ok is what the call reports; a refused one may have worked. *)

SeatPress(x, ok) ==
    /\ \E d \in {down \cup {x}} \cup (IF ok THEN {} ELSE {down}) : down' = d
    /\ refused' = refused \ {x} /\ up' = up \ {x} /\ loose' = loose \ {x}

SeatRelease(x, ok) ==
    /\ \E d \in {down \ {x}} \cup (IF ok THEN {} ELSE {down}) : down' = d
    /\ refused' = IF ok THEN refused \ {x} ELSE refused \cup {x}
    /\ up'      = IF ok THEN up \cup {x} ELSE up
    /\ loose'   = IF ok THEN loose \ {x} ELSE loose

SeatIdle == UNCHANGED <<down, refused, up, loose>>

(* A click presses and releases in one call and tracks neither. *)
SeatClick(x, ok) ==
    IF ok THEN /\ down' = down \ {x} /\ up' = up \cup {x}
               /\ refused' = refused \ {x} /\ loose' = loose \ {x}
          ELSE \E d \in {down, down \cup {x}, down \ {x}} :
               /\ down' = d /\ up' = up \ {x} /\ refused' = refused
               /\ loose' = IF x \in d THEN loose \cup {x} ELSE loose

-----------------------------------------------------------------------------
(* SeatRunner *)

(***************************************************************************)
(* What a succeeding step means for the holds the document owns, and the   *)
(* capture, which is remembered however the grab answered.                 *)
(***************************************************************************)
remember_hold(s, st) ==
    CASE doc[s].op = "press" /\ st = "Success"            -> holds \cup {doc[s].of}
      [] doc[s].op \in {"lift", "ungrab"} /\ st = "Success" -> holds \ {doc[s].of}
      [] doc[s].op = "grab"                               -> holds \cup {doc[s].of}
      [] OTHER                                            -> holds

forget_hold(s) == IF doc[s].op \in {"press", "grab"} THEN holds \ {doc[s].of} ELSE holds

(* The answer of an enter() or a tick(), and the command's scratch after it. *)
Answer(s, st, h, w, d) ==
    /\ last' = Put(last, s, st) /\ hold' = Put(hold, s, h)
    /\ left' = Put(left, s, w)  /\ due'  = Put(due, s, d)
    /\ holds' = remember_hold(s, st)

Instant(s, ok, h) == Answer(s, IF ok THEN "Success" ELSE "Failure", h, 0, FALSE)

(***************************************************************************)
(* enter_command, by class of command.  A press, a drag and a grab are     *)
(* marked held before the seat is asked.                                   *)
(***************************************************************************)
EnterInstant(s) == /\ doc[s].op = "instant"
                   /\ \E ok \in BOOLEAN : Instant(s, ok, FALSE)
                   /\ SeatIdle /\ UNCHANGED shot

EnterConverge(s) == /\ doc[s].op = "converge"
                    /\ \E ok \in BOOLEAN : Instant(s, ok, FALSE)
                    /\ SeatIdle /\ UNCHANGED shot

EnterClick(s) == /\ doc[s].op = "click"
                 /\ \E ok \in BOOLEAN : SeatClick(doc[s].of, ok) /\ Instant(s, ok, FALSE)
                 /\ UNCHANGED shot

EnterPress(s) == /\ doc[s].op = "press"
                 /\ \E ok \in BOOLEAN : SeatPress(doc[s].of, ok) /\ Instant(s, ok, TRUE)
                 /\ UNCHANGED shot

EnterLift(s) == /\ doc[s].op = "lift"
                /\ \E ok \in BOOLEAN : SeatRelease(doc[s].of, ok) /\ Instant(s, ok, FALSE)
                /\ UNCHANGED shot

EnterGrab(s) == /\ doc[s].op = "grab"
                /\ \E ok \in BOOLEAN : SeatPress(doc[s].of, ok) /\ Instant(s, ok, TRUE)
                /\ UNCHANGED shot

EnterUngrab(s) == /\ doc[s].op = "ungrab"
                  /\ \E ok \in BOOLEAN : SeatRelease(doc[s].of, ok) /\ Instant(s, ok, FALSE)
                  /\ UNCHANGED shot

(* Running even for a wait of no time at all: the deadline decides. *)
EnterWait(s) == /\ doc[s].op = "wait"
                /\ \E d \in BOOLEAN : Answer(s, "Running", FALSE, 0, d)
                /\ SeatIdle /\ UNCHANGED shot

(* begin_walk: the path is refused, or the pointer never reaches its start. *)
begin_walk_fails(s) == Answer(s, "Failure", FALSE, 0, FALSE) /\ SeatIdle

EnterMove(s) ==
    /\ doc[s].op = "move"
    /\ \/ begin_walk_fails(s)
       \/ \E w \in 1..MaxWaypoints : Answer(s, "Running", FALSE, w, FALSE) /\ SeatIdle
    /\ UNCHANGED shot

EnterDrag(s) ==
    /\ doc[s].op = "drag"
    /\ \/ begin_walk_fails(s)
       \/ \E ok \in BOOLEAN, w \in 1..MaxWaypoints :
             /\ SeatPress(doc[s].of, ok)
             /\ Answer(s, IF ok THEN "Running" ELSE "Failure", TRUE, w, FALSE)
    /\ UNCHANGED shot

(* The seat's one capture slot is overwritten, whoever still waits for it. *)
EnterCapture(s) ==
    /\ doc[s].op = "capture"
    /\ \/ Answer(s, "Running", FALSE, 0, TRUE) /\ shot' = TRUE
       \/ Answer(s, "Failure", FALSE, 0, TRUE) /\ UNCHANGED shot
    /\ SeatIdle

(* runner.enter(s) *)
RunnerEnter(s) ==
    /\ enters' = Put(enters, s, enters[s] + 1)
    /\ UNCHANGED <<exits, twice, jumped>>
    /\ \/ EnterInstant(s) \/ EnterConverge(s) \/ EnterClick(s) \/ EnterPress(s) \/ EnterLift(s)
       \/ EnterGrab(s) \/ EnterUngrab(s) \/ EnterWait(s) \/ EnterMove(s) \/ EnterDrag(s)
       \/ EnterCapture(s)

(***************************************************************************)
(* tick_command, called when the step's moment has come.                   *)
(***************************************************************************)
TickWait(s) == /\ doc[s].op = "wait"
               /\ Answer(s, "Success", FALSE, 0, FALSE)
               /\ SeatIdle /\ UNCHANGED shot

(* advance_walk short of its end: a waypoint is refused, or some stay owed. *)
advance_walk(s) == /\ \/ Answer(s, "Failure", hold[s], left[s], FALSE)
                      \/ \E w \in 1..(left[s] - 1) : Answer(s, "Running", hold[s], w, FALSE)
                   /\ SeatIdle

TickMove(s) == /\ doc[s].op = "move"
               /\ \/ advance_walk(s)
                  \/ Answer(s, "Success", FALSE, 0, FALSE) /\ SeatIdle
               /\ UNCHANGED shot

(* A drag that has walked its path lifts its own button. *)
TickDrag(s) ==
    /\ doc[s].op = "drag"
    /\ \/ advance_walk(s)
       \/ \E ok \in BOOLEAN :
             /\ SeatRelease(doc[s].of, ok)
             /\ Answer(s, IF ok THEN "Success" ELSE "Failure", ~ok, 0, FALSE)
    /\ UNCHANGED shot

(* The first capture to ask empties the slot. *)
TickCapture(s) ==
    /\ doc[s].op = "capture"
    /\ \E st \in IF shot THEN {"Success", "Failure"} ELSE {"Running"} :
          Answer(s, st, FALSE, 0, TRUE)
    /\ shot' = FALSE /\ SeatIdle

(* runner.tick(s) *)
RunnerTick(s) ==
    /\ UNCHANGED <<enters, exits, twice, jumped>>
    /\ TickWait(s) \/ TickMove(s) \/ TickDrag(s) \/ TickCapture(s)

(* record_neutralization: the worst outcome wins, and NotAttempted says nothing. *)
Folded(outcome) ==
    CASE outcome = "Failed"                             -> "Failed"
      [] outcome = "Released" /\ neutral # "Failed"     -> "Released"
      [] outcome = "NothingHeld" /\ neutral = "NotAttempted" -> "NothingHeld"
      [] OTHER                                          -> neutral

(* Player::neutralize folds likewise, but reads NotAttempted as NothingHeld. *)
Neutralized(outcome) ==
    Folded(IF outcome = "NotAttempted" THEN "NothingHeld" ELSE outcome)

(***************************************************************************)
(* runner.exit(s): a drag lets its button go; what the document owns is    *)
(* lifted only if the step did not complete.  The flag is cleared first,   *)
(* and Released is the answer whatever the seat said.                      *)
(***************************************************************************)
ExitLifts(s) == /\ hold[s]
                /\ doc[s].op = "drag" \/ last[s] # "Success"

ExitOutcome(s) == IF ExitLifts(s) THEN "Released"
                  ELSE IF hold[s] THEN "NotAttempted" ELSE "NothingHeld"

RunnerExit(s) ==
    /\ exits' = Put(exits, s, exits[s] + 1)
    /\ IF ExitLifts(s)
       THEN /\ \E ok \in BOOLEAN : SeatRelease(doc[s].of, ok)
            /\ hold' = Put(hold, s, FALSE) /\ holds' = forget_hold(s)
            /\ twice' = twice \cup ({doc[s].of} \cap up)
       ELSE SeatIdle /\ UNCHANGED <<hold, holds, twice>>
    /\ UNCHANGED <<last, left, shot, enters>>

(***************************************************************************)
(* runner.release_holds(s): the hold a completed step took, if the         *)
(* document has not lifted it since.                                       *)
(***************************************************************************)
still_outstanding(s) == doc[s].op \in {"press", "grab"} /\ doc[s].of \in holds

ReleaseHolds(s) ==
    IF hold[s] /\ still_outstanding(s)
    THEN \E ok \in BOOLEAN :
         /\ SeatRelease(doc[s].of, ok)
         /\ hold' = Put(hold, s, FALSE) /\ holds' = forget_hold(s)
         /\ twice' = twice \cup ({doc[s].of} \cap up)
         /\ neutral' = Folded(IF ok THEN "Released" ELSE "Failed")
    ELSE SeatIdle /\ UNCHANGED <<hold, holds, twice, neutral>>

-----------------------------------------------------------------------------
(* Player: the steps it admits, and what it does with a step's status *)

(* Mutant: one finished predecessor is enough. *)
admit_successors_AnyOne(acc, id) ==
    LET new == SelectSeq(Ids(doc), LAMBDA s :
                  id \in doc[s].after /\ acc.status[s] = "Pending")
    IN  [status   |-> [s \in Steps |-> IF s \in Range(new) THEN "Ready" ELSE acc.status[s]],
         frontier |-> acc.frontier \o new]

(***************************************************************************)
(* admit_successors, folded over the steps that have just become terminal: *)
(* a Pending step all of whose predecessors are terminal becomes Ready.    *)
(***************************************************************************)
admit_successors(acc, id) ==
    LET new == SelectSeq(Ids(doc), LAMBDA s :
                  /\ id \in doc[s].after
                  /\ acc.status[s] = "Pending"
                  /\ \A p \in doc[s].after : terminal_status(acc.status[p]))
    IN  [status   |-> [s \in Steps |-> IF s \in Range(new) THEN "Ready" ELSE acc.status[s]],
         frontier |-> acc.frontier \o new]

(* grace_before: a step that waits on nothing starts at once. *)
NoGap(s) == pacing = "Strict" \/ doc[s].after = {}

Admit(st, fr, ids) ==
    LET acc == FoldLeft(admit_successors, [status |-> st, frontier |-> fr], ids) IN
    /\ status' = acc.status /\ frontier' = acc.frontier
    /\ due' = [s \in Steps |-> IF acc.status[s] = "Ready" /\ st[s] = "Pending"
                               THEN NoGap(s) ELSE due[s]]

Without(s) == SelectSeq(frontier, LAMBDA t : t # s)

(* The runner's own half of a step's exit, once per entry. *)
Exit(s) == RunnerExit(s) /\ exited' = Put(exited, s, TRUE)

succeed ==
    /\ at = "status" /\ last[cur] = "Success"
    /\ Exit(cur)
    /\ Admit(Put(status, cur, "Succeeded"), Without(cur), <<cur>>)
    /\ at' = back
    /\ UNCHANGED <<doc, pacing, pstate, retries, entry, neutral, scan, cur, progressed, iter,
                   todo, back, calls, jumped>>

on_status_running ==
    /\ at = "status" /\ last[cur] = "Running"
    /\ at' = back
    /\ UNCHANGED <<doc, pacing, playerVars, runnerVars, seatVars, scan, cur, progressed, iter,
                   todo, back, calls, history>>

Retries(s) == may_retry(s) /\ retries[s] < MaxRetries

(* The failed attempt is exited, then the step is entered again. *)
retry ==
    /\ at = "status" /\ last[cur] = "Failure" /\ Retries(cur)
    /\ Exit(cur) /\ neutral' = Neutralized(ExitOutcome(cur))
    /\ retries' = Put(retries, cur, retries[cur] + 1)
    /\ at' = "reenter"
    /\ UNCHANGED <<doc, pacing, pstate, status, frontier, entry, due, scan, cur, progressed,
                   iter, todo, back, calls, jumped>>

reenter ==
    /\ at = "reenter"
    /\ RunnerEnter(cur)
    /\ exited' = Put(exited, cur, FALSE)
    /\ at' = "status"
    /\ UNCHANGED <<doc, pacing, pstate, status, retries, frontier, entry, neutral, scan, cur,
                   progressed, iter, todo, back, calls>>

(***************************************************************************)
(* jump_to(t) is forward-only.  Ancestors of t that have not run, and the  *)
(* rest of the frontier, are given up; the entered ones are exited first.  *)
(***************************************************************************)
JumpRefused(st, fr, t) ==
    \/ terminal_status(st[t])
    \/ \E m \in Range(fr) \ {t} : t \in ancestors_of(doc, m)

JumpExits(st, fr, t) ==
    LET anc == ancestors_of(doc, t) IN
    SelectSeq(Ids(doc), LAMBDA s : s \in anc /\ s \in Entered /\ ~exited'[s] /\ ~terminal_status(st[s]))
      \o SelectSeq(fr, LAMBDA s : s # t /\ s \notin anc /\ s \in Entered /\ ~exited'[s])

(* fail_step: the step is exited, then its policy decides. *)
fail_step ==
    LET failed == Put(status, cur, "Failed") IN
    /\ at = "status" /\ last[cur] = "Failure" /\ ~Retries(cur)
    /\ Exit(cur) /\ neutral' = Neutralized(ExitOutcome(cur))
    /\ CASE doc[cur].policy = "Continue" ->
              /\ Admit(failed, Without(cur), <<cur>>)
              /\ at' = back /\ UNCHANGED <<cur, todo, back>>
         [] doc[cur].policy = "Goto" /\ ~JumpRefused(failed, Without(cur), doc[cur].target) ->
              /\ status' = failed /\ frontier' = Without(cur)
              /\ at' = "jump" /\ cur' = doc[cur].target
              /\ todo' = JumpExits(failed, Without(cur), doc[cur].target)
              /\ UNCHANGED <<due, back>>
         [] OTHER ->
              /\ status' = failed /\ frontier' = Without(cur)
              /\ at' = "unwind" /\ todo' = Reverse(entry) /\ back' = "pumped"
              /\ UNCHANGED <<due, cur>>
    /\ UNCHANGED <<doc, pacing, pstate, retries, entry, scan, progressed, iter, calls, jumped>>

(* Mutant: a step that has completed is passed over. *)
Cleanup_NoReap ==
    /\ at \in {"unwind", "jump", "skip"} /\ todo # <<>>
    /\ LET s == Head(todo) IN
       IF exited[s]
       THEN SeatIdle /\ UNCHANGED <<hold, holds, twice, neutral, exited, exits, last, left,
                                    shot, enters>>
       ELSE Exit(s) /\ neutral' = Neutralized(ExitOutcome(s))
    /\ todo' = Tail(todo)
    /\ UNCHANGED <<doc, pacing, pstate, status, retries, frontier, entry, due, at, scan, cur,
                   progressed, iter, back, calls, jumped>>

(* One step of an unwind, a jump or a skip: exit it, or reap what it left down. *)
Cleanup ==
    /\ at \in {"unwind", "jump", "skip"} /\ todo # <<>>
    /\ LET s == Head(todo) IN
       IF exited[s]
       THEN /\ ReleaseHolds(s)
            /\ UNCHANGED <<exited, exits, last, left, shot, enters>>
       ELSE Exit(s) /\ neutral' = Neutralized(ExitOutcome(s))
    /\ todo' = Tail(todo)
    /\ UNCHANGED <<doc, pacing, pstate, status, retries, frontier, entry, due, at, scan, cur,
                   progressed, iter, back, calls, jumped>>

(* unwind() has exited everything: nothing more of the document will run. *)
Unwound ==
    /\ at = "unwind" /\ todo = <<>>
    /\ status' = [s \in Steps |-> IF s \in Entered \cup Range(frontier) /\ ~terminal_status(status[s])
                                  THEN "Skipped" ELSE status[s]]
    /\ frontier' = <<>> /\ pstate' = "Interrupted" /\ at' = back
    /\ UNCHANGED <<doc, pacing, exited, retries, entry, neutral, runnerVars, seatVars, scan, cur,
                   progressed, iter, todo, back, calls, history>>

(* The frontier is the target alone; what never entered goes back to Pending. *)
JumpLands ==
    LET t    == cur
        anc  == ancestors_of(doc, t)
        rest == Range(frontier) \ {t}
    IN
    /\ at = "jump" /\ todo = <<>>
    /\ status' = [s \in Steps |->
          IF s = t THEN (IF status[t] = "Running" THEN "Running" ELSE "Ready")
          ELSE IF terminal_status(status[s]) THEN status[s]
          ELSE IF s \in anc \/ (s \in rest /\ s \in Entered) THEN "Skipped"
          ELSE IF s \in rest THEN "Pending" ELSE status[s]]
    /\ due' = IF status[t] = "Running" THEN due ELSE Put(due, t, NoGap(t))
    /\ frontier' = <<t>> /\ jumped' = TRUE /\ at' = back
    /\ UNCHANGED <<doc, pacing, pstate, exited, retries, entry, neutral, hold, last, left, holds,
                   seatVars, scan, cur, progressed, iter, todo, back, calls, enters, exits,
                   refused, up, twice, loose>>

(* skip(): the whole frontier is given up, its successors are admitted. *)
SkipLands ==
    /\ at = "skip" /\ todo = <<>>
    /\ Admit([s \in Steps |-> IF s \in Range(frontier) THEN "Skipped" ELSE status[s]],
             <<>>, frontier)
    /\ pstate' = IF pstate = "Playing" /\ frontier' = <<>> THEN "Done" ELSE pstate
    /\ at' = back
    /\ UNCHANGED <<doc, pacing, exited, retries, entry, neutral, hold, last, left, holds,
                   seatVars, scan, cur, progressed, iter, todo, back, calls, history>>

-----------------------------------------------------------------------------
(* Loading, and the loop of drive() *)

Load ==
    /\ at = "load"
    /\ IF parse_document(doc) THEN doc' = Resolved(doc) /\ at' = "play"
                              ELSE UNCHANGED doc /\ at' = "rejected"
    /\ UNCHANGED <<pacing, playerVars, runnerVars, seatVars, scan, cur, progressed, iter, todo,
                   back, calls, history>>

play ==
    /\ at = "play"
    /\ LET roots == SelectSeq(Ids(doc), LAMBDA s : doc[s].after = {}) IN
       /\ frontier' = roots
       /\ status' = [s \in Steps |-> IF s \in Range(roots) THEN "Ready" ELSE "Pending"]
       /\ due' = [s \in Steps |-> s \in Range(roots)]
    /\ pstate' = "Playing" /\ at' = "pump" /\ iter' = 0
    /\ UNCHANGED <<doc, pacing, exited, retries, entry, neutral, hold, last, left, holds,
                   seatVars, scan, cur, progressed, todo, back, calls, history>>

(* One iteration of pump(): the running steps first, then the ready ones. *)
PumpIterate ==
    /\ at = "pump"
    /\ scan' = frontier /\ progressed' = FALSE /\ iter' = iter + 1 /\ at' = "ticks"
    /\ UNCHANGED <<doc, pacing, playerVars, runnerVars, seatVars, cur, todo, back, calls, history>>

Ticking(s)  == status[s] = "Running" /\ due[s]
Entering(s) == status[s] = "Ready" /\ due[s]
FirstOf(Test(_)) == SelectInSeq(scan, Test)

(* Running steps tick even while paused: pausing must not strand a drag. *)
PumpTick ==
    /\ at = "ticks" /\ Live /\ FirstOf(Ticking) # 0
    /\ LET i == FirstOf(Ticking) IN
       /\ RunnerTick(scan[i])
       /\ cur' = scan[i] /\ scan' = SubSeq(scan, i + 1, Len(scan))
       /\ progressed' = (progressed \/ last'[scan[i]] # "Running")
    /\ at' = "status" /\ back' = "ticks"
    /\ UNCHANGED <<doc, pacing, playerVars, iter, todo, calls>>

PumpTicked ==
    /\ at = "ticks" /\ (Live => FirstOf(Ticking) = 0)
    /\ at' = "enters" /\ scan' = IF pstate = "Playing" THEN frontier ELSE <<>>
    /\ UNCHANGED <<doc, pacing, playerVars, runnerVars, seatVars, cur, progressed, iter, todo,
                   back, calls, history>>

PumpEnter ==
    /\ at = "enters" /\ pstate = "Playing" /\ FirstOf(Entering) # 0
    /\ LET i == FirstOf(Entering)
           s == scan[i] IN
       /\ RunnerEnter(s)
       /\ status' = Put(status, s, "Running") /\ exited' = Put(exited, s, FALSE)
       /\ entry' = Append(entry, s)
       /\ cur' = s /\ scan' = SubSeq(scan, i + 1, Len(scan))
    /\ progressed' = TRUE /\ at' = "status" /\ back' = "enters"
    /\ UNCHANGED <<doc, pacing, pstate, retries, frontier, neutral, iter, todo, calls>>

(* Another iteration while something moves, within pump()'s own limit. *)
PumpEntered ==
    /\ at = "enters" /\ (pstate = "Playing" => FirstOf(Entering) = 0)
    /\ at' = IF progressed /\ Live /\ iter < 2 * Len(doc) + 2 THEN "pump" ELSE "pumped"
    /\ UNCHANGED <<doc, pacing, playerVars, runnerVars, seatVars, scan, cur, progressed, iter,
                   todo, back, calls, history>>

PumpReturns ==
    /\ at = "pumped"
    /\ pstate' = IF pstate = "Playing" /\ frontier = <<>> THEN "Done" ELSE pstate
    /\ at' = "hook"
    /\ UNCHANGED <<doc, pacing, status, exited, retries, frontier, entry, neutral, runnerVars,
                   seatVars, scan, cur, progressed, iter, todo, back, calls, history>>

(* What the owner of the player may ask for between two pumps. *)
CallPause ==
    /\ at = "hook" /\ calls < MaxCalls /\ pstate = "Playing"
    /\ pstate' = "Paused" /\ calls' = calls + 1
    /\ UNCHANGED <<doc, pacing, status, exited, retries, frontier, entry, neutral, runnerVars,
                   seatVars, at, scan, cur, progressed, iter, todo, back, history>>

CallResume ==
    /\ at = "hook" /\ calls < MaxCalls /\ pstate = "Paused"
    /\ pstate' = "Playing" /\ calls' = calls + 1
    /\ UNCHANGED <<doc, pacing, status, exited, retries, frontier, entry, neutral, runnerVars,
                   seatVars, at, scan, cur, progressed, iter, todo, back, history>>

CallSkip ==
    /\ at = "hook" /\ calls < MaxCalls /\ Live
    /\ todo' = SelectSeq(frontier, LAMBDA s : s \in Entered /\ ~exited[s])
    /\ at' = "skip" /\ back' = "hook" /\ calls' = calls + 1
    /\ UNCHANGED <<doc, pacing, playerVars, runnerVars, seatVars, scan, cur, progressed, iter,
                   history>>

CallGoto(t) ==
    /\ at = "hook" /\ calls < MaxCalls /\ Live
    /\ ~JumpRefused(status, frontier, t)
    /\ UNCHANGED exited
    /\ todo' = JumpExits(status, frontier, t) /\ cur' = t
    /\ at' = "jump" /\ back' = "hook" /\ calls' = calls + 1
    /\ UNCHANGED <<doc, pacing, pstate, status, retries, frontier, entry, neutral, runnerVars,
                   seatVars, scan, progressed, iter, history>>

(* Mutant: a Ready step is waited for although a paused run admits none. *)
Awaited_WhilePaused == Range(frontier)

(* next_deadline(): what the loop can wait for; a Ready step only if Playing. *)
Awaited == {s \in Range(frontier) : status[s] = "Running" \/ pstate = "Playing"}

Leave ==
    /\ at = "hook" /\ ~Live
    /\ at' = "close"
    /\ UNCHANGED <<doc, pacing, playerVars, runnerVars, seatVars, scan, cur, progressed, iter,
                   todo, back, calls, history>>

(* Cancelled, no wake descriptor, or nothing to wait for: interrupt(). *)
Interrupt ==
    /\ at = "hook" /\ Live
    /\ at' = "unwind" /\ todo' = Reverse(entry) /\ back' = "close"
    /\ UNCHANGED <<doc, pacing, playerVars, runnerVars, seatVars, scan, cur, progressed, iter,
                   calls, history>>

(* The loop sleeps until the earliest moment it waits for, at the least. *)
Wait ==
    /\ at = "hook" /\ Live /\ Awaited # {}
    /\ \E come \in SUBSET {s \in Range(frontier) : ~due[s]} :
          /\ (\A s \in Awaited : ~due[s]) => come \cap Awaited # {}
          /\ due' = [s \in Steps |-> due[s] \/ s \in come]
    /\ at' = "pump" /\ iter' = 0
    /\ UNCHANGED <<doc, pacing, playerVars, hold, last, left, holds, seatVars, scan, cur,
                   progressed, todo, back, calls, history>>

(* ~OutstandingHolds: buttons and keys first, the capture last. *)
release_outstanding ==
    /\ at = "close" /\ holds # {}
    /\ \E x \in holds, ok \in BOOLEAN :
          /\ x = Pointer => holds = {x}
          /\ SeatRelease(x, ok)
          /\ holds' = holds \ {x}
          /\ twice' = twice \cup ({x} \cap up)
    /\ UNCHANGED <<doc, pacing, playerVars, hold, last, left, due, shot, driverVars, enters,
                   exits, jumped>>

Close ==
    /\ at = "close" /\ holds = {}
    /\ at' = "closed"
    /\ UNCHANGED <<doc, pacing, playerVars, runnerVars, seatVars, scan, cur, progressed, iter,
                   todo, back, calls, history>>

Advance ==
    \/ Load \/ play
    \/ PumpIterate \/ PumpTick \/ PumpTicked \/ PumpEnter \/ PumpEntered \/ PumpReturns
    \/ succeed \/ on_status_running \/ retry \/ reenter \/ fail_step
    \/ Cleanup \/ Unwound \/ JumpLands \/ SkipLands
    \/ Leave \/ Interrupt \/ Wait \/ release_outstanding \/ Close

Calls == CallPause \/ CallResume \/ CallSkip \/ \E t \in Steps : CallGoto(t)

Ended == at \in {"closed", "rejected"}

Next == Advance \/ Calls \/ (Ended /\ UNCHANGED vars)

Spec == Init /\ [][Next]_vars /\ WF_vars(Advance)

-----------------------------------------------------------------------------
(* Properties *)

(***************************************************************************)
(* The loader refuses exactly the documents that could never be played to  *)
(* the end: a dependency that names no step or the step itself, a cycle,   *)
(* or a recovery target that does not exist.                               *)
(***************************************************************************)
Linearisable(d) ==
    \E rank \in [1..Len(d) -> 1..Len(d)] :
        \A i \in 1..Len(d) : \A p \in parse_after(d, i) : rank[p] < rank[i]
NamesSteps(d) ==
    \A i \in 1..Len(d) : /\ parse_after(d, i) \subseteq 1..Len(d)
                         /\ d[i].policy = "Goto" => d[i].target \in 1..Len(d)

LoadVerdict ==
    /\ at = "play"     => NamesSteps(doc) /\ Linearisable(doc)
    /\ at = "rejected" => ~(NamesSteps(doc) /\ Linearisable(doc))

(***************************************************************************)
(* exit() runs exactly once for every enter(), on every path a run can     *)
(* end by, and a step is entered at most once per retry.                   *)
(***************************************************************************)
ExitPaired ==
    /\ \A s \in Steps : /\ enters[s] - exits[s] \in {0, 1}
                        /\ enters[s] <= 1 + retries[s]
                        /\ enters[s] = exits[s] + 1 => s \in Range(frontier)
    /\ at = "closed" => enters = exits

(***************************************************************************)
(* The frontier is what the run works on: no step twice, no step before    *)
(* everything it depends on is finished and has been exited, and a run     *)
(* that ends without a jump has finished every step of its document.       *)
(***************************************************************************)
FrontierSound ==
    /\ IsInjective(frontier)
    /\ at = "ticks" => \A s \in Range(frontier) : status[s] \in {"Ready", "Running"}
    /\ \A s \in Steps : status[s] = "Running" =>
          \A p \in doc[s].after : terminal_status(status[p]) /\ enters[p] = exits[p]

DoneIsComplete ==
    pstate = "Done" /\ ~jumped => \A s \in Steps : terminal_status(status[s])

(* Steps run in the order of their document, once, and all of them: the three above. *)
StepsInOrder == ExitPaired /\ FrontierSound /\ DoneIsComplete

(***************************************************************************)
(* Nothing outlives the run: what is still down after it was refused when  *)
(* the run last tried to release it, or was left by a click.               *)
(***************************************************************************)
NothingLeftDown == at = "closed" => down \subseteq refused \cup loose

(***************************************************************************)
(* An unwound run holds nothing any more when the loop hears of it: it     *)
(* does not keep the pointer until its report is written.                  *)
(***************************************************************************)
UnwindReleases == pstate = "Interrupted" => holds = {} /\ \A s \in Steps : hold[s] => exited[s]

(* No cleanup releases what the seat has already confirmed to be up. *)
NoSecondRelease == twice = {}

(* What a run presses or grabs it gives back, at once when unwound, and once only. *)
HoldsReleased == NothingLeftDown /\ UnwindReleases /\ NoSecondRelease

(* Every run ends, whatever fails in it and whatever is asked of it. *)
RunEnds == <>Ended

=============================================================================
