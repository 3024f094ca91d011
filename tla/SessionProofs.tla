---------------------------- MODULE SessionProofs ----------------------------
(***************************************************************************)
(* What a session promises: CursorFeedback, for any number of observers,   *)
(* closers and events, and SessionClose, for any number of threads that    *)
(* call and close at once, for a reactor that may fail and for callbacks   *)
(* that close the session at any point.                                    *)
(*                                                                         *)
(* FeedbackInv has a part for every observer and one for what they share.  *)
(* DrainOk: whoever finds drain_scheduled_ up finds a drain that has yet   *)
(* to look at the queue, and install() has queued one before active_ is    *)
(* set.  StopOk: lifecycle_mutex_ keeps stop() to one thread, whose        *)
(* cleanup is queued at most once, and until it has run every shape shown  *)
(* is one that the presenter lists.  WatchOk: the counts of the session.   *)
(*                                                                         *)
(* CloseInv has four parts.  TaskInv and CoreInv: whatever can end the     *)
(* core was set off by a thread that had already lowered the gate's alive  *)
(* flag, so an operation that starts finds the core live, and nothing else *)
(* runs while it does.  PromiseInv: who claims a promise gives it its      *)
(* value, at once or when the operation returns.  PendingInv: a caller     *)
(* whose promise nobody has claimed is registered, and the registry of a   *)
(* detached facade does not grow again.                                    *)
(***************************************************************************)
EXTENDS CursorFeedback, SessionClose, SequenceTheorems, TLAPS

\* The types the proofs use: how many events wait is not bounded.
Members == [phase      : {"absent", "subscribe", "arm", "activate", "release", "running", "gone"},
            active     : BOOLEAN,
            scheduled  : BOOLEAN,
            owns       : BOOLEAN,
            subscribed : BOOLEAN,
            queued     : Nat,
            owned      : SUBSET Shapes,
            shown      : SUBSET Shapes,
            timer      : BOOLEAN,
            holder     : Threads \cup {Free},
            cleaned    : {"no", "ok", "error"},
            clean      : BOOLEAN]

Stops == [at : {"none"}, todo : SUBSET Observers]
         \cup [at : StopSteps, obs : Observers, todo : SUBSET Observers]

FeedbackTypes ==
    /\ obs \in [Observers -> Members]
    /\ note \in [Observers -> {"none", "load", "cas", "post"}]
    /\ tasks \in Seq(Tasks)
    /\ reactor \in {Idle} \cup [at : DrainSteps \cup Looks, obs : Observers]
    /\ stop \in [Threads -> Stops]
    /\ close \in [Closers -> {"no", "feedback", "facade", "overlay", "stop", "closed"}]
    /\ session \in Session
    /\ watch \in Watch

-----------------------------------------------------------------------------
(* The task queue. *)

\* The task y is queued no more than once.
Once(q, y) == \A i, j \in 1 .. Len(q) : q[i] = y /\ q[j] = y => i = j

LEMMA TaskKinds ==
    /\ \A o \in Observers : <<"drain", o>> \in Tasks /\ <<"cleanup", o>> \in Tasks
    /\ <<"unused">> \in Tasks /\ <<"close">> \in Tasks /\ <<"unused">> # <<"close">>
    /\ \A o, p \in Observers : <<"drain", o>> # <<"cleanup", p>>
    /\ \A o, p \in Observers : <<"drain", o>> = <<"drain", p>> => o = p
    /\ \A o, p \in Observers : <<"cleanup", o>> = <<"cleanup", p>> => o = p
    /\ \A o \in Observers : <<"drain", o>> # <<"unused">> /\ <<"drain", o>> # <<"close">>
    /\ \A o \in Observers : <<"cleanup", o>> # <<"unused">> /\ <<"cleanup", o>> # <<"close">>
<1>1. \A o \in Observers : <<"drain", o>> # <<"unused">> /\ <<"drain", o>> # <<"close">>
  BY SMT
<1>2. \A o \in Observers : <<"cleanup", o>> # <<"unused">> /\ <<"cleanup", o>> # <<"close">>
  OBVIOUS
<1> QED
  BY <1>1, <1>2 DEF Tasks

LEMMA Joined ==
    ASSUME NEW q \in Seq(Tasks), NEW x \in Tasks
    PROVE  /\ Append(q, x) \in Seq(Tasks)
           /\ \A y : Contains(Append(q, x), y) <=> Contains(q, y) \/ y = x
           /\ \A y : Once(q, y) /\ (y = x => ~Contains(q, y)) => Once(Append(q, x), y)
<1>1. /\ Append(q, x) \in Seq(Tasks) /\ Len(Append(q, x)) = Len(q) + 1 /\ Len(q) \in Nat
      /\ \A i \in 1 .. Len(q) : Append(q, x)[i] = q[i]
      /\ Append(q, x)[Len(q) + 1] = x
  BY AppendProperties
<1>2. \A i \in 1 .. Len(Append(q, x)) : i \in 1 .. Len(q) \/ i = Len(q) + 1
  BY <1>1
<1>3. ASSUME NEW y PROVE Contains(Append(q, x), y) <=> Contains(q, y) \/ y = x
  <2>1. 1 .. Len(q) \subseteq 1 .. Len(Append(q, x)) /\ Len(q) + 1 \in 1 .. Len(Append(q, x))
    BY <1>1
  <2> QED
    BY <1>1, <1>2, <2>1 DEF Contains
<1>4. ASSUME NEW y, Once(q, y), y = x => ~Contains(q, y) PROVE Once(Append(q, x), y)
  BY <1>1, <1>2, <1>4 DEF Once, Contains
<1> QED
  BY <1>1, <1>3, <1>4

LEMMA Taken ==
    ASSUME NEW q \in Seq(Tasks), q # <<>>
    PROVE  /\ Tail(q) \in Seq(Tasks) /\ Head(q) \in Tasks
           /\ \A y : Contains(Tail(q), y) => Contains(q, y)
           /\ \A y : Contains(q, y) /\ y # Head(q) => Contains(Tail(q), y)
           /\ Contains(q, Head(q))
           /\ \A y : Once(q, y) => Once(Tail(q), y)
           /\ Once(q, Head(q)) => ~Contains(Tail(q), Head(q))
<1>1. /\ Tail(q) \in Seq(Tasks) /\ Len(q) \in Nat \ {0} /\ Len(Tail(q)) = Len(q) - 1
      /\ \A i \in 1 .. Len(q) - 1 : Tail(q)[i] = q[i + 1]
      /\ Head(q) = q[1] /\ Head(q) \in Tasks
  BY HeadTailProperties, EmptySeq
<1>2. /\ \A i \in 1 .. Len(Tail(q)) : i + 1 \in 1 .. Len(q) /\ i + 1 # 1
                                      /\ Tail(q)[i] = q[i + 1]
      /\ \A i \in 1 .. Len(q) : i # 1 => i - 1 \in 1 .. Len(Tail(q)) /\ q[i] = Tail(q)[i - 1]
      /\ 1 \in 1 .. Len(q)
  BY <1>1
<1>3. ASSUME NEW y, Contains(Tail(q), y) PROVE Contains(q, y)
  BY <1>2, <1>3 DEF Contains
<1>4. ASSUME NEW y, Contains(q, y), y # Head(q) PROVE Contains(Tail(q), y)
  BY <1>1, <1>2, <1>4 DEF Contains
<1>5. Contains(q, Head(q))
  BY <1>1, <1>2 DEF Contains
<1>6. ASSUME NEW y, Once(q, y) PROVE Once(Tail(q), y)
  <2> SUFFICES ASSUME NEW i \in 1 .. Len(Tail(q)), NEW j \in 1 .. Len(Tail(q)),
                      Tail(q)[i] = y, Tail(q)[j] = y
               PROVE  i = j
    BY DEF Once
  <2>1. i + 1 = j + 1
    BY <1>2, <1>6 DEF Once
  <2> QED
    BY <1>1, <2>1
<1>7. ASSUME Once(q, Head(q)), Contains(Tail(q), Head(q)) PROVE FALSE
  BY <1>1, <1>2, <1>7 DEF Once, Contains
<1> QED
  BY <1>1, <1>3, <1>4, <1>5, <1>6, <1>7

LEMMA QueueOf ==
    ASSUME NEW q \in Seq(Tasks), NEW y
    PROVE  y \in ToSet(q) <=> Contains(q, y)
BY DEF ToSet, Contains

-----------------------------------------------------------------------------
(* Types. *)

LEMMA InitTypes == Init => FeedbackTypes
<1> SUFFICES ASSUME Init PROVE FeedbackTypes
  OBVIOUS
<1>1. NewObserver \in Members
  BY DEF NewObserver, Members
<1>2. <<>> \in Seq(Tasks)
  OBVIOUS
<1>3. NoStop \in Stops
  BY DEF NoStop, Stops
<1>4. session \in Session /\ watch \in Watch
  BY DEF Init, Session, Watch
<1> QED
  BY <1>1, <1>2, <1>3, <1>4 DEF Init, FeedbackTypes

Fields == {"phase", "active", "scheduled", "queued", "owned", "shown", "holder", "cleaned",
           "clean"}

\* A step changes no observer but o, and of o no field that matters but those in F.
Only(o, F) ==
    /\ obs' \in [Observers -> Members]
    /\ \A p \in Observers \ {o} : obs'[p] = obs[p]
    /\ \A f \in Fields \ F : obs'[o][f] = obs[o][f]

LEMMA Updated ==
    ASSUME FeedbackTypes, NEW o \in Observers, NEW r \in Members, NEW F,
           obs' = [obs EXCEPT ![o] = r], \A f \in Fields \ F : r[f] = obs[o][f]
    PROVE  Only(o, F) /\ obs'[o] = r
BY DEF Only, FeedbackTypes

\* The release of an observation leaves counts and tasks what they are.
LEMMA Released ==
    ASSUME FeedbackTypes
    PROVE  /\ OneOut \in Watch
           /\ PostLook => /\ tasks' = tasks \/ tasks' = Append(tasks, <<"unused">>)
                          /\ tasks' \in Seq(Tasks)
<1>1. PostLook => tasks' = tasks \/ tasks' = Append(tasks, <<"unused">>)
  BY DEF PostLook
<1>2. PostLook => tasks' \in Seq(Tasks)
  <2>1. tasks \in Seq(Tasks) /\ <<"unused">> \in Tasks
    BY TaskKinds DEF FeedbackTypes
  <2>2. Append(tasks, <<"unused">>) \in Seq(Tasks)
    BY <2>1, Joined
  <2> QED
    BY <1>1, <2>1, <2>2
<1>3. OneOut \in Watch
  BY DEF OneOut, FeedbackTypes, Watch
<1> QED
  BY <1>1, <1>2, <1>3

LEMMA MembersOf ==
    ASSUME FeedbackTypes
    PROVE  \A o \in Observers : obs[o] \in Members
BY DEF FeedbackTypes

LEMMA StartAcquireDoes ==
    ASSUME FeedbackTypes, NEW o \in Observers, StartAcquire(o)
    PROVE  /\ Only(o, {"phase"})
           /\ obs'[o].phase = "subscribe"
<1> DEFINE r == [obs[o] EXCEPT !.phase = "subscribe"]
<1>1. obs[o] \in Members
  BY DEF FeedbackTypes
<1>2. obs' = [obs EXCEPT ![o] = r]
  BY <1>1 DEF StartAcquire, FeedbackTypes
<1>3. r \in Members /\ \A f \in Fields \ {"phase"} : r[f] = obs[o][f]
  BY <1>1 DEF Members, Fields
<1>4. r.phase = "subscribe"
  BY <1>1 DEF Members
<1> HIDE DEF r
<1> QED
  BY <1>2, <1>3, <1>4, Updated

LEMMA StartSubscribeDoes ==
    ASSUME FeedbackTypes, NEW o \in Observers, StartSubscribe(o)
    PROVE  /\ Only(o, {"phase"})
           /\ obs'[o].phase = "arm"
<1> DEFINE r == [obs[o] EXCEPT !.phase = "arm", !.subscribed = TRUE]
<1>1. obs[o] \in Members
  BY DEF FeedbackTypes
<1>2. obs' = [obs EXCEPT ![o] = r]
  BY <1>1 DEF StartSubscribe, FeedbackTypes
<1>3. r \in Members /\ \A f \in Fields \ {"phase"} : r[f] = obs[o][f]
  BY <1>1 DEF Members, Fields
<1>4. r.phase = "arm"
  BY <1>1 DEF Members
<1> HIDE DEF r
<1> QED
  BY <1>2, <1>3, <1>4, Updated

LEMMA StartArmDoes ==
    ASSUME FeedbackTypes, NEW o \in Observers, StartArm(o)
    PROVE  /\ Only(o, {"phase", "scheduled"})
           /\ obs'[o].phase = "activate"
<1> DEFINE r == [obs[o] EXCEPT !.phase = "activate", !.timer = TRUE, !.scheduled = TRUE]
<1>1. obs[o] \in Members
  BY DEF FeedbackTypes
<1>2. obs' = [obs EXCEPT ![o] = r]
  BY <1>1 DEF StartArm, FeedbackTypes
<1>3. r \in Members /\ \A f \in Fields \ {"phase", "scheduled"} : r[f] = obs[o][f]
  BY <1>1 DEF Members, Fields
<1>4. r.phase = "activate"
  BY <1>1 DEF Members
<1> HIDE DEF r
<1> QED
  BY <1>2, <1>3, <1>4, Updated

LEMMA StartFailsDoes ==
    ASSUME FeedbackTypes, NEW o \in Observers, StartFails(o)
    PROVE  /\ Only(o, {"phase", "queued"})
           /\ obs'[o].phase = IF LastOut THEN "release" ELSE "gone"
<1> DEFINE r == [obs[o] EXCEPT !.phase = IF LastOut THEN "release" ELSE "gone",
                              !.subscribed = FALSE, !.queued = 0, !.timer = FALSE]
<1>1. obs[o] \in Members
  BY DEF FeedbackTypes
<1>2. obs' = [obs EXCEPT ![o] = r]
  BY <1>1 DEF StartFails, FeedbackTypes
<1>3. r \in Members /\ \A f \in Fields \ {"phase", "queued"} : r[f] = obs[o][f]
  BY <1>1 DEF Members, Fields
<1>4. r.phase = IF LastOut THEN "release" ELSE "gone"
  BY <1>1 DEF Members
<1> HIDE DEF r
<1> QED
  BY <1>2, <1>3, <1>4, Updated

LEMMA StartLookDoes ==
    ASSUME FeedbackTypes, NEW o \in Observers, StartLook(o)
    PROVE  /\ Only(o, {"phase"})
           /\ obs'[o].phase = "gone"
<1> DEFINE r == [obs[o] EXCEPT !.phase = "gone"]
<1>1. obs[o] \in Members
  BY DEF FeedbackTypes
<1>2. obs' = [obs EXCEPT ![o] = r]
  BY <1>1 DEF StartLook, FeedbackTypes
<1>3. r \in Members /\ \A f \in Fields \ {"phase"} : r[f] = obs[o][f]
  BY <1>1 DEF Members, Fields
<1>4. r.phase = "gone"
  BY <1>1 DEF Members
<1> HIDE DEF r
<1> QED
  BY <1>2, <1>3, <1>4, Updated

LEMMA StartActivateDoes ==
    ASSUME FeedbackTypes, NEW o \in Observers, StartActivate(o)
    PROVE  /\ Only(o, {"phase", "active"})
           /\ obs'[o].phase = "running"
<1> DEFINE r == [obs[o] EXCEPT !.phase = "running", !.active = TRUE, !.owns = TRUE]
<1>1. obs[o] \in Members
  BY DEF FeedbackTypes
<1>2. obs' = [obs EXCEPT ![o] = r]
  BY <1>1 DEF StartActivate, FeedbackTypes
<1>3. r \in Members /\ \A f \in Fields \ {"phase", "active"} : r[f] = obs[o][f]
  BY <1>1 DEF Members, Fields
<1>4. r.phase = "running"
  BY <1>1 DEF Members
<1> HIDE DEF r
<1> QED
  BY <1>2, <1>3, <1>4, Updated

LEMMA DropHandleDoes ==
    ASSUME FeedbackTypes, NEW o \in Observers, DropHandle(o)
    PROVE  /\ Only(o, {"phase"})
           /\ obs'[o].phase = "gone"
<1> DEFINE r == [obs[o] EXCEPT !.phase = "gone"]
<1>1. obs[o] \in Members
  BY DEF FeedbackTypes
<1>2. obs' = [obs EXCEPT ![o] = r]
  BY <1>1 DEF DropHandle, FeedbackTypes
<1>3. r \in Members /\ \A f \in Fields \ {"phase"} : r[f] = obs[o][f]
  BY <1>1 DEF Members, Fields
<1>4. r.phase = "gone"
  BY <1>1 DEF Members
<1> HIDE DEF r
<1> QED
  BY <1>2, <1>3, <1>4, Updated

LEMMA NotifyCasDoes ==
    ASSUME FeedbackTypes, NEW o \in Observers, NotifyCas(o)
    PROVE  /\ Only(o, {"scheduled"})
           /\ obs'[o].scheduled
<1> DEFINE r == [obs[o] EXCEPT !.scheduled = TRUE]
<1>1. obs[o] \in Members
  BY DEF FeedbackTypes
<1>2. obs' = [obs EXCEPT ![o] = r]
  BY <1>1 DEF NotifyCas, FeedbackTypes
<1>3. r \in Members /\ \A f \in Fields \ {"scheduled"} : r[f] = obs[o][f]
  BY <1>1 DEF Members, Fields
<1>4. r.scheduled
  BY <1>1 DEF Members
<1> HIDE DEF r
<1> QED
  BY <1>2, <1>3, <1>4, Updated

LEMMA ExpireDoes ==
    ASSUME FeedbackTypes, NEW o \in Observers, Expire(o)
    PROVE  /\ Only(o, {"shown"})
           /\ obs'[o].shown \subseteq obs[o].shown
<1> DEFINE r == [obs[o] EXCEPT !.shown = @ \ {"ripple"}]
<1>1. obs[o] \in Members
  BY DEF FeedbackTypes
<1>2. obs' = [obs EXCEPT ![o] = r]
  BY <1>1 DEF Expire, FeedbackTypes
<1>3. r \in Members /\ \A f \in Fields \ {"shown"} : r[f] = obs[o][f]
  BY <1>1 DEF Members, Fields
<1>4. r.shown \subseteq obs[o].shown
  BY <1>1 DEF Members
<1> HIDE DEF r
<1> QED
  BY <1>2, <1>3, <1>4, Updated

LEMMA TimerFiresDoes ==
    ASSUME FeedbackTypes, NEW o \in Observers, TimerFires(o)
    PROVE  /\ Only(o, {})
<1> DEFINE r == [obs[o] EXCEPT !.timer = FALSE]
<1>1. obs[o] \in Members
  BY DEF FeedbackTypes
<1>2. obs' = [obs EXCEPT ![o] = r]
  BY <1>1 DEF TimerFires, FeedbackTypes
<1>3. r \in Members /\ \A f \in Fields \ {} : r[f] = obs[o][f]
  BY <1>1 DEF Members, Fields
<1> HIDE DEF r
<1> QED
  BY <1>2, <1>3, Updated

LEMMA DrainReleaseDoes ==
    ASSUME FeedbackTypes, NEW o \in Observers, DrainRelease(o)
    PROVE  /\ Only(o, {"scheduled"})
           /\ ~obs'[o].scheduled
<1> DEFINE r == [obs[o] EXCEPT !.scheduled = FALSE]
<1>1. obs[o] \in Members
  BY DEF FeedbackTypes
<1>2. obs' = [obs EXCEPT ![o] = r]
  BY <1>1 DEF DrainRelease, FeedbackTypes
<1>3. r \in Members /\ \A f \in Fields \ {"scheduled"} : r[f] = obs[o][f]
  BY <1>1 DEF Members, Fields
<1>4. ~r.scheduled
  BY <1>1 DEF Members
<1> HIDE DEF r
<1> QED
  BY <1>2, <1>3, <1>4, Updated

LEMMA DrainClaimDoes ==
    ASSUME FeedbackTypes, NEW o \in Observers, DrainClaim(o)
    PROVE  /\ Only(o, {"scheduled"})
           /\ obs'[o].scheduled
<1> DEFINE r == [obs[o] EXCEPT !.scheduled = TRUE]
<1>1. obs[o] \in Members
  BY DEF FeedbackTypes
<1>2. obs' = [obs EXCEPT ![o] = r]
  BY <1>1 DEF DrainClaim, FeedbackTypes
<1>3. r \in Members /\ \A f \in Fields \ {"scheduled"} : r[f] = obs[o][f]
  BY <1>1 DEF Members, Fields
<1>4. r.scheduled
  BY <1>1 DEF Members
<1> HIDE DEF r
<1> QED
  BY <1>2, <1>3, <1>4, Updated

LEMMA NotifyPostDoes ==
    ASSUME FeedbackTypes, NEW o \in Observers, NotifyPost(o)
    PROVE  Only(o, {"scheduled"}) /\ (session.open => obs' = obs)
<1>1. CASE session.open
  BY <1>1 DEF NotifyPost, Only, FeedbackTypes
<1>2. CASE ~session.open
  <2> DEFINE r == [obs[o] EXCEPT !.scheduled = FALSE]
  <2>1. r \in Members /\ \A f \in Fields \ {"scheduled"} : r[f] = obs[o][f]
    BY MembersOf DEF Members, Fields
  <2>2. obs' = [obs EXCEPT ![o] = r]
    BY <1>2 DEF NotifyPost, FeedbackTypes
  <2> HIDE DEF r
  <2> QED
    BY <1>2, <2>1, <2>2, Updated
<1> QED
  BY <1>1, <1>2

LEMMA DrainBeginDoes ==
    ASSUME FeedbackTypes, NEW o \in Observers, DrainBegin(o)
    PROVE  Only(o, {"scheduled"}) /\ (obs[o].active => obs' = obs)
<1>1. CASE obs[o].active
  BY <1>1 DEF DrainBegin, Only, FeedbackTypes
<1>2. CASE ~obs[o].active
  <2> DEFINE r == [obs[o] EXCEPT !.scheduled = FALSE]
  <2>1. r \in Members /\ \A f \in Fields \ {"scheduled"} : r[f] = obs[o][f]
    BY MembersOf DEF Members, Fields
  <2>2. obs' = [obs EXCEPT ![o] = r]
    BY <1>2 DEF DrainBegin, FeedbackTypes
  <2> HIDE DEF r
  <2> QED
    BY <1>2, <2>1, <2>2, Updated
<1> QED
  BY <1>1, <1>2

\* An item is taken while the observer is active and has one.
LEMMA PoppedDoes ==
    ASSUME FeedbackTypes, NEW o \in Observers, DrainInner(o) \/ DrainRecheck(o)
    PROVE  /\ Only(o, {"queued"})
           /\ (obs[o].active /\ obs[o].queued > 0) \/ obs' = obs
<1>1. CASE obs[o].active /\ obs[o].queued > 0
  <2> DEFINE r == [obs[o] EXCEPT !.queued = @ - 1]
  <2>1. r \in Members /\ \A f \in Fields \ {"queued"} : r[f] = obs[o][f]
    BY <1>1, MembersOf DEF Members, Fields
  <2>2. obs' = [obs EXCEPT ![o] = r]
    BY <1>1 DEF DrainInner, DrainRecheck, FeedbackTypes
  <2> HIDE DEF r
  <2> QED
    BY <1>1, <2>1, <2>2, Updated
<1>2. CASE ~(obs[o].active /\ obs[o].queued > 0)
  BY <1>2 DEF DrainInner, DrainRecheck, Only, FeedbackTypes
<1> QED
  BY <1>1, <1>2

\* A gesture changes the shapes alone.
LEMMA Presented ==
    ASSUME NEW r \in Members, NEW g
    PROVE  /\ Present(r, g) \in Members
           /\ \A f \in Fields \ {"owned", "shown"} : Present(r, g)[f] = r[f]
           /\ r.shown \subseteq r.owned => Present(r, g).shown \subseteq Present(r, g).owned
<1> DEFINE r2 == [r EXCEPT !.owned = (@ \ Gone(g)) \cup Added(g),
                          !.shown = (@ \ Gone(g)) \cup Added(g)]
<1>1. Added(g) \in SUBSET Shapes
  BY DEF Added, Shapes
<1>2. r.owned \in SUBSET Shapes /\ r.shown \in SUBSET Shapes
  BY DEF Members
<1>3. (r.owned \ Gone(g)) \cup Added(g) \in SUBSET Shapes
      /\ (r.shown \ Gone(g)) \cup Added(g) \in SUBSET Shapes
  BY <1>1, <1>2
<1>4. r2 \in Members /\ \A f \in Fields \ {"owned", "shown"} : r2[f] = r[f]
  BY <1>3 DEF Members, Fields
<1>5. r2.owned = (r.owned \ Gone(g)) \cup Added(g) /\ r2.shown = (r.shown \ Gone(g)) \cup Added(g)
  BY DEF Members
<1>6. r.shown \subseteq r.owned => r2.shown \subseteq r2.owned
  BY <1>5
<1>7. Present(r, g) = r \/ Present(r, g) = r2
  BY DEF Present
<1> HIDE DEF r2
<1> QED
  BY <1>4, <1>6, <1>7

LEMMA PresentDoes ==
    ASSUME FeedbackTypes, NEW o \in Observers,
           DrainConsume(o) \/ DrainRaced(o) \/ TimerAdvance(o)
    PROVE  /\ Only(o, {"owned", "shown"})
           /\ obs[o].shown \subseteq obs[o].owned => obs'[o].shown \subseteq obs'[o].owned
<1>1. obs[o] \in Members
  BY DEF FeedbackTypes
<1>2. CASE DrainConsume(o) \/ DrainRaced(o)
  <2>1. PICK g \in Gestures(o) : obs' = [obs EXCEPT ![o] = Present(obs[o], g)]
    BY <1>2 DEF DrainConsume, DrainRaced
  <2>2. PICK r \in Members : r = Present(obs[o], g)
    BY <1>1, Presented
  <2>3. /\ \A f \in Fields \ {"owned", "shown"} : r[f] = obs[o][f]
        /\ obs[o].shown \subseteq obs[o].owned => r.shown \subseteq r.owned
    BY <1>1, <2>2, Presented
  <2>4. obs' = [obs EXCEPT ![o] = r]
    BY <2>1, <2>2
  <2>5. Only(o, {"owned", "shown"}) /\ obs'[o] = r
    BY <2>3, <2>4, Updated
  <2> QED
    BY <2>3, <2>5
<1>3. CASE TimerAdvance(o)
  <2>1. PICK g \in Gestures(o) :
            obs' = [obs EXCEPT ![o] = [Present(obs[o], g) EXCEPT !.timer = obs[o].active]]
    BY <1>3 DEF TimerAdvance
  <2>2. PICK s \in Members : s = Present(obs[o], g)
    BY <1>1, Presented
  <2>3. obs[o].active \in BOOLEAN
    BY <1>1 DEF Members
  <2> DEFINE r == [s EXCEPT !.timer = obs[o].active]
  <2>4. r \in Members /\ r.shown = s.shown /\ r.owned = s.owned
        /\ \A f \in Fields \ {"owned", "shown"} : r[f] = s[f]
    BY <2>3 DEF Members, Fields
  <2>5. \A f \in Fields \ {"owned", "shown"} : r[f] = obs[o][f]
    BY <1>1, <2>2, <2>4, Presented
  <2>6. obs' = [obs EXCEPT ![o] = r]
    BY <2>1, <2>2
  <2>7. obs[o].shown \subseteq obs[o].owned => s.shown \subseteq s.owned
    BY <1>1, <2>2, Presented
  <2> HIDE DEF r
  <2>8. Only(o, {"owned", "shown"}) /\ obs'[o] = r
    BY <2>4, <2>5, <2>6, Updated
  <2> QED
    BY <2>4, <2>7, <2>8
<1> QED
  BY <1>2, <1>3

\* With the last share in the observation the completion waits for the look.
LEMMA CleanupDoes ==
    ASSUME FeedbackTypes, NEW o \in Observers, Cleanup(o)
    PROVE  /\ Only(o, {"scheduled", "owned", "shown", "cleaned"})
           /\ obs'[o].shown \subseteq obs[o].shown
           /\ obs[o].shown \subseteq obs[o].owned =>
                 /\ obs'[o].cleaned = "ok" => obs'[o].shown = {} \/ obs[o].cleaned = "ok"
                 /\ reactor'.at = "look" => obs'[o].shown = {}
           /\ \/ reactor' = reactor /\ obs'[o].cleaned # "no"
              \/ /\ obs'[o].cleaned = obs[o].cleaned /\ watch' = OneOut
                 /\ reactor'.at \in Looks /\ reactor'.obs = o
           /\ watch' = OneOut \/ watch' = watch
           /\ LastOut => watch' = watch \/ reactor'.at \in Looks
<1>1. obs[o] \in Members
  BY DEF FeedbackTypes
<1> DEFINE torn == session.attached \/ obs[o].owned = {}
<1> DEFINE last == obs[o].owns /\ LastOut
<1> DEFINE a == IF last THEN obs[o].cleaned ELSE IF torn THEN "ok" ELSE "error"
<1> DEFINE r == [TornDown(obs[o]) EXCEPT !.scheduled = FALSE, !.owns = FALSE, !.cleaned = a]
<1>2. /\ obs' = [obs EXCEPT ![o] = r]
      /\ reactor = Idle
      /\ watch' = IF obs[o].owns THEN OneOut ELSE watch
      /\ IF last THEN Goto(IF torn THEN "look" ELSE "lookAnyway", o) ELSE reactor' = reactor
  <2>1. TornDown(obs[o]).cleaned = obs[o].cleaned
    BY <1>1 DEF TornDown, Members
  <2>2. obs' = [obs EXCEPT ![o] = r]
    BY <2>1 DEF Cleanup
  <2> QED
    BY <2>2 DEF Cleanup
<1>3. a \in {"no", "ok", "error"}
  BY <1>1 DEF Members
<1>4. r \in Members /\ \A f \in Fields \ {"scheduled", "owned", "shown", "cleaned"} :
                           r[f] = obs[o][f]
  BY <1>1, <1>3 DEF TornDown, Members, Fields
<1>5. /\ r.cleaned = a
      /\ r.shown = IF session.attached THEN obs[o].shown \ obs[o].owned ELSE obs[o].shown
  BY <1>1 DEF TornDown, Members
<1> HIDE DEF r
<1>6. Only(o, {"scheduled", "owned", "shown", "cleaned"}) /\ obs'[o] = r
  BY <1>2, <1>4, Updated
<1>7. CASE last
  BY <1>2, <1>5, <1>6, <1>7 DEF Goto, Looks
<1>8. CASE ~last
  BY <1>2, <1>5, <1>6, <1>8 DEF Idle
<1> QED
  BY <1>7, <1>8

LEMMA CleanupLookDoes ==
    ASSUME FeedbackTypes, NEW o \in Observers, CleanupLook(o)
    PROVE  /\ Only(o, {"cleaned"})
           /\ obs'[o].cleaned # "no" /\ (obs'[o].cleaned = "ok" => reactor.at = "look")
<1>1. obs[o] \in Members
  BY DEF FeedbackTypes
<1>2. PICK a \in {"ok", "error"} :
          /\ a = "ok" => reactor.at = "look"
          /\ obs' = [obs EXCEPT ![o].cleaned = a]
  BY DEF CleanupLook
<1> DEFINE r == [obs[o] EXCEPT !.cleaned = a]
<1>3. r \in Members /\ r.cleaned = a /\ \A f \in Fields \ {"cleaned"} : r[f] = obs[o][f]
  BY <1>1 DEF Members, Fields
<1>4. obs' = [obs EXCEPT ![o] = r]
  BY <1>1, <1>2 DEF FeedbackTypes
<1> HIDE DEF r
<1> QED
  BY <1>2, <1>3, <1>4, Updated

LEMMA StopLockDoes ==
    ASSUME FeedbackTypes, NEW t \in Threads, NEW o \in Observers, StopLock(t, o)
    PROVE  /\ Only(o, {"active", "holder"})
           /\ obs[o].active => ~obs'[o].active /\ obs'[o].holder = t
           /\ ~obs[o].active => obs' = obs
<1>1. CASE obs[o].active
  <2> DEFINE r == [obs[o] EXCEPT !.active = FALSE, !.holder = t]
  <2>1. r \in Members /\ \A f \in Fields \ {"active", "holder"} : r[f] = obs[o][f]
    BY MembersOf DEF Members, Fields
  <2>2. ~r.active /\ r.holder = t
    BY MembersOf DEF Members
  <2>3. obs' = [obs EXCEPT ![o] = r]
    BY <1>1 DEF StopLock, FeedbackTypes
  <2> HIDE DEF r
  <2> QED
    BY <1>1, <2>1, <2>2, <2>3, Updated
<1>2. CASE ~obs[o].active
  BY <1>2 DEF StopLock, Only, FeedbackTypes
<1> QED
  BY <1>1, <1>2

\* A thread in stop() has an observer.
LEMMA StopperOf ==
    ASSUME FeedbackTypes, NEW t \in Threads, stop[t].at \in StopSteps
    PROVE  /\ stop[t].obs \in Observers /\ stop[t].todo \in SUBSET Observers
           /\ stop[t] \in [at : StopSteps, obs : Observers, todo : SUBSET Observers]
<1>1. stop[t] \in Stops
  BY DEF FeedbackTypes
<1> QED
  BY <1>1 DEF Stops, StopSteps

LEMMA StopClearDoes ==
    ASSUME FeedbackTypes, NEW t \in Threads, StopClear(t)
    PROVE  stop[t].obs \in Observers /\ Only(stop[t].obs, {"queued"})
<1>1. PICK o \in Observers : o = stop[t].obs
  BY StopperOf DEF StopClear, Stopping, StopSteps
<1> DEFINE r == [obs[o] EXCEPT !.subscribed = FALSE, !.queued = 0]
<1>2. r \in Members /\ \A f \in Fields \ {"queued"} : r[f] = obs[o][f]
  BY MembersOf DEF Members, Fields
<1>3. obs' = [obs EXCEPT ![o] = r]
  BY <1>1 DEF StopClear, FeedbackTypes
<1> HIDE DEF r
<1> QED
  BY <1>1, <1>2, <1>3, Updated

LEMMA StopDoneDoes ==
    ASSUME FeedbackTypes, NEW t \in Threads, StopDone(t)
    PROVE  stop[t].obs \in Observers /\ Only(stop[t].obs, {"holder", "clean"})
<1>1. PICK o \in Observers : o = stop[t].obs
  BY StopperOf DEF StopDone, Stopping, StopSteps
<1> DEFINE r == [obs[o] EXCEPT !.holder = Free, !.clean = TRUE]
<1>2. r \in Members /\ \A f \in Fields \ {"holder", "clean"} : r[f] = obs[o][f]
  BY MembersOf DEF Members, Fields
<1>3. obs' = [obs EXCEPT ![o] = r]
  BY <1>1 DEF StopDone, FeedbackTypes
<1> HIDE DEF r
<1> QED
  BY <1>1, <1>2, <1>3, Updated

LEMMA StopReleaseDoes ==
    ASSUME FeedbackTypes, NEW t \in Threads, StopRelease(t)
    PROVE  stop[t].obs \in Observers /\ Only(stop[t].obs, {})
<1>1. PICK o \in Observers : o = stop[t].obs
  BY StopperOf DEF StopRelease, Stopping, StopSteps
<1> DEFINE r == [obs[o] EXCEPT !.owns = FALSE]
<1>2. r \in Members /\ \A f \in Fields \ {} : r[f] = obs[o][f]
  BY MembersOf DEF Members, Fields
<1>3. obs' = [obs EXCEPT ![o] = r]
  BY <1>1 DEF StopRelease, FeedbackTypes
<1> HIDE DEF r
<1> QED
  BY <1>1, <1>2, <1>3, Updated

LEMMA StopAbandonDoes ==
    ASSUME FeedbackTypes, NEW t \in Threads, StopAbandon(t)
    PROVE  stop[t].obs \in Observers /\ Only(stop[t].obs, {"holder", "owned"})
<1>1. PICK o \in Observers : o = stop[t].obs
  BY StopperOf DEF StopAbandon, Stopping, StopSteps
<1> DEFINE r == [obs[o] EXCEPT !.owned = {}, !.holder = Free]
<1>2. r \in Members /\ \A f \in Fields \ {"holder", "owned"} : r[f] = obs[o][f]
  BY MembersOf DEF Members, Fields
<1>3. obs' = [obs EXCEPT ![o] = r]
  BY <1>1 DEF StopAbandon, FeedbackTypes
<1> HIDE DEF r
<1> QED
  BY <1>1, <1>2, <1>3, Updated

\* Publishing and the close of the overlay reach every observer.
LEMMA PublishDoes ==
    ASSUME FeedbackTypes, Publish
    PROVE  /\ obs' \in [Observers -> Members]
           /\ \A o \in Observers :
                 /\ \A f \in Fields \ {"queued"} : obs'[o][f] = obs[o][f]
                 /\ note[o] = "none" /\ (note'[o] = "load" \/ (note'[o] = "none" /\ obs'[o] = obs[o]))
<1> DEFINE More(r) == [r EXCEPT !.queued = @ + 1]
<1>1. ASSUME NEW r \in Members
      PROVE  More(r) \in Members /\ \A f \in Fields \ {"queued"} : More(r)[f] = r[f]
  BY DEF Members, Fields
<1>2. /\ obs' = [o \in Observers |-> IF Reached(o) THEN More(obs[o]) ELSE obs[o]]
      /\ note' = [o \in Observers |-> IF Reached(o) THEN "load" ELSE "none"]
      /\ \A o \in Observers : note[o] = "none"
  BY DEF Publish
<1> HIDE DEF More
<1>3. \A o \in Observers : obs[o] \in Members
  BY DEF FeedbackTypes
<1>4. obs' \in [Observers -> Members]
  BY <1>1, <1>2, <1>3
<1> QED
  BY <1>1, <1>2, <1>3, <1>4

LEMMA CloseOverlayDoes ==
    ASSUME FeedbackTypes, NEW c \in Closers, CloseOverlay(c)
    PROVE  /\ obs' \in [Observers -> Members]
           /\ \A o \in Observers :
                 /\ \A f \in Fields \ {"shown"} : obs'[o][f] = obs[o][f]
                 /\ obs'[o].shown = {}
<1> DEFINE Bare(r) == [r EXCEPT !.shown = {}]
<1>1. ASSUME NEW r \in Members
      PROVE  /\ Bare(r) \in Members /\ Bare(r).shown = {}
             /\ \A f \in Fields \ {"shown"} : Bare(r)[f] = r[f]
  BY DEF Members, Fields
<1>2. obs' = [o \in Observers |-> Bare(obs[o])]
  BY DEF CloseOverlay
<1>3. \A o \in Observers : obs[o] \in Members
  BY DEF FeedbackTypes
<1> HIDE DEF Bare
<1> QED
  BY <1>1, <1>2, <1>3


-----------------------------------------------------------------------------
(* Types. *)

LEMMA Grown ==
    ASSUME tasks \in Seq(Tasks), NEW x \in Tasks, tasks' = tasks \/ tasks' = Append(tasks, x)
    PROVE  tasks' \in Seq(Tasks)
BY Joined

LEMMA StepTypes == FeedbackTypes /\ [Next]_vars => FeedbackTypes'
<1> SUFFICES ASSUME FeedbackTypes, [Next]_vars PROVE FeedbackTypes'
  OBVIOUS
<1> USE DEF Only
<1>1. CASE StartManual \/ StopManual
  BY <1>1 DEF StartManual, StopManual, FeedbackTypes, Watch
<1>2. CASE StopUnused
  <2>1. watch' \in Watch
    BY <1>2 DEF StopUnused, FeedbackTypes, Watch
  <2>2. tasks' \in Seq(Tasks)
    BY <1>2, Taken DEF StopUnused, FeedbackTypes
  <2> QED
    BY <1>2, <2>1, <2>2 DEF StopUnused, FeedbackTypes
<1>3. CASE Publish
  <2>1. note' \in [Observers -> {"none", "load", "cas", "post"}]
    BY <1>3 DEF Publish
  <2> QED
    BY <1>3, <2>1, PublishDoes DEF Publish, FeedbackTypes
<1>4. ASSUME NEW o \in Observers, StartAcquire(o) PROVE FeedbackTypes'
  <2>1. watch.count + 1 \in Nat /\ watch \in Watch
    BY DEF FeedbackTypes, Watch
  <2>2. watch' \in Watch
    BY <1>4, <2>1 DEF StartAcquire, Acquired, Watch
  <2>3. session' \in Session
    BY <1>4 DEF StartAcquire, FeedbackTypes, Session
  <2> QED
    BY <1>4, <2>2, <2>3, StartAcquireDoes DEF StartAcquire, FeedbackTypes
<1>5. ASSUME NEW o \in Observers, StartSubscribe(o) PROVE FeedbackTypes'
  BY <1>5, StartSubscribeDoes DEF StartSubscribe, FeedbackTypes
<1>6. ASSUME NEW o \in Observers, StartArm(o) PROVE FeedbackTypes'
  <2>1. tasks' \in Seq(Tasks)
    BY <1>6, TaskKinds, Joined DEF StartArm, FeedbackTypes
  <2> QED
    BY <1>6, <2>1, StartArmDoes DEF StartArm, FeedbackTypes
<1>7. ASSUME NEW o \in Observers, StartFails(o) PROVE FeedbackTypes'
  <2>1. session' \in Session
    BY <1>7 DEF StartFails, FeedbackTypes, Session
  <2>2. watch' \in Watch
    BY <1>7, Released DEF StartFails
  <2> QED
    BY <1>7, <2>1, <2>2, StartFailsDoes DEF StartFails, FeedbackTypes
<1>28. ASSUME NEW o \in Observers, StartLook(o) PROVE FeedbackTypes'
  <2>1. session' \in Session
    BY <1>28 DEF StartLook, FeedbackTypes, Session
  <2>2. tasks' \in Seq(Tasks)
    BY <1>28, Released DEF StartLook
  <2> QED
    BY <1>28, <2>1, <2>2, StartLookDoes DEF StartLook, FeedbackTypes
<1>8. ASSUME NEW o \in Observers, StartActivate(o) PROVE FeedbackTypes'
  <2>1. session' \in Session
    BY <1>8 DEF StartActivate, FeedbackTypes, Session
  <2> QED
    BY <1>8, <2>1, StartActivateDoes DEF StartActivate, FeedbackTypes
<1>9. ASSUME NEW o \in Observers, DropHandle(o) PROVE FeedbackTypes'
  <2>1. stop' \in [Threads -> Stops]
    BY <1>9 DEF DropHandle, FeedbackTypes, Stops, Threads, NoStop
  <2> QED
    BY <1>9, <2>1, DropHandleDoes DEF DropHandle, FeedbackTypes
<1>10. ASSUME NEW o \in Observers, NotifyLoad(o) \/ NotifyCas(o) PROVE FeedbackTypes'
  BY <1>10, NotifyCasDoes DEF NotifyLoad, NotifyCas, FeedbackTypes
<1>11. ASSUME NEW o \in Observers, NotifyPost(o) PROVE FeedbackTypes'
  <2>0. tasks' = tasks \/ tasks' = Append(tasks, <<"drain", o>>)
    BY <1>11 DEF NotifyPost
  <2>c. <<"drain", o>> \in Tasks
    BY TaskKinds
  <2>1. tasks' \in Seq(Tasks)
    BY <2>0, <2>c, Grown DEF FeedbackTypes
  <2> QED
    BY <1>11, <2>1, NotifyPostDoes DEF NotifyPost, FeedbackTypes
<1>12. ASSUME NEW o \in Observers, Expire(o) PROVE FeedbackTypes'
  BY <1>12, ExpireDoes DEF Expire, FeedbackTypes
<1>13. ASSUME NEW o \in Observers, TimerFires(o) PROVE FeedbackTypes'
  <2>1. reactor' \in {Idle} \cup [at : DrainSteps \cup Looks, obs : Observers]
    BY <1>13 DEF TimerFires, FeedbackTypes, Goto, DrainSteps
  <2> QED
    BY <1>13, <2>1, TimerFiresDoes DEF TimerFires, FeedbackTypes
<1>14. ASSUME NEW o \in Observers, TimerAdvance(o) PROVE FeedbackTypes'
  BY <1>14, PresentDoes DEF TimerAdvance, FeedbackTypes
<1>15. ASSUME NEW o \in Observers, DrainBegin(o) PROVE FeedbackTypes'
  <2>1. tasks' \in Seq(Tasks)
    BY <1>15, Taken DEF DrainBegin, FeedbackTypes
  <2> QED
    BY <1>15, <2>1, DrainBeginDoes DEF DrainBegin, FeedbackTypes, Goto, DrainSteps
<1>16. ASSUME NEW o \in Observers,
              DrainInner(o) \/ DrainRelease(o) \/ DrainRecheck(o) \/ DrainClaim(o)
       PROVE  FeedbackTypes'
  <2>1. reactor' \in {Idle} \cup [at : DrainSteps \cup Looks, obs : Observers]
    BY <1>16 DEF DrainInner, DrainRelease, DrainRecheck, DrainClaim, Goto, DrainSteps
  <2>2. obs' \in [Observers -> Members]
    BY <1>16, PoppedDoes, DrainReleaseDoes, DrainClaimDoes
  <2> QED
    BY <1>16, <2>1, <2>2 DEF DrainInner, DrainRelease, DrainRecheck, DrainClaim, FeedbackTypes
<1>17. ASSUME NEW o \in Observers, DrainConsume(o) \/ DrainRaced(o) PROVE FeedbackTypes'
  <2>1. reactor' \in {Idle} \cup [at : DrainSteps \cup Looks, obs : Observers]
    BY <1>17 DEF DrainConsume, DrainRaced, Goto, DrainSteps
  <2> QED
    BY <1>17, <2>1, PresentDoes DEF DrainConsume, DrainRaced, FeedbackTypes
<1>18. ASSUME NEW o \in Observers, Cleanup(o) PROVE FeedbackTypes'
  <2>1. watch' \in Watch /\ tasks' \in Seq(Tasks)
    BY <1>18, Released, Taken DEF Cleanup, FeedbackTypes
  <2>2. reactor' \in {Idle} \cup [at : DrainSteps \cup Looks, obs : Observers]
    BY <1>18 DEF Cleanup, Goto, Looks
  <2> QED
    BY <1>18, <2>1, <2>2, CleanupDoes DEF Cleanup, FeedbackTypes
<1>29. ASSUME NEW o \in Observers, CleanupLook(o) PROVE FeedbackTypes'
  <2>1. tasks' \in Seq(Tasks)
    BY <1>29, Released DEF CleanupLook
  <2> QED
    BY <1>29, <2>1, CleanupLookDoes DEF CleanupLook, FeedbackTypes
<1>19. ASSUME NEW t \in Threads, NEW o \in Observers, StopLock(t, o) PROVE FeedbackTypes'
  <2>1. stop' \in [Threads -> Stops]
    BY <1>19 DEF StopLock, Stopping, FeedbackTypes, Stops, StopSteps
  <2> QED
    BY <1>19, <2>1, StopLockDoes DEF StopLock, FeedbackTypes
<1>20. ASSUME NEW t \in Threads, StopClear(t) \/ StopCheck(t) \/ StopPost(t) \/ StopGivesUp(t)
       PROVE  FeedbackTypes'
  <2>1. stop[t].at \in StopSteps
    BY <1>20 DEF StopClear, StopCheck, StopPost, StopGivesUp, Stopping, StopSteps
  <2>2. PICK x \in StopSteps : stop' = [stop EXCEPT ![t].at = x]
    BY <1>20 DEF StopClear, StopCheck, StopPost, StopGivesUp, Step, StopSteps
  <2>3. [stop[t] EXCEPT !.at = x] \in Stops
    BY <2>1, StopperOf DEF Stops
  <2>4. stop' \in [Threads -> Stops]
    BY <2>2, <2>3 DEF FeedbackTypes
  <2>a. PICK o \in Observers : o = stop[t].obs
    BY <2>1, StopperOf
  <2>b. tasks' = tasks \/ tasks' = Append(tasks, <<"cleanup", o>>)
    BY <1>20, <2>a DEF StopClear, StopCheck, StopPost, StopGivesUp
  <2>c. <<"cleanup", o>> \in Tasks
    BY TaskKinds
  <2>5. tasks' \in Seq(Tasks)
    BY <2>b, <2>c, Grown DEF FeedbackTypes
  <2>6. obs' \in [Observers -> Members]
    BY <1>20, StopClearDoes DEF StopCheck, StopPost, StopGivesUp, FeedbackTypes
  <2> QED
    BY <1>20, <2>4, <2>5, <2>6
       DEF StopClear, StopCheck, StopPost, StopGivesUp, FeedbackTypes
<1>21. ASSUME NEW t \in Threads, StopDone(t) \/ StopAbandon(t) PROVE FeedbackTypes'
  <2>1. stop[t].todo \in SUBSET Observers
    BY <1>21, StopperOf DEF StopDone, StopAbandon, Stopping, StopSteps
  <2>2. stop' \in [Threads -> Stops]
    BY <1>21, <2>1 DEF StopDone, StopAbandon, Finished, FeedbackTypes, Stops
  <2>4. obs' \in [Observers -> Members]
    BY <1>21, StopDoneDoes, StopAbandonDoes
  <2> QED
    BY <1>21, <2>2, <2>4 DEF StopDone, StopAbandon, FeedbackTypes
<1>30. ASSUME NEW t \in Threads, StopRelease(t) \/ StopLook(t) PROVE FeedbackTypes'
  <2>1. stop[t].at \in StopSteps
    BY <1>30 DEF StopRelease, StopLook, Stopping, StopSteps
  <2>2. PICK x \in StopSteps : stop' = [stop EXCEPT ![t].at = x]
    BY <1>30 DEF StopRelease, StopLook, Step, StopSteps
  <2>3. [stop[t] EXCEPT !.at = x] \in Stops
    BY <2>1, StopperOf DEF Stops
  <2>4. stop' \in [Threads -> Stops]
    BY <2>2, <2>3 DEF FeedbackTypes
  <2>5. tasks' \in Seq(Tasks) /\ watch' \in Watch
    BY <1>30, Released DEF StopRelease, StopLook, FeedbackTypes
  <2>6. obs' \in [Observers -> Members]
    BY <1>30, StopReleaseDoes DEF StopLook, FeedbackTypes
  <2> QED
    BY <1>30, <2>4, <2>5, <2>6 DEF StopRelease, StopLook, FeedbackTypes
<1>22. ASSUME NEW c \in Closers, CloseFeedback(c) PROVE FeedbackTypes'
  <2>1. session' \in Session /\ session.feedback \in SUBSET Observers
    BY <1>22 DEF CloseFeedback, FeedbackTypes, Session
  <2>2. stop[c] \in Stops /\ c \in Threads
    BY DEF FeedbackTypes, Threads
  <2>3. [stop[c] EXCEPT !.todo = session.feedback] \in Stops
    BY <2>1, <2>2 DEF Stops
  <2>4. stop' \in [Threads -> Stops]
    BY <1>22, <2>2, <2>3 DEF CloseFeedback, FeedbackTypes
  <2> QED
    BY <1>22, <2>1, <2>4 DEF CloseFeedback, FeedbackTypes
<1>23. ASSUME NEW c \in Closers, CloseFacade(c) PROVE FeedbackTypes'
  <2>1. session' \in Session
    BY <1>23 DEF CloseFacade, FeedbackTypes, Session
  <2> QED
    BY <1>23, <2>1 DEF CloseFacade, FeedbackTypes
<1>24. ASSUME NEW c \in Closers, CloseSession(c) PROVE FeedbackTypes'
  <2>1. session' \in Session
    BY <1>24 DEF CloseSession, FeedbackTypes, Session
  <2>a. tasks' = tasks \/ tasks' = Append(tasks, <<"close">>)
    BY <1>24 DEF CloseSession
  <2>b. <<"close">> \in Tasks /\ tasks \in Seq(Tasks)
    BY TaskKinds DEF FeedbackTypes
  <2>2. tasks' \in Seq(Tasks)
    BY <2>a, <2>b, Grown
  <2> QED
    BY <1>24, <2>1, <2>2 DEF CloseSession, FeedbackTypes
<1>25. ASSUME NEW c \in Closers, CloseOverlay(c) PROVE FeedbackTypes'
  <2>2. tasks' \in Seq(Tasks)
    BY <1>25, Taken DEF CloseOverlay, FeedbackTypes
  <2> QED
    BY <1>25, <2>2, CloseOverlayDoes DEF CloseOverlay, FeedbackTypes
<1>26. ASSUME NEW c \in Closers, CloseReactor(c) PROVE FeedbackTypes'
  <2>1. session' \in Session /\ watch' \in Watch
    BY <1>26 DEF CloseReactor, FeedbackTypes, Session, Watch
  <2> QED
    BY <1>26, <2>1 DEF CloseReactor, FeedbackTypes
<1>27. CASE UNCHANGED vars
  BY <1>27 DEF vars, FeedbackTypes
<1> QED
  BY <1>1, <1>2, <1>3, <1>4, <1>5, <1>6, <1>7, <1>8, <1>9, <1>10, <1>11, <1>12, <1>13,
     <1>14, <1>15, <1>16, <1>17, <1>18, <1>19, <1>20, <1>21, <1>22, <1>23, <1>24, <1>25,
     <1>26, <1>27, <1>28, <1>29, <1>30 DEF Next


-----------------------------------------------------------------------------
(* The invariant. *)

DrainOf(o)   == <<"drain", o>>
CleanupOf(o) == <<"cleanup", o>>

\* install() is over.
Ready(o) == obs[o].phase \in {"running", "gone"}

\* The reactor is in the drain() or the timer of o.
OnIt(o) == reactor.at # "idle" /\ reactor.obs = o

\* Somebody has set drain_scheduled_ and is to drain.
FlagHeld(o) ==
    \/ Contains(tasks, DrainOf(o))
    \/ note[o] = "post"
    \/ OnIt(o) /\ reactor.at \in {"inner", "consume", "release", "more"}

Coming(o) ==
    \/ Contains(tasks, DrainOf(o))
    \/ note[o] # "none"
    \/ OnIt(o) /\ reactor.at \in {"inner", "consume", "release", "recheck", "claim", "more"}

DrainOk(o) ==
    /\ obs[o].active => Ready(o)
    /\ obs[o].phase = "activate" => Contains(tasks, DrainOf(o))
    /\ session.open =>
          /\ OnIt(o) /\ reactor.at = "last" => obs[o].scheduled
          /\ obs[o].active /\ obs[o].scheduled => FlagHeld(o)
          /\ obs[o].active /\ obs[o].queued > 0 => Coming(o)

StopAt(t, o, steps) == stop[t].at \in steps /\ stop[t].obs = o
Untouched(o) == obs[o].cleaned = "no" /\ ~Contains(tasks, CleanupOf(o))

\* Its cleanup has given up the last share in the observation and is to post the look.
InLook(o) == OnIt(o) /\ reactor.at \in Looks

LookOk(o) ==
    /\ Untouched(o) /\ ~obs[o].active
    /\ \A t \in Threads : ~StopAt(t, o, {"clear", "check", "post"})
    /\ reactor.at = "look" => obs[o].shown = {}

StopOk(o) ==
    /\ InLook(o) => LookOk(o)
    /\ obs[o].active \/ ~Ready(o) => Untouched(o)
    /\ ~Ready(o) => obs[o].shown = {}
    /\ OnIt(o) => Ready(o)
    /\ \A t \in Threads :
          /\ StopAt(t, o, StopSteps) => ~obs[o].active /\ Ready(o) /\ obs[o].holder = t
          /\ StopAt(t, o, {"clear", "check", "post"}) => Untouched(o)
          /\ StopAt(t, o, {"clear", "check", "post", "wait"}) /\ obs[o].cleaned = "no"
               /\ ~InLook(o) => obs[o].shown \subseteq obs[o].owned
    /\ Once(tasks, CleanupOf(o))
    /\ session.alive /\ Contains(tasks, CleanupOf(o)) =>
          obs[o].cleaned = "no" /\ \E t \in Threads : StopAt(t, o, {"wait"})
    /\ obs[o].active => obs[o].shown \subseteq obs[o].owned
    /\ obs[o].cleaned # "no" => ~obs[o].active /\ ~OnIt(o)
    /\ obs[o].cleaned = "ok" => obs[o].shown = {}
    /\ obs[o].clean => obs[o].cleaned = "ok"

WatchOk ==
    /\ \A c \in Closers : close[c] \in {"overlay", "stop"} => ~session.open
    /\ session.open =>
          /\ watch.manual \/ watch.count > 0 => watch.pump
          /\ watch.pump =>
                watch.manual \/ watch.count > 0 \/ Releasing \/ Contains(tasks, <<"unused">>)

FeedbackInv == FeedbackTypes /\ WatchOk /\ \A o \in Observers : DrainOk(o) /\ StopOk(o)

-----------------------------------------------------------------------------
(* What leaves an observer alone. *)

CleanupsKept(o) ==
    /\ Contains(tasks', CleanupOf(o)) <=> Contains(tasks, CleanupOf(o))
    /\ Once(tasks, CleanupOf(o)) => Once(tasks', CleanupOf(o))

TasksKept(o) ==
    /\ Contains(tasks, DrainOf(o)) => Contains(tasks', DrainOf(o))
    /\ CleanupsKept(o)

\* install() does not end, nor get as far as its first drain.
PhaseKept(o) ==
    /\ Ready(o)' <=> Ready(o)
    /\ obs'[o].phase = "activate" => obs[o].phase = "activate"

ReactorKept(o) == reactor' = reactor \/ (~OnIt(o) /\ ~OnIt(o)')

StopsKept(o) ==
    \A t \in Threads :
        \/ stop'[t].at = stop[t].at /\ stop'[t].obs = stop[t].obs
        \/ ~StopAt(t, o, StopSteps) /\ ~StopAt(t, o, StopSteps)'

LEMMA TasksOther ==
    ASSUME tasks \in Seq(Tasks), NEW o \in Observers
    PROVE  /\ tasks' = tasks => TasksKept(o)
           /\ \A x \in Tasks : tasks' = Append(tasks, x) /\ x # CleanupOf(o) => TasksKept(o)
           /\ tasks # <<>> /\ tasks' = Tail(tasks) /\ Head(tasks) # DrainOf(o)
                /\ Head(tasks) # CleanupOf(o) => TasksKept(o)
<1>1. tasks' = tasks => TasksKept(o)
  BY DEF TasksKept, CleanupsKept
<1>2. ASSUME NEW x \in Tasks, tasks' = Append(tasks, x), x # CleanupOf(o) PROVE TasksKept(o)
  BY <1>2, Joined DEF TasksKept, CleanupsKept
<1>3. ASSUME tasks # <<>>, tasks' = Tail(tasks), Head(tasks) # DrainOf(o),
             Head(tasks) # CleanupOf(o)
      PROVE  TasksKept(o)
  BY <1>3, Taken DEF TasksKept, CleanupsKept
<1> QED
  BY <1>1, <1>2, <1>3

LEMMA DrainSame ==
    ASSUME NEW o \in Observers, DrainOk(o),
           \A f \in {"active", "scheduled", "queued"} : obs'[o][f] = obs[o][f], PhaseKept(o),
           note'[o] = note[o], session'.open => session.open,
           ReactorKept(o), TasksKept(o)
    PROVE  DrainOk(o)'
<1>1. /\ obs'[o].active = obs[o].active
      /\ obs'[o].scheduled = obs[o].scheduled /\ obs'[o].queued = obs[o].queued
  OBVIOUS
<1> QED
  BY <1>1 DEF DrainOk, PhaseKept, FlagHeld, Coming, OnIt, ReactorKept, TasksKept

LEMMA StopSame ==
    ASSUME NEW o \in Observers, StopOk(o),
           PhaseKept(o), \A f \in {"active", "owned", "shown", "holder", "cleaned", "clean"} :
               obs'[o][f] = obs[o][f],
           session'.alive => session.alive,
           ReactorKept(o) \/ (Ready(o) /\ obs[o].cleaned = "no" /\ ~InLook(o) /\ ~InLook(o)'),
           CleanupsKept(o), StopsKept(o)
    PROVE  StopOk(o)'
<1>1. /\ obs'[o].active = obs[o].active
      /\ obs'[o].owned = obs[o].owned /\ obs'[o].shown = obs[o].shown
      /\ obs'[o].holder = obs[o].holder /\ obs'[o].cleaned = obs[o].cleaned
      /\ obs'[o].clean = obs[o].clean
  OBVIOUS
<1>2. \A t \in Threads : \A S \in SUBSET StopSteps : StopAt(t, o, S)' <=> StopAt(t, o, S)
  BY DEF StopsKept, StopAt
<1>3. /\ {"clear", "check", "post"} \in SUBSET StopSteps /\ {"wait"} \in SUBSET StopSteps
      /\ {"clear", "check", "post", "wait"} \in SUBSET StopSteps /\ StopSteps \in SUBSET StopSteps
  BY DEF StopSteps
<1>4. Ready(o)' <=> Ready(o)
  BY DEF PhaseKept
<1>5. Untouched(o)' <=> Untouched(o)
  BY <1>1 DEF Untouched, CleanupsKept
<1>6. OnIt(o)' => (OnIt(o) \/ (Ready(o) /\ obs[o].cleaned = "no"))
  BY DEF ReactorKept, OnIt
<1>7. /\ InLook(o)' <=> InLook(o)
      /\ InLook(o)' => reactor'.at = reactor.at
  BY DEF InLook, ReactorKept, OnIt
<1>8. InLook(o)' => LookOk(o)'
  BY <1>1, <1>2, <1>3, <1>5, <1>7 DEF StopOk, LookOk
<1> QED
  BY <1>1, <1>2, <1>3, <1>4, <1>5, <1>6, <1>7, <1>8 DEF StopOk, CleanupsKept


\* A step that is about o leaves the other observers alone.
LEMMA OthersSame ==
    ASSUME FeedbackInv, NEW o, \A p \in Observers \ {o} : obs'[p] = obs[p],
           \A p \in Observers \ {o} : note'[p] = note[p],
           session'.open => session.open, session'.alive => session.alive,
           \A p \in Observers \ {o} : ReactorKept(p) /\ TasksKept(p) /\ StopsKept(p)
    PROVE  \A p \in Observers \ {o} : DrainOk(p)' /\ StopOk(p)'
<1> SUFFICES ASSUME NEW p \in Observers \ {o} PROVE DrainOk(p)' /\ StopOk(p)'
  OBVIOUS
<1>1. DrainOk(p) /\ StopOk(p) /\ obs'[p] = obs[p]
  BY DEF FeedbackInv
<1>a. PhaseKept(p) /\ CleanupsKept(p)
  BY <1>1 DEF PhaseKept, Ready, TasksKept
<1>2. DrainOk(p)'
  BY <1>1, <1>a, DrainSame
<1>3. StopOk(p)'
  BY <1>1, <1>a, StopSame
<1> QED
  BY <1>2, <1>3

ObserversOk == \A o \in Observers : DrainOk(o) /\ StopOk(o)

\* Steps that leave every observer alone.
LEMMA QuietStep ==
    ASSUME FeedbackInv, obs' = obs, note' = note, reactor' = reactor,
           session'.open => session.open, session'.alive => session.alive,
           \A p \in Observers : TasksKept(p) /\ StopsKept(p)
    PROVE  ObserversOk'
<1>1. \A p \in Observers : ReactorKept(p)
  BY DEF ReactorKept
<1>2. ASSUME NEW p \in Observers PROVE DrainOk(p)' /\ StopOk(p)'
  <2>2. DrainOk(p) /\ StopOk(p) /\ PhaseKept(p) /\ CleanupsKept(p)
    BY DEF FeedbackInv, PhaseKept, Ready, TasksKept
  <2>3. DrainOk(p)'
    BY <1>1, <2>2, DrainSame
  <2>4. StopOk(p)'
    BY <1>1, <2>2, StopSame
  <2> QED
    BY <2>3, <2>4
<1> QED
  BY <1>2 DEF ObserversOk

LEMMA KindsApart ==
    /\ \A o \in Observers : DrainOf(o) \in Tasks /\ CleanupOf(o) \in Tasks
    /\ <<"unused">> \in Tasks /\ <<"close">> \in Tasks
    /\ \A o, p \in Observers : DrainOf(o) # CleanupOf(p)
    /\ \A o, p \in Observers : o # p => DrainOf(o) # DrainOf(p) /\ CleanupOf(o) # CleanupOf(p)
    /\ \A o \in Observers : /\ DrainOf(o) # <<"unused">> /\ DrainOf(o) # <<"close">>
                            /\ CleanupOf(o) # <<"unused">> /\ CleanupOf(o) # <<"close">>
BY TaskKinds DEF DrainOf, CleanupOf

\* No thread begins or ends a stop() of o.
LEMMA StopsUnchanged ==
    ASSUME NEW o \in Observers
    PROVE  /\ stop' = stop => StopsKept(o)
           /\ \A t \in Threads : (\A u \in Threads \ {t} : stop'[u] = stop[u])
                /\ ~StopAt(t, o, StopSteps) /\ ~StopAt(t, o, StopSteps)' => StopsKept(o)
BY DEF StopsKept

LEMMA SharingStep ==
    ASSUME FeedbackInv, StartManual \/ StopManual \/ StopUnused
    PROVE  ObserversOk'
<1>1. tasks \in Seq(Tasks)
  BY DEF FeedbackInv, FeedbackTypes
<1>2. obs' = obs /\ note' = note /\ reactor' = reactor /\ session' = session /\ stop' = stop
  BY DEF StartManual, StopManual, StopUnused
<1>3. tasks' = tasks \/ (tasks # <<>> /\ Head(tasks) = <<"unused">> /\ tasks' = Tail(tasks))
  BY DEF StartManual, StopManual, StopUnused
<1>4. ASSUME NEW p \in Observers PROVE TasksKept(p) /\ StopsKept(p)
  BY <1>1, <1>2, <1>3, KindsApart, TasksOther, StopsUnchanged
<1> QED
  BY <1>2, <1>4, QuietStep

LEMMA CloserStep ==
    ASSUME FeedbackInv, NEW c \in Closers,
           CloseFeedback(c) \/ CloseFacade(c) \/ CloseSession(c) \/ CloseReactor(c)
    PROVE  ObserversOk'
<1>1. tasks \in Seq(Tasks) /\ session \in Session /\ c \in Threads /\ stop \in [Threads -> Stops]
  BY DEF FeedbackInv, FeedbackTypes, Threads
<1>2. obs' = obs /\ note' = note /\ reactor' = reactor
  BY DEF CloseFeedback, CloseFacade, CloseSession, CloseReactor
<1>3. (session'.open => session.open) /\ (session'.alive => session.alive)
  BY <1>1 DEF CloseFeedback, CloseFacade, CloseSession, CloseReactor, Session
<1>4. tasks' = tasks \/ tasks' = Append(tasks, <<"close">>)
  BY DEF CloseFeedback, CloseFacade, CloseSession, CloseReactor
<1>5. ASSUME NEW p \in Observers PROVE TasksKept(p)
  BY <1>1, <1>4, KindsApart, TasksOther
<1>6. ASSUME NEW p \in Observers PROVE StopsKept(p)
  <2>1. CASE CloseFeedback(c)
    <3>1. stop' = [stop EXCEPT ![c].todo = session.feedback]
      BY <2>1 DEF CloseFeedback
    <3>2. stop'[c].at = stop[c].at
      BY <1>1, <3>1 DEF Stops
    <3>3. stop[c].at = "none" \/ stop'[c].obs = stop[c].obs
      BY <1>1, <3>1 DEF Stops
    <3>4. \A u \in Threads \ {c} : stop'[u] = stop[u]
      BY <1>1, <3>1
    <3> QED
      BY <3>2, <3>3, <3>4 DEF StopsKept, StopAt, StopSteps
  <2>2. CASE ~CloseFeedback(c)
    BY <2>2, StopsUnchanged DEF CloseFacade, CloseSession, CloseReactor
  <2> QED
    BY <2>1, <2>2
<1> QED
  BY <1>2, <1>3, <1>5, <1>6, QuietStep


-----------------------------------------------------------------------------
(* Steps that are about one observer. *)

\* What such a step does besides: nothing to anybody else's tasks and threads.
Aside(o) ==
    /\ session'.open => session.open
    /\ session'.alive => session.alive
    /\ \A p \in Observers \ {o} :
          note'[p] = note[p] /\ ReactorKept(p) /\ TasksKept(p) /\ StopsKept(p)

LEMMA AboutOne ==
    ASSUME FeedbackInv, NEW o \in Observers, NEW F, Only(o, F), Aside(o),
           DrainOk(o)', StopOk(o)'
    PROVE  ObserversOk'
<1>1. \A p \in Observers \ {o} : DrainOk(p)' /\ StopOk(p)'
  BY OthersSame DEF Only, Aside
<1> QED
  BY <1>1 DEF ObserversOk

LEMMA ReactorAbout ==
    ASSUME NEW o \in Observers, reactor = Idle \/ reactor.obs = o,
           reactor' = Idle \/ reactor'.obs = o
    PROVE  \A p \in Observers \ {o} : ReactorKept(p)
BY DEF ReactorKept, OnIt, Idle

LEMMA NothingStops == ASSUME stop' = stop PROVE \A p \in Observers : StopsKept(p)
BY DEF StopsKept

\* What becomes of the tasks: one is added, or the first is taken.
LEMMA TasksAbout ==
    ASSUME tasks \in Seq(Tasks), NEW o \in Observers,
           \/ tasks' = tasks
           \/ tasks' = Append(tasks, DrainOf(o))
           \/ tasks' = Append(tasks, <<"unused">>)
    PROVE  \A p \in Observers : TasksKept(p)
BY KindsApart, TasksOther

LEMMA FirstTaken ==
    ASSUME tasks \in Seq(Tasks), NEW o \in Observers, tasks # <<>>, tasks' = Tail(tasks),
           Head(tasks) = DrainOf(o) \/ Head(tasks) = CleanupOf(o)
    PROVE  \A p \in Observers \ {o} : TasksKept(p)
<1> SUFFICES ASSUME NEW p \in Observers \ {o} PROVE TasksKept(p)
  OBVIOUS
<1>1. Head(tasks) # DrainOf(p) /\ Head(tasks) # CleanupOf(p)
  BY KindsApart
<1> QED
  BY <1>1, TasksOther

-----------------------------------------------------------------------------
(* start_feedback(): nothing has been shown, posted or stopped yet. *)

LEMMA StartingStops ==
    ASSUME FeedbackTypes, NEW o \in Observers, StopOk(o), ~Ready(o),
           Only(o, {"phase", "active", "scheduled", "queued"}), reactor' = reactor,
           stop' = stop, CleanupsKept(o), obs'[o].active => Ready(o)'
    PROVE  StopOk(o)'
<1>1. /\ obs'[o].owned = obs[o].owned /\ obs'[o].shown = obs[o].shown
      /\ obs'[o].holder = obs[o].holder /\ obs'[o].cleaned = obs[o].cleaned
      /\ obs'[o].clean = obs[o].clean
  BY DEF Only, Fields
<1>2. Untouched(o) /\ obs[o].shown = {} /\ ~OnIt(o) /\ ~obs[o].clean /\ obs[o].cleaned = "no"
  BY DEF StopOk, Untouched
<1>3. \A t \in Threads : \A S \in SUBSET StopSteps : ~StopAt(t, o, S)
  BY DEF StopOk, StopAt
<1>4. \A t \in Threads : \A S \in SUBSET StopSteps : ~StopAt(t, o, S)'
  BY <1>3 DEF StopAt
<1>5. /\ {"clear", "check", "post"} \in SUBSET StopSteps /\ {"wait"} \in SUBSET StopSteps
      /\ {"clear", "check", "post", "wait"} \in SUBSET StopSteps /\ StopSteps \in SUBSET StopSteps
  BY DEF StopSteps
<1>6. Untouched(o)' /\ ~OnIt(o)'
  BY <1>1, <1>2 DEF Untouched, CleanupsKept, OnIt
<1>7. Once(tasks', CleanupOf(o))
  BY DEF StopOk, CleanupsKept
<1>8. ~Contains(tasks', CleanupOf(o))
  BY <1>6 DEF Untouched
<1>9. obs'[o].shown = {} /\ obs'[o].cleaned = "no" /\ ~obs'[o].clean
  BY <1>1, <1>2
<1> QED
  BY <1>4, <1>5, <1>6, <1>7, <1>8, <1>9 DEF StopOk, InLook

\* Until install() is over nobody drains, and its own drain is queued.
LEMMA StartingDrains ==
    ASSUME NEW o \in Observers, DrainOk(o), StopOk(o), ~Ready(o), reactor' = reactor,
           obs'[o].phase = "activate" \/ obs'[o].active => Contains(tasks', DrainOf(o)),
           obs'[o].active => Ready(o)'
    PROVE  DrainOk(o)'
<1>1. ~OnIt(o)
  BY DEF StopOk
<1>2. ~OnIt(o)'
  BY <1>1 DEF OnIt
<1> QED
  BY <1>2 DEF DrainOk, FlagHeld, Coming

LEMMA StartStep ==
    ASSUME FeedbackInv, NEW o \in Observers,
           \/ StartAcquire(o) \/ StartSubscribe(o) \/ StartArm(o) \/ StartFails(o)
           \/ StartLook(o) \/ StartActivate(o)
    PROVE  ObserversOk'
<1>1. FeedbackTypes /\ DrainOk(o) /\ StopOk(o)
  BY DEF FeedbackInv
<1>2. tasks \in Seq(Tasks) /\ session \in Session
  BY <1>1 DEF FeedbackTypes
<1>3. ~Ready(o) /\ ~obs[o].active
  <2>1. obs[o].phase \notin {"running", "gone"}
    BY DEF StartAcquire, StartSubscribe, StartArm, StartFails, StartLook, StartActivate, Installed
  <2> QED
    BY <1>1, <2>1 DEF Ready, DrainOk
<1>4. note' = note /\ reactor' = reactor /\ stop' = stop
  BY DEF StartAcquire, StartSubscribe, StartArm, StartFails, StartLook, StartActivate
<1>5. tasks' = tasks \/ tasks' = Append(tasks, DrainOf(o)) \/ tasks' = Append(tasks, <<"unused">>)
  BY <1>1, <1>2, Released
     DEF StartAcquire, StartSubscribe, StartArm, StartFails, StartLook, StartActivate, DrainOf
<1>6. \A p \in Observers : TasksKept(p) /\ StopsKept(p) /\ ReactorKept(p)
  BY <1>2, <1>4, <1>5, TasksAbout, NothingStops DEF ReactorKept
<1>7. (session'.open => session.open) /\ (session'.alive => session.alive)
  BY <1>2 DEF StartAcquire, StartSubscribe, StartArm, StartFails, StartLook, StartActivate, Session
<1>8. Aside(o)
  BY <1>4, <1>6, <1>7 DEF Aside
<1>9. /\ Only(o, {"phase", "active", "scheduled", "queued"})
      /\ obs'[o].active => Ready(o)'
      /\ obs'[o].phase = "activate" \/ obs'[o].active => Contains(tasks', DrainOf(o))
  <2>1. CASE StartAcquire(o)
    <3>1. Only(o, {"phase"}) /\ obs'[o].phase = "subscribe"
      BY <1>1, <2>1, StartAcquireDoes
    <3> QED
      BY <1>3, <3>1 DEF Only, Fields
  <2>2. CASE StartSubscribe(o)
    <3>1. Only(o, {"phase"}) /\ obs'[o].phase = "arm"
      BY <1>1, <2>2, StartSubscribeDoes
    <3> QED
      BY <1>3, <3>1 DEF Only, Fields
  <2>3. CASE StartArm(o)
    <3>1. Only(o, {"phase", "scheduled"}) /\ obs'[o].phase = "activate"
      BY <1>1, <2>3, StartArmDoes
    <3>2. tasks' = Append(tasks, DrainOf(o))
      BY <2>3 DEF StartArm, DrainOf
    <3>3. Contains(tasks', DrainOf(o))
      BY <1>2, <3>2, Joined, KindsApart
    <3> QED
      BY <1>3, <3>1, <3>3 DEF Only, Fields
  <2>4. CASE StartFails(o)
    <3>1. Only(o, {"phase", "queued"}) /\ obs'[o].phase \in {"release", "gone"}
      BY <1>1, <2>4, StartFailsDoes
    <3> QED
      BY <1>3, <3>1 DEF Only, Fields
  <2>5. CASE StartActivate(o)
    <3>1. Only(o, {"phase", "active"}) /\ obs'[o].phase = "running"
      BY <1>1, <2>5, StartActivateDoes
    <3>2. Contains(tasks, DrainOf(o)) /\ tasks' = tasks
      BY <1>1, <2>5 DEF DrainOk, StartActivate
    <3> QED
      BY <1>3, <3>1, <3>2 DEF Only, Fields, Ready
  <2>6. CASE StartLook(o)
    <3>1. Only(o, {"phase"}) /\ obs'[o].phase = "gone"
      BY <1>1, <2>6, StartLookDoes
    <3> QED
      BY <1>3, <3>1 DEF Only, Fields
  <2> QED
    BY <2>1, <2>2, <2>3, <2>4, <2>5, <2>6
<1>10. StopOk(o)'
  BY <1>1, <1>3, <1>4, <1>6, <1>9, StartingStops DEF TasksKept
<1>11. DrainOk(o)'
  BY <1>1, <1>3, <1>4, <1>9, StartingDrains
<1> QED
  BY <1>8, <1>9, <1>10, <1>11, AboutOne


-----------------------------------------------------------------------------
(* notify(), the presenter and the drain. *)

\* The part of an observer that its stop() is about stays as it is.
LEMMA StopUntouched ==
    ASSUME NEW o \in Observers, StopOk(o), Only(o, {"scheduled", "queued"}), stop' = stop,
           session'.alive => session.alive, CleanupsKept(o),
           ReactorKept(o) \/ (Ready(o) /\ obs[o].cleaned = "no" /\ ~InLook(o) /\ ~InLook(o)')
    PROVE  StopOk(o)'
<1>1. PhaseKept(o)
  BY DEF Only, Fields, PhaseKept, Ready
<1>2. \A f \in {"active", "owned", "shown", "holder", "cleaned", "clean"} :
          obs'[o][f] = obs[o][f]
  BY DEF Only, Fields
<1> QED
  BY <1>1, <1>2, NothingStops, StopSame

LEMMA NotifyStep ==
    ASSUME FeedbackInv, NEW o \in Observers, NotifyLoad(o) \/ NotifyCas(o) \/ NotifyPost(o)
    PROVE  ObserversOk'
<1>1. FeedbackTypes /\ DrainOk(o) /\ StopOk(o)
  BY DEF FeedbackInv
<1>2. tasks \in Seq(Tasks) /\ note \in [Observers -> {"none", "load", "cas", "post"}]
  BY <1>1 DEF FeedbackTypes
<1>3. reactor' = reactor /\ stop' = stop /\ session' = session
  BY DEF NotifyLoad, NotifyCas, NotifyPost
<1>4. tasks' = tasks \/ tasks' = Append(tasks, DrainOf(o)) \/ tasks' = Append(tasks, <<"unused">>)
  BY DEF NotifyLoad, NotifyCas, NotifyPost, DrainOf
<1>5. \A p \in Observers : TasksKept(p) /\ StopsKept(p) /\ ReactorKept(p)
  BY <1>2, <1>3, <1>4, TasksAbout, NothingStops DEF ReactorKept
<1>6. \A p \in Observers \ {o} : note'[p] = note[p]
  BY <1>2 DEF NotifyLoad, NotifyCas, NotifyPost
<1>7. Aside(o)
  BY <1>3, <1>5, <1>6 DEF Aside
<1>8. Only(o, {"scheduled", "queued"}) /\ obs'[o].phase = obs[o].phase
      /\ obs'[o].active = obs[o].active /\ obs'[o].queued = obs[o].queued
  <2>1. Only(o, {"scheduled"})
    BY <1>1, NotifyCasDoes, NotifyPostDoes DEF NotifyLoad, Only, FeedbackTypes
  <2> QED
    BY <2>1 DEF Only, Fields
<1>9. StopOk(o)'
  BY <1>1, <1>3, <1>5, <1>8, StopUntouched DEF TasksKept
<1>10. (OnIt(o)' <=> OnIt(o)) /\ (Contains(tasks, DrainOf(o)) => Contains(tasks', DrainOf(o)))
  BY <1>3, <1>5 DEF OnIt, TasksKept
<1>11. DrainOk(o)'
  <2>1. CASE NotifyLoad(o)
    <3>1. /\ obs' = obs /\ note[o] = "load" /\ (obs[o].active => note'[o] = "cas")
          /\ note'[o] # "post"
      BY <1>2, <2>1 DEF NotifyLoad
    <3> QED
      BY <1>1, <1>3, <1>10, <3>1 DEF DrainOk, Ready, FlagHeld, Coming
  <2>2. CASE NotifyCas(o)
    <3>1. /\ obs'[o].scheduled /\ note[o] = "cas"
          /\ obs[o].scheduled \/ note'[o] = "post"
      BY <1>1, <1>2, <2>2, NotifyCasDoes DEF NotifyCas
    <3> QED
      BY <1>1, <1>3, <1>8, <1>10, <3>1 DEF DrainOk, Ready, FlagHeld, Coming
  <2>3. CASE NotifyPost(o) /\ session.open
    <3>1. tasks' = Append(tasks, DrainOf(o))
      BY <2>3 DEF NotifyPost, DrainOf
    <3>2. Contains(tasks', DrainOf(o)) /\ obs' = obs
      BY <1>1, <1>2, <2>3, <3>1, Joined, KindsApart, NotifyPostDoes
    <3> QED
      BY <1>1, <1>3, <1>10, <3>2 DEF DrainOk, Ready, FlagHeld, Coming
  <2>4. CASE NotifyPost(o) /\ ~session.open
    BY <1>1, <1>3, <1>8, <1>10, <2>4 DEF DrainOk, Ready
  <2> QED
    BY <2>1, <2>2, <2>3, <2>4
<1> QED
  BY <1>7, <1>8, <1>9, <1>11, AboutOne

LEMMA PublishStep == ASSUME FeedbackInv, Publish PROVE ObserversOk'
<1>1. FeedbackTypes
  BY DEF FeedbackInv
<1>2. tasks' = tasks /\ reactor' = reactor /\ stop' = stop /\ session' = session
  BY DEF Publish
<1>3. ASSUME NEW o \in Observers PROVE DrainOk(o)' /\ StopOk(o)'
  <2>1. DrainOk(o) /\ StopOk(o)
    BY DEF FeedbackInv
  <2>2. /\ \A f \in Fields \ {"queued"} : obs'[o][f] = obs[o][f]
        /\ note[o] = "none" /\ (note'[o] = "load" \/ (note'[o] = "none" /\ obs'[o] = obs[o]))
    BY <1>1, PublishDoes
  <2>3. /\ obs'[o].phase = obs[o].phase /\ obs'[o].active = obs[o].active
        /\ obs'[o].scheduled = obs[o].scheduled
    BY <2>2 DEF Fields
  <2>4. PhaseKept(o) /\ CleanupsKept(o) /\ ReactorKept(o) /\ StopsKept(o)
    BY <1>2, <2>3, NothingStops DEF PhaseKept, Ready, CleanupsKept, ReactorKept
  <2>5. \A f \in {"active", "owned", "shown", "holder", "cleaned", "clean"} :
            obs'[o][f] = obs[o][f]
    BY <2>2 DEF Fields
  <2>6. StopOk(o)'
    BY <1>2, <2>1, <2>4, <2>5, StopSame
  <2>7. DrainOk(o)'
    BY <1>2, <2>1, <2>2, <2>3 DEF DrainOk, Ready, FlagHeld, Coming, OnIt
  <2> QED
    BY <2>6, <2>7
<1> QED
  BY <1>3 DEF ObserversOk

\* What is shown may shrink, and grow only while a drain or a timer of o is under way
\* and what is shown is the presenter's.
LEMMA ShapesChange ==
    ASSUME NEW o \in Observers, StopOk(o), Only(o, {"scheduled", "queued", "owned", "shown"}),
           stop' = stop, session'.alive => session.alive, CleanupsKept(o),
           \/ ReactorKept(o) /\ obs'[o].shown \subseteq obs[o].shown /\ obs'[o].owned = obs[o].owned
           \/ /\ OnIt(o) /\ ~InLook(o) /\ ~InLook(o)'
              /\ obs[o].shown \subseteq obs[o].owned => obs'[o].shown \subseteq obs'[o].owned
    PROVE  StopOk(o)'
<1>1. /\ obs'[o].phase = obs[o].phase /\ obs'[o].active = obs[o].active
      /\ obs'[o].holder = obs[o].holder /\ obs'[o].cleaned = obs[o].cleaned
      /\ obs'[o].clean = obs[o].clean
  BY DEF Only, Fields
<1>2. OnIt(o)' => (OnIt(o) \/ ReactorKept(o))
  OBVIOUS
<1>3. OnIt(o)' => OnIt(o)
  BY <1>2 DEF ReactorKept, OnIt
<1>4. \A t \in Threads : \A S \in SUBSET StopSteps : StopAt(t, o, S)' <=> StopAt(t, o, S)
  BY DEF StopAt
<1>5. /\ {"clear", "check", "post"} \in SUBSET StopSteps /\ {"wait"} \in SUBSET StopSteps
      /\ {"clear", "check", "post", "wait"} \in SUBSET StopSteps /\ StopSteps \in SUBSET StopSteps
  BY DEF StopSteps
<1>6. (Ready(o)' <=> Ready(o)) /\ (Untouched(o)' <=> Untouched(o))
  BY <1>1 DEF Ready, Untouched, CleanupsKept
<1>7. CASE /\ ReactorKept(o)
           /\ obs'[o].shown \subseteq obs[o].shown /\ obs'[o].owned = obs[o].owned
  <2>1. (InLook(o)' <=> InLook(o)) /\ (InLook(o)' => reactor'.at = reactor.at)
    BY <1>7 DEF InLook, ReactorKept, OnIt
  <2>2. InLook(o)' => LookOk(o)'
    BY <1>1, <1>4, <1>5, <1>6, <1>7, <2>1 DEF StopOk, LookOk
  <2> QED
    BY <1>1, <1>3, <1>4, <1>5, <1>6, <1>7, <2>1, <2>2 DEF StopOk, CleanupsKept
<1>8. CASE /\ OnIt(o) /\ ~InLook(o) /\ ~InLook(o)'
           /\ obs[o].shown \subseteq obs[o].owned => obs'[o].shown \subseteq obs'[o].owned
  <2>1. obs[o].cleaned = "no" /\ Ready(o) /\ ~obs[o].clean
    BY <1>8 DEF StopOk
  <2> QED
    BY <1>1, <1>3, <1>4, <1>5, <1>6, <1>8, <2>1 DEF StopOk, CleanupsKept
<1> QED
  BY <1>7, <1>8

LEMMA ExpireStep == ASSUME FeedbackInv, NEW o \in Observers, Expire(o) PROVE ObserversOk'
<1>1. FeedbackTypes /\ DrainOk(o) /\ StopOk(o)
  BY DEF FeedbackInv
<1>2. /\ tasks' = tasks /\ reactor' = reactor /\ stop' = stop /\ session' = session
      /\ note' = note
  BY DEF Expire
<1>3. Only(o, {"shown"}) /\ obs'[o].shown \subseteq obs[o].shown
  BY <1>1, ExpireDoes
<1>4. \A p \in Observers : TasksKept(p) /\ StopsKept(p) /\ ReactorKept(p) /\ CleanupsKept(p)
  BY <1>2, NothingStops DEF ReactorKept, TasksKept, CleanupsKept
<1>5. Aside(o)
  BY <1>2, <1>4 DEF Aside
<1>6. Only(o, {"scheduled", "queued", "owned", "shown"}) /\ obs'[o].owned = obs[o].owned
  BY <1>3 DEF Only, Fields
<1>7. StopOk(o)'
  BY <1>1, <1>2, <1>3, <1>4, <1>6, ShapesChange
<1>8. PhaseKept(o) /\ \A f \in {"active", "scheduled", "queued"} : obs'[o][f] = obs[o][f]
  BY <1>3 DEF Only, Fields, PhaseKept, Ready
<1>9. DrainOk(o)'
  BY <1>1, <1>2, <1>4, <1>8, DrainSame
<1> QED
  BY <1>3, <1>5, <1>7, <1>9, AboutOne


\* Every step of the drain and of the timer: reactor steps of o.
LEMMA ReactorAside ==
    ASSUME FeedbackTypes, NEW o \in Observers, note' = note, session' = session, stop' = stop,
           reactor = Idle \/ reactor.obs = o, reactor' = Idle \/ reactor'.obs = o,
           \/ tasks' = tasks
           \/ tasks # <<>> /\ tasks' = Tail(tasks) /\ Head(tasks) = DrainOf(o)
    PROVE  Aside(o) /\ CleanupsKept(o)
<1>1. tasks \in Seq(Tasks)
  BY DEF FeedbackTypes
<1>2. \A p \in Observers \ {o} : ReactorKept(p) /\ StopsKept(p)
  BY ReactorAbout, NothingStops
<1>3. CASE tasks' = tasks
  BY <1>2, <1>3 DEF Aside, TasksKept, CleanupsKept
<1>4. CASE tasks # <<>> /\ tasks' = Tail(tasks) /\ Head(tasks) = DrainOf(o)
  <2>1. \A p \in Observers \ {o} : TasksKept(p)
    BY <1>1, <1>4, FirstTaken
  <2>2. CleanupOf(o) # Head(tasks)
    BY <1>4, KindsApart
  <2>3. CleanupsKept(o)
    BY <1>1, <1>4, <2>2, Taken DEF CleanupsKept
  <2> QED
    BY <1>2, <2>1, <2>3 DEF Aside
<1> QED
  BY <1>3, <1>4

LEMMA DrainBeginStep ==
    ASSUME FeedbackInv, NEW o \in Observers, DrainBegin(o)
    PROVE  ObserversOk'
<1>1. FeedbackTypes /\ DrainOk(o) /\ StopOk(o)
  BY DEF FeedbackInv
<1>2. /\ note' = note /\ session' = session /\ stop' = stop /\ reactor = Idle
      /\ tasks # <<>> /\ tasks' = Tail(tasks) /\ Head(tasks) = DrainOf(o)
      /\ obs[o].phase # "activate"
  BY DEF DrainBegin, DrainOf, Installed
<1>3. /\ reactor' = Idle \/ reactor'.obs = o
      /\ obs[o].active => reactor' = [at |-> "inner", obs |-> o]
      /\ ~obs[o].active => reactor' = reactor
  BY DEF DrainBegin, Goto
<1>4. Aside(o) /\ CleanupsKept(o)
  BY <1>1, <1>2, <1>3, ReactorAside
<1>5. Only(o, {"scheduled"}) /\ Only(o, {"scheduled", "queued"})
  BY <1>1, DrainBeginDoes DEF Only
<1>6. obs'[o].phase = obs[o].phase /\ obs'[o].active = obs[o].active
  BY <1>5 DEF Only, Fields
<1>7. ReactorKept(o) \/ (Ready(o) /\ obs[o].cleaned = "no" /\ ~InLook(o) /\ ~InLook(o)')
  BY <1>1, <1>2, <1>3 DEF ReactorKept, DrainOk, StopOk, Untouched, InLook, OnIt, Idle, Looks
<1>8. StopOk(o)'
  BY <1>1, <1>2, <1>4, <1>5, <1>7, StopUntouched
<1>9. DrainOk(o)'
  <2>1. CASE obs[o].active
    <3>1. OnIt(o)' /\ reactor'.at = "inner"
      BY <1>3, <2>1 DEF OnIt
    <3> QED
      BY <1>1, <1>2, <1>6, <2>1, <3>1 DEF DrainOk, Ready, FlagHeld, Coming
  <2>2. CASE ~obs[o].active
    <3>1. ~OnIt(o)'
      BY <1>2, <1>3, <2>2 DEF OnIt, Idle
    <3> QED
      BY <1>1, <1>2, <1>6, <2>2, <3>1 DEF DrainOk, Ready
  <2> QED
    BY <2>1, <2>2
<1> QED
  BY <1>4, <1>5, <1>8, <1>9, AboutOne

\* Steps inside the drain leave the tasks alone, and o keeps being installed.
LEMMA InDrain ==
    ASSUME FeedbackInv, NEW o \in Observers,
           \/ DrainInner(o) \/ DrainConsume(o) \/ DrainRelease(o) \/ DrainRecheck(o)
           \/ DrainClaim(o) \/ DrainRaced(o) \/ TimerAdvance(o)
    PROVE  /\ FeedbackTypes /\ DrainOk(o) /\ StopOk(o) /\ OnIt(o)
           /\ note' = note /\ session' = session /\ stop' = stop /\ tasks' = tasks
           /\ Aside(o) /\ CleanupsKept(o) /\ Ready(o) /\ obs[o].cleaned = "no"
           /\ ~InLook(o) /\ ~InLook(o)'
<1>1. FeedbackTypes /\ DrainOk(o) /\ StopOk(o)
  BY DEF FeedbackInv
<1>2. note' = note /\ session' = session /\ stop' = stop /\ tasks' = tasks
  BY DEF DrainInner, DrainConsume, DrainRelease, DrainRecheck, DrainClaim, DrainRaced,
         TimerAdvance
<1>3. reactor' = Idle \/ reactor'.obs = o
  BY DEF DrainInner, DrainConsume, DrainRelease, DrainRecheck, DrainClaim, DrainRaced,
         TimerAdvance, Goto
<1>4. OnIt(o)
  BY DEF DrainInner, DrainConsume, DrainRelease, DrainRecheck, DrainClaim, DrainRaced,
         TimerAdvance, At, OnIt
<1>5. Aside(o) /\ CleanupsKept(o)
  BY <1>1, <1>2, <1>3, <1>4, ReactorAside DEF OnIt
<1>6. ~InLook(o) /\ ~InLook(o)'
  BY DEF DrainInner, DrainConsume, DrainRelease, DrainRecheck, DrainClaim, DrainRaced,
         TimerAdvance, At, Goto, Idle, InLook, OnIt, Looks
<1> QED
  BY <1>1, <1>2, <1>4, <1>5, <1>6 DEF StopOk

\* An item is taken from the queue, or there is none.
LEMMA PopStep ==
    ASSUME FeedbackInv, NEW o \in Observers, DrainInner(o) \/ DrainRecheck(o)
    PROVE  ObserversOk'
<1>1. /\ FeedbackTypes /\ DrainOk(o) /\ StopOk(o) /\ OnIt(o)
      /\ note' = note /\ session' = session /\ stop' = stop /\ tasks' = tasks
      /\ Aside(o) /\ CleanupsKept(o) /\ Ready(o) /\ obs[o].cleaned = "no"
      /\ ~InLook(o) /\ ~InLook(o)'
  BY InDrain
<1>2. Only(o, {"queued"}) /\ Only(o, {"scheduled", "queued"})
  BY <1>1, PoppedDoes DEF Only
<1>3. /\ obs'[o].phase = obs[o].phase /\ obs'[o].active = obs[o].active
      /\ obs'[o].scheduled = obs[o].scheduled
  BY <1>2 DEF Only, Fields
<1>4. StopOk(o)'
  BY <1>1, <1>2, StopUntouched
<1>5. DrainOk(o)'
  <2>1. CASE DrainInner(o)
    <3>1. OnIt(o)' /\ reactor'.at \in {"consume", "release"}
      BY <2>1 DEF DrainInner, Goto, OnIt
    <3> QED
      BY <1>1, <1>3, <3>1 DEF DrainOk, Ready, FlagHeld, Coming
  <2>2. CASE DrainRecheck(o) /\ obs[o].active /\ obs[o].queued > 0
    <3>1. OnIt(o)' /\ reactor'.at = "claim" /\ reactor.at = "recheck"
      BY <2>2 DEF DrainRecheck, Goto, OnIt, At
    <3> QED
      BY <1>1, <1>3, <3>1 DEF DrainOk, Ready, FlagHeld, Coming
  <2>3. CASE DrainRecheck(o) /\ ~(obs[o].active /\ obs[o].queued > 0)
    <3>1. ~OnIt(o)' /\ reactor.at = "recheck" /\ obs' = obs
      BY <2>3 DEF DrainRecheck, OnIt, At, Idle
    <3> QED
      BY <1>1, <1>3, <2>3, <3>1 DEF DrainOk, Ready, FlagHeld, Coming
  <2> QED
    BY <2>1, <2>2, <2>3
<1> QED
  BY <1>1, <1>2, <1>4, <1>5, AboutOne

\* drain_scheduled_ is given up, and taken again for an item that came in between.
LEMMA FlagStep ==
    ASSUME FeedbackInv, NEW o \in Observers, DrainRelease(o) \/ DrainClaim(o)
    PROVE  ObserversOk'
<1>1. /\ FeedbackTypes /\ DrainOk(o) /\ StopOk(o) /\ OnIt(o)
      /\ note' = note /\ session' = session /\ stop' = stop /\ tasks' = tasks
      /\ Aside(o) /\ CleanupsKept(o) /\ Ready(o) /\ obs[o].cleaned = "no"
      /\ ~InLook(o) /\ ~InLook(o)'
  BY InDrain
<1>2. Only(o, {"scheduled"}) /\ Only(o, {"scheduled", "queued"})
  BY <1>1, DrainReleaseDoes, DrainClaimDoes DEF Only
<1>3. /\ obs'[o].phase = obs[o].phase /\ obs'[o].active = obs[o].active
      /\ obs'[o].queued = obs[o].queued
  BY <1>2 DEF Only, Fields
<1>4. StopOk(o)'
  BY <1>1, <1>2, StopUntouched
<1>5. DrainOk(o)'
  <2>1. CASE DrainRelease(o)
    <3>1. OnIt(o)' /\ reactor'.at = "recheck"
      BY <2>1 DEF DrainRelease, Goto, OnIt
    <3>2. ~obs'[o].scheduled
      BY <1>1, <2>1, DrainReleaseDoes
    <3> QED
      BY <1>1, <1>3, <3>1, <3>2 DEF DrainOk, Ready, Coming
  <2>2. CASE DrainClaim(o)
    <3>1. /\ reactor.at = "claim" /\ OnIt(o)'
          /\ (reactor'.at = "last" /\ obs[o].scheduled) \/ reactor'.at = "more"
      BY <2>2 DEF DrainClaim, Goto, OnIt, At
    <3>2. obs'[o].scheduled
      BY <1>1, <2>2, DrainClaimDoes
    <3> QED
      BY <1>1, <1>3, <3>1, <3>2 DEF DrainOk, Ready, FlagHeld, Coming
  <2> QED
    BY <2>1, <2>2
<1> QED
  BY <1>1, <1>2, <1>4, <1>5, AboutOne

LEMMA PresentStep ==
    ASSUME FeedbackInv, NEW o \in Observers, DrainConsume(o) \/ DrainRaced(o) \/ TimerAdvance(o)
    PROVE  ObserversOk'
<1>1. /\ FeedbackTypes /\ DrainOk(o) /\ StopOk(o) /\ OnIt(o)
      /\ note' = note /\ session' = session /\ stop' = stop /\ tasks' = tasks
      /\ Aside(o) /\ CleanupsKept(o) /\ Ready(o) /\ obs[o].cleaned = "no"
      /\ ~InLook(o) /\ ~InLook(o)'
  BY InDrain
<1>2. /\ Only(o, {"owned", "shown"}) /\ Only(o, {"scheduled", "queued", "owned", "shown"})
      /\ obs[o].shown \subseteq obs[o].owned => obs'[o].shown \subseteq obs'[o].owned
  BY <1>1, PresentDoes DEF Only
<1>3. /\ obs'[o].phase = obs[o].phase /\ obs'[o].active = obs[o].active
      /\ obs'[o].queued = obs[o].queued /\ obs'[o].scheduled = obs[o].scheduled
  BY <1>2 DEF Only, Fields
<1>4. StopOk(o)'
  BY <1>1, <1>2, ShapesChange
<1>5. DrainOk(o)'
  <2>1. CASE OnIt(o)' /\ reactor'.at = "inner"
    BY <1>1, <1>3, <2>1 DEF DrainOk, Ready, FlagHeld, Coming
  <2>2. CASE ~OnIt(o)' /\ reactor.at \in {"last", "advance"}
    BY <1>1, <1>3, <2>2 DEF DrainOk, Ready, FlagHeld, Coming
  <2>3. \/ OnIt(o)' /\ reactor'.at = "inner"
        \/ ~OnIt(o)' /\ reactor.at \in {"last", "advance"}
    BY DEF DrainConsume, DrainRaced, TimerAdvance, Goto, At, OnIt, Idle
  <2> QED
    BY <2>1, <2>2, <2>3
<1> QED
  BY <1>1, <1>2, <1>4, <1>5, AboutOne

LEMMA TimerFiresStep ==
    ASSUME FeedbackInv, NEW o \in Observers, TimerFires(o)
    PROVE  ObserversOk'
<1>1. FeedbackTypes /\ DrainOk(o) /\ StopOk(o)
  BY DEF FeedbackInv
<1>2. /\ note' = note /\ session' = session /\ stop' = stop /\ reactor = Idle
      /\ tasks' = tasks
  BY DEF TimerFires
<1>3. /\ reactor' = Idle \/ reactor'.obs = o
      /\ (obs[o].active /\ reactor' = [at |-> "advance", obs |-> o]) \/ reactor' = reactor
  BY DEF TimerFires, Goto
<1>4. Aside(o) /\ CleanupsKept(o)
  BY <1>1, <1>2, <1>3, ReactorAside
<1>5. Only(o, {}) /\ Only(o, {"scheduled", "queued"})
  BY <1>1, TimerFiresDoes DEF Only
<1>6. /\ obs'[o].phase = obs[o].phase /\ obs'[o].active = obs[o].active
      /\ obs'[o].queued = obs[o].queued /\ obs'[o].scheduled = obs[o].scheduled
  BY <1>5 DEF Only, Fields
<1>7. ReactorKept(o) \/ (Ready(o) /\ obs[o].cleaned = "no" /\ ~InLook(o) /\ ~InLook(o)')
  BY <1>1, <1>2, <1>3 DEF ReactorKept, DrainOk, StopOk, Untouched, InLook, OnIt, Idle, Looks
<1>8. StopOk(o)'
  BY <1>1, <1>2, <1>4, <1>5, <1>7, StopUntouched
<1>9. ~OnIt(o) /\ (OnIt(o)' => reactor'.at = "advance")
  BY <1>2, <1>3 DEF OnIt, Idle
<1>10. DrainOk(o)'
  BY <1>1, <1>2, <1>6, <1>9 DEF DrainOk, Ready, FlagHeld, Coming
<1> QED
  BY <1>4, <1>5, <1>8, <1>10, AboutOne


-----------------------------------------------------------------------------
(* stop() and the cleanup it posts: lifecycle_mutex_ keeps it to one thread. *)

LEMMA StepSets ==
    /\ {"clear", "check", "post"} \in SUBSET StopSteps /\ {"wait"} \in SUBSET StopSteps
    /\ {"clear", "check", "post", "wait"} \in SUBSET StopSteps /\ StopSteps \in SUBSET StopSteps
BY DEF StopSteps

\* No other thread is in stop() of the observer that t stops.
LEMMA OneStopper ==
    ASSUME NEW o \in Observers, StopOk(o), NEW t \in Threads, StopAt(t, o, StopSteps)
    PROVE  /\ \A u \in Threads \ {t} : \A S \in SUBSET StopSteps : ~StopAt(u, o, S)
           /\ ~obs[o].active /\ Ready(o)
<1>1. \A u \in Threads : StopAt(u, o, StopSteps) => obs[o].holder = u
  BY DEF StopOk
<1>2. \A u \in Threads : \A S \in SUBSET StopSteps : StopAt(u, o, S) => StopAt(u, o, StopSteps)
  BY DEF StopAt
<1> QED
  BY <1>1, <1>2 DEF StopOk

LEMMA CleanupStep == ASSUME FeedbackInv, NEW o \in Observers, Cleanup(o) PROVE ObserversOk'
<1>1. FeedbackTypes /\ DrainOk(o) /\ StopOk(o)
  BY DEF FeedbackInv
<1>2. tasks \in Seq(Tasks)
  BY <1>1 DEF FeedbackTypes
<1>3. /\ note' = note /\ stop' = stop /\ session' = session
      /\ reactor = Idle /\ session.alive /\ tasks # <<>> /\ Head(tasks) = CleanupOf(o)
      /\ tasks' = Tail(tasks)
  BY DEF Cleanup, CleanupOf
<1>8. /\ Only(o, {"scheduled", "owned", "shown", "cleaned"})
      /\ obs[o].shown \subseteq obs[o].owned =>
            /\ obs'[o].cleaned = "ok" => obs'[o].shown = {} \/ obs[o].cleaned = "ok"
            /\ reactor'.at = "look" => obs'[o].shown = {}
      /\ \/ reactor' = reactor /\ obs'[o].cleaned # "no"
         \/ /\ obs'[o].cleaned = obs[o].cleaned
            /\ reactor'.at \in Looks /\ reactor'.obs = o
  BY <1>1, CleanupDoes
<1>6. \A p \in Observers \ {o} : TasksKept(p) /\ ReactorKept(p)
  BY <1>2, <1>3, <1>8, FirstTaken, ReactorAbout
<1>7. Aside(o)
  BY <1>3, <1>6, NothingStops DEF Aside
<1>9. /\ obs'[o].phase = obs[o].phase /\ obs'[o].active = obs[o].active
      /\ obs'[o].holder = obs[o].holder /\ obs'[o].clean = obs[o].clean
  BY <1>8 DEF Only, Fields
<1>10. Contains(tasks, CleanupOf(o)) /\ Once(tasks, CleanupOf(o))
  BY <1>1, <1>2, <1>3, Taken DEF StopOk
<1>11. obs[o].cleaned = "no" /\ \E t \in Threads : StopAt(t, o, {"wait"})
  BY <1>1, <1>3, <1>10 DEF StopOk
<1>12. PICK t \in Threads : StopAt(t, o, {"wait"})
  BY <1>11
<1>13. StopAt(t, o, StopSteps) /\ StopAt(t, o, {"clear", "check", "post", "wait"})
       /\ ~StopAt(t, o, {"clear", "check", "post"})
  BY <1>12 DEF StopAt, StopSteps
<1>14. /\ \A u \in Threads \ {t} : \A S \in SUBSET StopSteps : ~StopAt(u, o, S)
       /\ ~obs[o].active /\ Ready(o)
  BY <1>1, <1>13, OneStopper
<1>a. ~OnIt(o) /\ ~InLook(o)
  BY <1>3 DEF OnIt, InLook, Idle
<1>15. obs[o].shown \subseteq obs[o].owned /\ obs[o].holder = t
  BY <1>1, <1>11, <1>13, <1>a DEF StopOk
<1>16. ~Contains(tasks', CleanupOf(o)) /\ Once(tasks', CleanupOf(o))
  BY <1>2, <1>3, <1>10, Taken
<1>17. Ready(o)'
  BY <1>9, <1>14 DEF Ready
<1>18. \A u \in Threads : ~StopAt(u, o, {"clear", "check", "post"})' /\
           (StopAt(u, o, StopSteps)' => u = t)
  <2>1. \A u \in Threads \ {t} : ~StopAt(u, o, {"clear", "check", "post"})
                                 /\ ~StopAt(u, o, StopSteps)
    BY <1>14, StepSets
  <2>2. \A u \in Threads : stop'[u] = stop[u]
    BY <1>3
  <2> QED
    BY <1>13, <2>1, <2>2 DEF StopAt
<1>19. ~obs[o].clean
  BY <1>1, <1>11 DEF StopOk
<1>b. obs'[o].cleaned = "ok" => obs'[o].shown = {}
  BY <1>8, <1>11, <1>15
<1>c. CASE reactor' = reactor /\ obs'[o].cleaned # "no"
  <2>1. ~OnIt(o)' /\ ~InLook(o)'
    BY <1>a, <1>c DEF OnIt, InLook
  <2>2. StopOk(o)'
    BY <1>9, <1>14, <1>15, <1>16, <1>17, <1>18, <1>19, <1>b, <1>c, <2>1 DEF StopOk
  <2>3. DrainOk(o)'
    BY <1>9, <1>14, <1>17, <2>1 DEF DrainOk, Ready
  <2> QED
    BY <1>7, <1>8, <2>2, <2>3, AboutOne
<1>d. CASE obs'[o].cleaned = obs[o].cleaned /\ reactor'.at \in Looks /\ reactor'.obs = o
  <2>1. OnIt(o)' /\ InLook(o)' /\ reactor'.at # "last"
    BY <1>d DEF OnIt, InLook, Looks
  <2>2. LookOk(o)'
    BY <1>8, <1>9, <1>11, <1>14, <1>15, <1>16, <1>18, <1>d DEF LookOk, Untouched
  <2>3. StopOk(o)'
    BY <1>9, <1>11, <1>14, <1>15, <1>16, <1>17, <1>18, <1>19, <1>b, <1>d, <2>1, <2>2 DEF StopOk
  <2>4. DrainOk(o)'
    BY <1>9, <1>14, <1>17, <2>1 DEF DrainOk, Ready
  <2> QED
    BY <1>7, <1>8, <2>3, <2>4, AboutOne
<1> QED
  BY <1>8, <1>c, <1>d

LEMMA CleanupLookStep ==
    ASSUME FeedbackInv, NEW o \in Observers, CleanupLook(o) PROVE ObserversOk'
<1>1. FeedbackTypes /\ DrainOk(o) /\ StopOk(o) /\ tasks \in Seq(Tasks)
  BY DEF FeedbackInv, FeedbackTypes
<1>2. /\ note' = note /\ stop' = stop /\ session' = session /\ reactor' = Idle
      /\ reactor.obs = o /\ reactor.at \in Looks
  BY DEF CleanupLook, At, Looks
<1>3. tasks' = tasks \/ tasks' = Append(tasks, <<"unused">>)
  BY <1>1, Released DEF CleanupLook
<1>4. /\ Only(o, {"cleaned"})
      /\ obs'[o].cleaned # "no" /\ (obs'[o].cleaned = "ok" => reactor.at = "look")
  BY <1>1, CleanupLookDoes
<1>5. /\ obs'[o].phase = obs[o].phase /\ obs'[o].active = obs[o].active
      /\ obs'[o].holder = obs[o].holder /\ obs'[o].clean = obs[o].clean
      /\ obs'[o].shown = obs[o].shown
  BY <1>4 DEF Only, Fields
<1>6. \A p \in Observers : TasksKept(p)
  BY <1>1, <1>3, TasksAbout
<1>7. Aside(o)
  BY <1>2, <1>6, ReactorAbout, NothingStops DEF Aside
<1>8. OnIt(o) /\ InLook(o)
  BY <1>2 DEF OnIt, InLook, Looks
<1>9. LookOk(o) /\ Ready(o)
  BY <1>1, <1>8 DEF StopOk
<1>10. ~OnIt(o)' /\ ~InLook(o)' /\ Ready(o)'
  BY <1>2, <1>5, <1>9 DEF OnIt, InLook, Idle, Ready
<1>11. ~Contains(tasks', CleanupOf(o)) /\ Once(tasks', CleanupOf(o))
  BY <1>1, <1>6, <1>9 DEF TasksKept, CleanupsKept, LookOk, Untouched, StopOk
<1>12. ~obs[o].clean
  BY <1>1, <1>9 DEF StopOk, LookOk, Untouched
<1>13. \A t \in Threads : /\ ~StopAt(t, o, {"clear", "check", "post"})'
                          /\ StopAt(t, o, StopSteps)' => obs[o].holder = t
  BY <1>1, <1>2, <1>9 DEF LookOk, StopAt, StopOk
<1>14. obs'[o].cleaned = "ok" => obs'[o].shown = {}
  BY <1>4, <1>5, <1>9 DEF LookOk
<1>15. StopOk(o)'
  BY <1>4, <1>5, <1>9, <1>10, <1>11, <1>12, <1>13, <1>14 DEF StopOk, LookOk
<1>16. DrainOk(o)'
  BY <1>5, <1>9, <1>10 DEF DrainOk, LookOk, Ready
<1> QED
  BY <1>4, <1>7, <1>15, <1>16, AboutOne

\* An observer that is no longer active and whose install() is over has no claim to
\* a drain.
LEMMA NoDrainDue ==
    ASSUME NEW o \in Observers, DrainOk(o), ~obs[o].active, ~obs'[o].active, Ready(o), Ready(o)',
           session' = session, reactor' = reactor, obs'[o].scheduled = obs[o].scheduled
    PROVE  DrainOk(o)'
BY DEF DrainOk, Ready, OnIt

\* A thread that goes from one observer's stop() to another's: not at all.
LEMMA StopAside ==
    ASSUME NEW t \in Threads, NEW o \in Observers,
           note' = note, session' = session, reactor' = reactor,
           \A u \in Threads \ {t} : stop'[u] = stop[u],
           stop[t].at = "none" \/ stop[t].obs = o,
           stop'[t].at = "none" \/ stop'[t].obs = o,
           \A p \in Observers \ {o} : TasksKept(p)
    PROVE  Aside(o)
<1>1. "none" \notin StopSteps
  BY DEF StopSteps
<1>2. ASSUME NEW p \in Observers \ {o} PROVE StopsKept(p)
  BY <1>1 DEF StopsKept, StopAt
<1> QED
  BY <1>2 DEF Aside, ReactorKept

LEMMA StopLockStep ==
    ASSUME FeedbackInv, NEW t \in Threads, NEW o \in Observers, StopLock(t, o)
    PROVE  ObserversOk'
<1>1. FeedbackTypes /\ DrainOk(o) /\ StopOk(o)
  BY DEF FeedbackInv
<1>2. /\ note' = note /\ reactor' = reactor /\ session' = session /\ tasks' = tasks
      /\ stop[t].at = "none" /\ stop \in [Threads -> Stops]
  BY <1>1 DEF StopLock, Stopping, FeedbackTypes
<1>3. \A p \in Observers : TasksKept(p)
  BY <1>2 DEF TasksKept, CleanupsKept
<1>4. \A u \in Threads \ {t} : stop'[u] = stop[u]
  BY <1>2 DEF StopLock
<1>5. CASE obs[o].active
  <2>1. stop'[t].at = "clear" /\ stop'[t].obs = o
    BY <1>2, <1>5 DEF StopLock
  <2>2. Aside(o)
    BY <1>2, <1>3, <1>4, <2>1, StopAside
  <2>3. Only(o, {"active", "holder"}) /\ ~obs'[o].active /\ obs'[o].holder = t
    BY <1>1, <1>5, StopLockDoes
  <2>4. /\ obs'[o].phase = obs[o].phase /\ obs'[o].scheduled = obs[o].scheduled
        /\ obs'[o].owned = obs[o].owned /\ obs'[o].shown = obs[o].shown
        /\ obs'[o].cleaned = obs[o].cleaned /\ obs'[o].clean = obs[o].clean
    BY <2>3 DEF Only, Fields
  <2>5. Ready(o) /\ Untouched(o) /\ obs[o].shown \subseteq obs[o].owned
    BY <1>1, <1>5 DEF DrainOk, StopOk
  <2>6. Ready(o)' /\ Untouched(o)' /\ (OnIt(o)' <=> OnIt(o)) /\ ~InLook(o)'
    <3>1. ~InLook(o)
      BY <1>1, <1>5 DEF StopOk, LookOk
    <3> QED
      BY <1>2, <2>4, <2>5, <3>1 DEF Ready, Untouched, OnIt, InLook
  <2>7. \A u \in Threads : \A S \in SUBSET StopSteps : ~StopAt(u, o, S)
    BY <1>1, <1>5 DEF StopOk, StopAt
  <2>8. \A u \in Threads \ {t} : \A S \in SUBSET StopSteps : ~StopAt(u, o, S)'
    BY <1>4, <2>7 DEF StopAt
  <2>9. \A u \in Threads \ {t} : /\ ~StopAt(u, o, {"clear", "check", "post"})'
                                  /\ ~StopAt(u, o, {"clear", "check", "post", "wait"})'
                                  /\ ~StopAt(u, o, StopSteps)'
    BY <2>8, StepSets
  <2>10. obs[o].cleaned = "no" /\ ~obs[o].clean /\ ~Contains(tasks', CleanupOf(o))
         /\ Once(tasks', CleanupOf(o))
    BY <1>1, <1>2, <2>5 DEF StopOk, Untouched
  <2>11. StopOk(o)'
    BY <2>3, <2>4, <2>5, <2>6, <2>9, <2>10 DEF StopOk
  <2>12. DrainOk(o)'
    BY <1>1, <1>2, <2>3, <2>4, <2>6 DEF DrainOk, Ready
  <2> QED
    BY <2>2, <2>3, <2>11, <2>12, AboutOne
<1>6. CASE ~obs[o].active
  <2>1. obs' = obs
    BY <1>1, <1>6, StopLockDoes
  <2>2. stop'[t].at = "none"
    BY <1>2, <1>6 DEF StopLock, Stops, StopSteps
  <2>3. \A p \in Observers : StopsKept(p)
    BY <1>2, <1>4, <2>2 DEF StopsKept, StopAt, StopSteps
  <2> QED
    BY <1>2, <1>3, <2>1, <2>3, QuietStep
<1> QED
  BY <1>5, <1>6

\* What every later step of stop() has in common.
LEMMA InStop ==
    ASSUME FeedbackInv, NEW t \in Threads,
           \/ StopClear(t) \/ StopCheck(t) \/ StopPost(t) \/ StopDone(t) \/ StopGivesUp(t)
           \/ StopRelease(t) \/ StopLook(t) \/ StopAbandon(t)
    PROVE  \E o \in Observers :
             /\ o = stop[t].obs /\ FeedbackTypes /\ DrainOk(o) /\ StopOk(o)
             /\ note' = note /\ reactor' = reactor /\ session' = session
             /\ \A u \in Threads \ {t} : stop'[u] = stop[u]
             /\ \A u \in Threads \ {t} : \A S \in SUBSET StopSteps : ~StopAt(u, o, S)'
             /\ \A u \in Threads \ {t} : \A S \in SUBSET StopSteps : ~StopAt(u, o, S)
             /\ stop'[t].at = "none" \/ stop'[t].obs = o
             /\ StopAt(t, o, StopSteps) /\ ~obs[o].active /\ Ready(o)
<1>1. FeedbackTypes /\ stop \in [Threads -> Stops]
  BY DEF FeedbackInv, FeedbackTypes
<1>2. stop[t].at \in StopSteps
  BY DEF StopClear, StopCheck, StopPost, StopDone, StopGivesUp, StopRelease, StopLook,
         StopAbandon, Stopping, StopSteps
<1>3. PICK o \in Observers : o = stop[t].obs
  BY <1>1, <1>2, StopperOf
<1>4. DrainOk(o) /\ StopOk(o) /\ StopAt(t, o, StopSteps)
  BY <1>2, <1>3 DEF FeedbackInv, StopAt
<1>5. note' = note /\ reactor' = reactor /\ session' = session
  BY DEF StopClear, StopCheck, StopPost, StopDone, StopGivesUp, StopRelease, StopLook, StopAbandon
<1>6. \A u \in Threads \ {t} : stop'[u] = stop[u]
  BY <1>1 DEF StopClear, StopCheck, StopPost, StopDone, StopGivesUp, StopRelease, StopLook,
              StopAbandon, Step, Finished
<1>7. /\ \A u \in Threads \ {t} : \A S \in SUBSET StopSteps : ~StopAt(u, o, S)
      /\ ~obs[o].active /\ Ready(o)
  BY <1>4, OneStopper
<1>8. \A u \in Threads \ {t} : \A S \in SUBSET StopSteps : ~StopAt(u, o, S)'
  BY <1>6, <1>7 DEF StopAt
<1>9. stop[t] \in [at : StopSteps, obs : Observers, todo : SUBSET Observers]
  BY <1>1, <1>2, StopperOf
<1>10. stop'[t].at = "none" \/ stop'[t].obs = o
  BY <1>1, <1>3, <1>9
     DEF StopClear, StopCheck, StopPost, StopDone, StopGivesUp, StopRelease, StopLook,
         StopAbandon, Step, Finished
<1> QED
  BY <1>1, <1>3, <1>4, <1>5, <1>6, <1>7, <1>8, <1>10


\* What a later step of stop() has to see to.
LEMMA StopMoved ==
    ASSUME NEW o \in Observers, NEW t \in Threads, StopOk(o), ~obs'[o].active, Ready(o)',
           \A u \in Threads \ {t} : \A S \in SUBSET StopSteps : ~StopAt(u, o, S)',
           StopAt(t, o, StopSteps)' => obs'[o].holder = t,
           StopAt(t, o, {"clear", "check", "post"})' => Untouched(o)',
           StopAt(t, o, {"clear", "check", "post", "wait"})' /\ obs'[o].cleaned = "no"
             => obs'[o].shown \subseteq obs'[o].owned,
           Once(tasks', CleanupOf(o)),
           session'.alive /\ Contains(tasks', CleanupOf(o)) =>
             obs'[o].cleaned = "no" /\ StopAt(t, o, {"wait"})',
           reactor' = reactor, obs'[o].cleaned = obs[o].cleaned, obs'[o].shown = obs[o].shown,
           obs'[o].clean => obs[o].clean \/ obs[o].cleaned = "ok",
           InLook(o) => CleanupsKept(o) /\ ~StopAt(t, o, {"clear", "check", "post"})'
    PROVE  StopOk(o)'
<1>1. \A u \in Threads \ {t} : /\ ~StopAt(u, o, {"clear", "check", "post"})'
                               /\ ~StopAt(u, o, {"clear", "check", "post", "wait"})'
                               /\ ~StopAt(u, o, StopSteps)'
  BY StepSets
<1>2. OnIt(o)' <=> OnIt(o)
  BY DEF OnIt
<1>3. /\ obs[o].cleaned # "no" => ~OnIt(o)
      /\ obs[o].cleaned = "ok" => obs[o].shown = {}
      /\ obs[o].clean => obs[o].cleaned = "ok"
  BY DEF StopOk
<1>4. InLook(o)' <=> InLook(o)
  BY DEF InLook, OnIt
<1>5. InLook(o) => LookOk(o)'
  BY <1>1 DEF StopOk, LookOk, Untouched, CleanupsKept
<1> QED
  BY <1>1, <1>2, <1>3, <1>4, <1>5 DEF StopOk

\* The cleanup that is about to post its look has been queued, and is out of the queue.
LEMMA NotYetLooking ==
    ASSUME NEW o \in Observers, NEW t \in Threads, StopOk(o),
           StopAt(t, o, {"clear", "check", "post"})
    PROVE  ~InLook(o)
BY DEF StopOk, LookOk

LEMMA StopClearStep == ASSUME FeedbackInv, NEW t \in Threads, StopClear(t) PROVE ObserversOk'
<1>1. PICK o \in Observers :
        /\ o = stop[t].obs /\ FeedbackTypes /\ DrainOk(o) /\ StopOk(o)
        /\ note' = note /\ reactor' = reactor /\ session' = session
        /\ \A u \in Threads \ {t} : stop'[u] = stop[u]
        /\ \A u \in Threads \ {t} : \A S \in SUBSET StopSteps : ~StopAt(u, o, S)'
        /\ stop'[t].at = "none" \/ stop'[t].obs = o
        /\ StopAt(t, o, StopSteps) /\ ~obs[o].active /\ Ready(o)
  BY InStop
<1>2. Only(o, {"queued"})
  BY <1>1, StopClearDoes
<1>3. /\ obs'[o].phase = obs[o].phase /\ obs'[o].scheduled = obs[o].scheduled
      /\ obs'[o].active = obs[o].active /\ obs'[o].holder = obs[o].holder
      /\ obs'[o].owned = obs[o].owned /\ obs'[o].shown = obs[o].shown
      /\ obs'[o].cleaned = obs[o].cleaned /\ obs'[o].clean = obs[o].clean
  BY <1>2 DEF Only, Fields
<1>4. tasks' = tasks /\ stop[t].at = "clear"
  BY DEF StopClear, Stopping
<1>5. \A p \in Observers : TasksKept(p)
  BY <1>4 DEF TasksKept, CleanupsKept
<1>6. Aside(o)
  BY <1>1, <1>5, StopAside
<1>7. StopAt(t, o, {"clear", "check", "post"}) /\ StopAt(t, o, {"clear", "check", "post", "wait"})
  BY <1>1, <1>4 DEF StopAt
<1>a. ~InLook(o)
  BY <1>1, <1>7, NotYetLooking
<1>8. obs[o].holder = t /\ Untouched(o) /\ obs[o].shown \subseteq obs[o].owned
  BY <1>1, <1>7, <1>a DEF StopOk, Untouched
<1>9. Ready(o)' /\ Untouched(o)' /\ Once(tasks', CleanupOf(o))
  BY <1>1, <1>3, <1>4, <1>8 DEF Ready, Untouched, StopOk
<1>10. StopOk(o)'
  BY <1>1, <1>3, <1>8, <1>9, <1>a, StopMoved DEF Untouched
<1>11. DrainOk(o)'
  BY <1>1, <1>3, <1>9, NoDrainDue
<1> QED
  BY <1>2, <1>6, <1>10, <1>11, AboutOne

LEMMA StopPostStep ==
    ASSUME FeedbackInv, NEW t \in Threads, StopCheck(t) \/ StopPost(t)
    PROVE  ObserversOk'
<1>1. PICK o \in Observers :
        /\ o = stop[t].obs /\ FeedbackTypes /\ DrainOk(o) /\ StopOk(o)
        /\ note' = note /\ reactor' = reactor /\ session' = session
        /\ \A u \in Threads \ {t} : stop'[u] = stop[u]
        /\ \A u \in Threads \ {t} : \A S \in SUBSET StopSteps : ~StopAt(u, o, S)'
        /\ stop'[t].at = "none" \/ stop'[t].obs = o
        /\ StopAt(t, o, StopSteps) /\ ~obs[o].active /\ Ready(o)
  BY InStop
<1>2. obs' = obs /\ Only(o, {})
  BY <1>1 DEF StopCheck, StopPost, Only, FeedbackTypes
<1>3. stop[t].at \in {"check", "post"} /\ tasks \in Seq(Tasks) /\ stop[t] \in Stops
      /\ stop \in [Threads -> Stops]
  BY <1>1 DEF StopCheck, StopPost, Stopping, FeedbackTypes
<1>4. StopAt(t, o, {"clear", "check", "post"}) /\ StopAt(t, o, {"clear", "check", "post", "wait"})
  BY <1>1, <1>3 DEF StopAt
<1>a. ~InLook(o)
  BY <1>1, <1>4, NotYetLooking
<1>5. obs[o].holder = t /\ Untouched(o) /\ obs[o].shown \subseteq obs[o].owned
      /\ Once(tasks, CleanupOf(o))
  BY <1>1, <1>4, <1>a DEF StopOk, Untouched
<1>6. Ready(o)'
  BY <1>1, <1>2 DEF Ready
<1>7. DrainOk(o)'
  BY <1>1, <1>2, <1>6, NoDrainDue
<1>8. CASE StopCheck(t)
  <2>1. tasks' = tasks
    BY <1>8 DEF StopCheck
  <2>2. \A p \in Observers : TasksKept(p)
    BY <2>1 DEF TasksKept, CleanupsKept
  <2>3. Untouched(o)'
    BY <1>2, <1>5, <2>1 DEF Untouched
  <2>4. StopOk(o)'
    BY <1>1, <1>2, <1>5, <1>6, <1>a, <2>1, <2>3, StopMoved DEF Untouched
  <2>5. Aside(o)
    BY <1>1, <2>2, StopAside
  <2> QED
    BY <1>2, <1>7, <2>4, <2>5, AboutOne
<1>9. CASE StopPost(t)
  <2>1. tasks' = Append(tasks, CleanupOf(o)) /\ stop'[t].at = "wait"
    BY <1>1, <1>3, <1>9 DEF StopPost, CleanupOf, Step, Stops, Stopping
  <2>2. ASSUME NEW p \in Observers \ {o} PROVE TasksKept(p)
    BY <1>3, <2>1, KindsApart, TasksOther
  <2>3. StopAt(t, o, {"wait"})' /\ ~StopAt(t, o, {"clear", "check", "post"})'
    BY <1>1, <2>1 DEF StopAt
  <2>4. Once(tasks', CleanupOf(o))
    BY <1>3, <1>5, <2>1, KindsApart, Joined DEF Untouched
  <2>5. StopOk(o)'
    BY <1>1, <1>2, <1>5, <1>6, <1>a, <2>3, <2>4, StopMoved DEF Untouched
  <2>6. Aside(o)
    BY <1>1, <2>2, StopAside
  <2> QED
    BY <1>2, <1>7, <2>5, <2>6, AboutOne
<1> QED
  BY <1>8, <1>9

LEMMA StopDoneStep == ASSUME FeedbackInv, NEW t \in Threads, StopDone(t) PROVE ObserversOk'
<1>1. PICK o \in Observers :
        /\ o = stop[t].obs /\ FeedbackTypes /\ DrainOk(o) /\ StopOk(o)
        /\ note' = note /\ reactor' = reactor /\ session' = session
        /\ \A u \in Threads \ {t} : stop'[u] = stop[u]
        /\ \A u \in Threads \ {t} : \A S \in SUBSET StopSteps : ~StopAt(u, o, S)'
        /\ stop'[t].at = "none" \/ stop'[t].obs = o
        /\ StopAt(t, o, StopSteps) /\ ~obs[o].active /\ Ready(o)
  BY InStop
<1>2. Only(o, {"holder", "clean"})
  BY <1>1, StopDoneDoes
<1>3. /\ obs'[o].phase = obs[o].phase /\ obs'[o].scheduled = obs[o].scheduled
      /\ obs'[o].active = obs[o].active /\ obs'[o].owned = obs[o].owned
      /\ obs'[o].shown = obs[o].shown /\ obs'[o].cleaned = obs[o].cleaned
  BY <1>2 DEF Only, Fields
<1>4. tasks' = tasks /\ obs[o].cleaned = "ok" /\ stop'[t].at = "none"
  BY <1>1 DEF StopDone, Finished, FeedbackTypes
<1>5. \A p \in Observers : TasksKept(p)
  BY <1>4 DEF TasksKept, CleanupsKept
<1>6. Aside(o)
  BY <1>1, <1>5, StopAside
<1>7. \A S \in SUBSET StopSteps : ~StopAt(t, o, S)'
  BY <1>4 DEF StopAt, StopSteps
<1>8. /\ ~StopAt(t, o, {"clear", "check", "post"})'
      /\ ~StopAt(t, o, {"clear", "check", "post", "wait"})' /\ ~StopAt(t, o, StopSteps)'
  BY <1>7, StepSets
<1>9. Ready(o)' /\ Once(tasks', CleanupOf(o)) /\ ~(session'.alive /\ Contains(tasks', CleanupOf(o)))
  BY <1>1, <1>3, <1>4 DEF Ready, StopOk
<1>10. StopOk(o)'
  BY <1>1, <1>3, <1>4, <1>5, <1>8, <1>9, StopMoved DEF TasksKept
<1>11. DrainOk(o)'
  BY <1>1, <1>3, <1>9, NoDrainDue
<1> QED
  BY <1>2, <1>6, <1>10, <1>11, AboutOne

LEMMA StopGivesUpStep == ASSUME FeedbackInv, NEW t \in Threads, StopGivesUp(t) PROVE ObserversOk'
<1>1. PICK o \in Observers :
        /\ o = stop[t].obs /\ FeedbackTypes /\ DrainOk(o) /\ StopOk(o)
        /\ note' = note /\ reactor' = reactor /\ session' = session
        /\ \A u \in Threads \ {t} : stop'[u] = stop[u]
        /\ \A u \in Threads \ {t} : \A S \in SUBSET StopSteps : ~StopAt(u, o, S)'
        /\ stop'[t].at = "none" \/ stop'[t].obs = o
        /\ StopAt(t, o, StopSteps) /\ ~obs[o].active /\ Ready(o)
  BY InStop
<1>2. obs' = obs /\ Only(o, {})
  BY <1>1 DEF StopGivesUp, Only, FeedbackTypes
<1>3. tasks' = tasks /\ (obs[o].cleaned = "error" \/ ~session.alive)
  BY <1>1 DEF StopGivesUp
<1>4. stop[t] \in Stops /\ stop \in [Threads -> Stops]
  BY <1>1 DEF FeedbackTypes
<1>5. stop'[t].at = "failed"
  BY <1>4 DEF StopGivesUp, Step, Stops, Stopping
<1>6. \A p \in Observers : TasksKept(p)
  BY <1>3 DEF TasksKept, CleanupsKept
<1>7. Aside(o)
  BY <1>1, <1>6, StopAside
<1>8. /\ ~StopAt(t, o, {"clear", "check", "post"})'
      /\ ~StopAt(t, o, {"clear", "check", "post", "wait"})'
  BY <1>5 DEF StopAt
<1>9. Ready(o)' /\ Once(tasks', CleanupOf(o)) /\ ~(session'.alive /\ Contains(tasks', CleanupOf(o)))
  BY <1>1, <1>2, <1>3 DEF Ready, StopOk
<1>10. obs[o].holder = t
  BY <1>1 DEF StopOk
<1>11. StopOk(o)'
  BY <1>1, <1>2, <1>6, <1>8, <1>9, <1>10, StopMoved DEF TasksKept
<1>12. DrainOk(o)'
  BY <1>1, <1>2, <1>9, NoDrainDue
<1> QED
  BY <1>2, <1>7, <1>11, <1>12, AboutOne

LEMMA StopFailedStep ==
    ASSUME FeedbackInv, NEW t \in Threads, StopRelease(t) \/ StopLook(t) \/ StopAbandon(t)
    PROVE  ObserversOk'
<1>1. PICK o \in Observers :
        /\ o = stop[t].obs /\ FeedbackTypes /\ DrainOk(o) /\ StopOk(o)
        /\ note' = note /\ reactor' = reactor /\ session' = session
        /\ \A u \in Threads \ {t} : stop'[u] = stop[u]
        /\ \A u \in Threads \ {t} : \A S \in SUBSET StopSteps : ~StopAt(u, o, S)'
        /\ \A u \in Threads \ {t} : \A S \in SUBSET StopSteps : ~StopAt(u, o, S)
        /\ stop'[t].at = "none" \/ stop'[t].obs = o
        /\ StopAt(t, o, StopSteps) /\ ~obs[o].active /\ Ready(o)
  BY InStop
<1>a. tasks \in Seq(Tasks) /\ stop[t] \in Stops /\ stop \in [Threads -> Stops]
  BY <1>1 DEF FeedbackTypes
<1>2. Only(o, {"holder", "owned"}) /\ (stop'[t].at = "none" \/ obs'[o].holder = obs[o].holder)
  <2>1. CASE StopRelease(t)
    BY <1>1, <2>1, StopReleaseDoes DEF Only, Fields
  <2>2. CASE StopLook(t)
    BY <1>1, <2>2 DEF StopLook, Only, FeedbackTypes
  <2>3. CASE StopAbandon(t)
    BY <1>1, <1>a, <2>3, StopAbandonDoes DEF StopAbandon, Finished
  <2> QED
    BY <2>1, <2>2, <2>3
<1>3. /\ obs'[o].phase = obs[o].phase /\ obs'[o].scheduled = obs[o].scheduled
      /\ obs'[o].active = obs[o].active /\ obs'[o].clean = obs[o].clean
      /\ obs'[o].shown = obs[o].shown /\ obs'[o].cleaned = obs[o].cleaned
  BY <1>2 DEF Only, Fields
<1>4. stop[t].at \in {"failed", "look", "abandon"} /\ stop'[t].at \in {"look", "abandon", "none"}
  BY <1>a DEF StopRelease, StopLook, StopAbandon, Step, Finished, Stopping, Stops
<1>5. tasks' = tasks \/ tasks' = Append(tasks, DrainOf(o)) \/ tasks' = Append(tasks, <<"unused">>)
  BY <1>1, Released DEF StopRelease, StopLook, StopAbandon
<1>6. \A p \in Observers : TasksKept(p)
  BY <1>a, <1>5, TasksAbout
<1>7. Aside(o)
  BY <1>1, <1>6, StopAside
<1>8. /\ ~StopAt(t, o, {"clear", "check", "post"})'
      /\ ~StopAt(t, o, {"clear", "check", "post", "wait"})'
      /\ StopAt(t, o, StopSteps)' => obs'[o].holder = obs[o].holder
  BY <1>2, <1>4 DEF StopAt, StopSteps
<1>9. obs[o].holder = t
  BY <1>1 DEF StopOk
<1>10. \A u \in Threads : ~StopAt(u, o, {"wait"})
  <2>1. ~StopAt(t, o, {"wait"})
    BY <1>4 DEF StopAt
  <2>2. \A u \in Threads \ {t} : ~StopAt(u, o, {"wait"})
    BY <1>1, StepSets
  <2> QED
    BY <2>1, <2>2
<1>11. ~(session.alive /\ Contains(tasks, CleanupOf(o))) /\ Once(tasks, CleanupOf(o))
  BY <1>1, <1>10 DEF StopOk
<1>12. Ready(o)' /\ Once(tasks', CleanupOf(o)) /\ ~(session'.alive /\ Contains(tasks', CleanupOf(o)))
  BY <1>1, <1>3, <1>6, <1>11 DEF Ready, TasksKept, CleanupsKept
<1>13. StopOk(o)'
  BY <1>1, <1>3, <1>6, <1>8, <1>9, <1>12, StopMoved DEF TasksKept
<1>14. DrainOk(o)'
  BY <1>1, <1>3, <1>12, NoDrainDue
<1> QED
  BY <1>2, <1>7, <1>13, <1>14, AboutOne

LEMMA DropHandleStep == ASSUME FeedbackInv, NEW o \in Observers, DropHandle(o) PROVE ObserversOk'
<1>1. FeedbackTypes /\ DrainOk(o) /\ StopOk(o)
  BY DEF FeedbackInv
<1>2. /\ note' = note /\ reactor' = reactor /\ session' = session /\ tasks' = tasks
      /\ obs[o].phase = "running" /\ stop[o] = NoStop /\ o \in Threads
      /\ stop' = [stop EXCEPT ![o].todo = {o}] /\ stop \in [Threads -> Stops]
  BY <1>1 DEF DropHandle, FeedbackTypes, Threads
<1>3. stop[o].at = "none" /\ stop'[o].at = "none" /\ \A u \in Threads \ {o} : stop'[u] = stop[u]
  BY <1>2 DEF NoStop
<1>4. \A p \in Observers : TasksKept(p) /\ CleanupsKept(p) /\ StopsKept(p) /\ ReactorKept(p)
  BY <1>2, <1>3 DEF TasksKept, CleanupsKept, StopsKept, StopAt, StopSteps, ReactorKept
<1>5. Aside(o)
  BY <1>2, <1>4 DEF Aside
<1>6. Only(o, {"phase"}) /\ obs'[o].phase = "gone"
  BY <1>1, DropHandleDoes
<1>7. PhaseKept(o)
  BY <1>2, <1>6 DEF PhaseKept, Ready
<1>8. /\ \A f \in {"active", "owned", "shown", "holder", "cleaned", "clean"} : obs'[o][f] = obs[o][f]
      /\ \A f \in {"active", "scheduled", "queued"} : obs'[o][f] = obs[o][f]
  BY <1>6 DEF Only, Fields
<1>9. StopOk(o)'
  BY <1>1, <1>2, <1>4, <1>7, <1>8, StopSame
<1>10. DrainOk(o)'
  BY <1>1, <1>2, <1>4, <1>7, <1>8, DrainSame
<1> QED
  BY <1>5, <1>6, <1>9, <1>10, AboutOne

\* Closing the overlay takes every shape off it.
LEMMA CloseOverlayStep ==
    ASSUME FeedbackInv, NEW c \in Closers, CloseOverlay(c)
    PROVE  ObserversOk'
<1>1. FeedbackTypes /\ tasks \in Seq(Tasks)
  BY DEF FeedbackInv, FeedbackTypes
<1>2. /\ note' = note /\ reactor' = reactor /\ session' = session /\ stop' = stop
      /\ tasks # <<>> /\ Head(tasks) = <<"close">> /\ tasks' = Tail(tasks)
  BY DEF CloseOverlay
<1>3. ASSUME NEW o \in Observers PROVE DrainOk(o)' /\ StopOk(o)'
  <2>1. DrainOk(o) /\ StopOk(o)
    BY DEF FeedbackInv
  <2>2. (\A f \in Fields \ {"shown"} : obs'[o][f] = obs[o][f]) /\ obs'[o].shown = {}
    BY <1>1, CloseOverlayDoes
  <2>3. TasksKept(o)
    BY <1>1, <1>2, KindsApart, TasksOther
  <2>4. CleanupsKept(o) /\ ReactorKept(o)
    BY <1>2, <2>3 DEF TasksKept, ReactorKept
  <2>5. PhaseKept(o) /\ \A f \in {"active", "scheduled", "queued"} : obs'[o][f] = obs[o][f]
    BY <2>2 DEF Fields, PhaseKept, Ready
  <2>6. DrainOk(o)'
    BY <1>2, <2>1, <2>3, <2>4, <2>5, DrainSame
  <2>7. /\ obs'[o].active = obs[o].active /\ obs'[o].holder = obs[o].holder
        /\ obs'[o].cleaned = obs[o].cleaned /\ obs'[o].clean = obs[o].clean
        /\ obs'[o].phase = obs[o].phase
    BY <2>2 DEF Fields
  <2>8. /\ (Ready(o)' <=> Ready(o)) /\ (Untouched(o)' <=> Untouched(o)) /\ (OnIt(o)' <=> OnIt(o))
        /\ InLook(o)' <=> InLook(o)
    BY <1>2, <2>4, <2>7 DEF Ready, Untouched, CleanupsKept, OnIt, InLook
  <2>9. \A t \in Threads : \A S \in SUBSET StopSteps : StopAt(t, o, S)' <=> StopAt(t, o, S)
    BY <1>2 DEF StopAt
  <2>a. InLook(o) => LookOk(o)'
    BY <1>2, <2>1, <2>2, <2>7, <2>8, <2>9, StepSets DEF StopOk, LookOk
  <2>10. StopOk(o)'
    BY <1>2, <2>1, <2>2, <2>4, <2>7, <2>8, <2>9, <2>a, StepSets DEF StopOk, CleanupsKept
  <2> QED
    BY <2>6, <2>10
<1> QED
  BY <1>3 DEF ObserversOk


-----------------------------------------------------------------------------
(* The observation that the feedbacks share. *)

\* Closers that have got past open_.
ClosersPast == \A c \in Closers : close[c] \in {"overlay", "stop"} => ~session.open

\* The task that looks whether observation is still wanted stays queued.
Look    == <<"unused">>
Closing == <<"close">>

LEMMA LookApart ==
    /\ Look \in Tasks /\ Closing \in Tasks /\ Look # Closing
    /\ \A o \in Observers : Look # DrainOf(o) /\ Look # CleanupOf(o)
BY TaskKinds, KindsApart DEF Look, Closing

LEMMA LookKept ==
    ASSUME NEW q \in Seq(Tasks), NEW r, Contains(q, Look),
           \/ r = q
           \/ \E x \in Tasks : r = Append(q, x)
           \/ q # <<>> /\ r = Tail(q) /\ Head(q) # Look
    PROVE  Contains(r, Look)
<1>1. CASE \E x \in Tasks : r = Append(q, x)
  BY <1>1, Joined
<1>2. CASE q # <<>> /\ r = Tail(q) /\ Head(q) # Look
  BY <1>2, Taken
<1> QED
  BY <1>1, <1>2

\* Who has given up a share and owes a look keeps owing it until it posts it.
LEMMA PhasesHeld ==
    ASSUME FeedbackTypes, Next, NEW p \in Observers, obs[p].phase = "release"
    PROVE  obs'[p].phase = "release" \/ StartLook(p)
<1>1. ASSUME NEW o \in Observers, NEW F, Only(o, F), "phase" \notin F PROVE obs'[p].phase = "release"
  BY <1>1 DEF Only, Fields
<1>2. ASSUME NEW o \in Observers, NEW F, Only(o, F), obs[o].phase # "release"
      PROVE  obs'[p].phase = "release"
  BY <1>2 DEF Only
<1>3. CASE StartManual \/ StopManual \/ StopUnused
  BY <1>3 DEF StartManual, StopManual, StopUnused
<1>4. CASE Publish
  BY <1>4, PublishDoes DEF Fields
<1>5. ASSUME NEW o \in Observers, StartAcquire(o) PROVE obs'[p].phase = "release"
  BY <1>2, <1>5, StartAcquireDoes DEF StartAcquire
<1>6. ASSUME NEW o \in Observers, StartSubscribe(o) PROVE obs'[p].phase = "release"
  BY <1>2, <1>6, StartSubscribeDoes DEF StartSubscribe
<1>7. ASSUME NEW o \in Observers, StartArm(o) PROVE obs'[p].phase = "release"
  BY <1>2, <1>7, StartArmDoes DEF StartArm
<1>8. ASSUME NEW o \in Observers, StartFails(o) PROVE obs'[p].phase = "release"
  BY <1>2, <1>8, StartFailsDoes DEF StartFails, Installed
<1>9. ASSUME NEW o \in Observers, StartLook(o), o # p PROVE obs'[p].phase = "release"
  BY <1>9, StartLookDoes DEF Only
<1>10. ASSUME NEW o \in Observers, StartActivate(o) PROVE obs'[p].phase = "release"
  BY <1>2, <1>10, StartActivateDoes DEF StartActivate
<1>11. ASSUME NEW o \in Observers, DropHandle(o) PROVE obs'[p].phase = "release"
  BY <1>2, <1>11, DropHandleDoes DEF DropHandle
<1>12. ASSUME NEW o \in Observers, NotifyLoad(o) \/ NotifyCas(o) \/ NotifyPost(o)
       PROVE  obs'[p].phase = "release"
  BY <1>1, <1>12, NotifyCasDoes, NotifyPostDoes DEF NotifyLoad
<1>13. ASSUME NEW o \in Observers, Expire(o) \/ TimerFires(o) PROVE obs'[p].phase = "release"
  BY <1>1, <1>13, ExpireDoes, TimerFiresDoes
<1>14. ASSUME NEW o \in Observers, TimerAdvance(o) \/ DrainConsume(o) \/ DrainRaced(o)
       PROVE  obs'[p].phase = "release"
  BY <1>1, <1>14, PresentDoes
<1>15. ASSUME NEW o \in Observers,
              \/ DrainBegin(o) \/ DrainInner(o) \/ DrainRelease(o) \/ DrainRecheck(o)
              \/ DrainClaim(o)
       PROVE  obs'[p].phase = "release"
  BY <1>1, <1>15, DrainBeginDoes, PoppedDoes, DrainReleaseDoes, DrainClaimDoes
<1>16. ASSUME NEW o \in Observers, Cleanup(o) \/ CleanupLook(o) PROVE obs'[p].phase = "release"
  BY <1>1, <1>16, CleanupDoes, CleanupLookDoes
<1>17. ASSUME NEW t \in Threads, NEW o \in Observers, StopLock(t, o)
       PROVE  obs'[p].phase = "release"
  BY <1>1, <1>17, StopLockDoes
<1>18. ASSUME NEW t \in Threads,
              StopClear(t) \/ StopDone(t) \/ StopRelease(t) \/ StopAbandon(t)
       PROVE  obs'[p].phase = "release"
  BY <1>1, <1>18, StopClearDoes, StopDoneDoes, StopReleaseDoes, StopAbandonDoes
<1>19. ASSUME NEW t \in Threads,
              StopCheck(t) \/ StopPost(t) \/ StopGivesUp(t) \/ StopLook(t)
       PROVE  obs'[p].phase = "release"
  BY <1>19 DEF StopCheck, StopPost, StopGivesUp, StopLook
<1>20. ASSUME NEW c \in Closers,
              CloseFeedback(c) \/ CloseFacade(c) \/ CloseSession(c) \/ CloseReactor(c)
       PROVE  obs'[p].phase = "release"
  BY <1>20 DEF CloseFeedback, CloseFacade, CloseSession, CloseReactor
<1>21. ASSUME NEW c \in Closers, CloseOverlay(c) PROVE obs'[p].phase = "release"
  BY <1>21, CloseOverlayDoes DEF Fields
<1> QED
  BY <1>3, <1>4, <1>5, <1>6, <1>7, <1>8, <1>9, <1>10, <1>11, <1>12, <1>13, <1>14, <1>15,
     <1>16, <1>17, <1>18, <1>19, <1>20, <1>21
  DEF Next

LEMMA StopLooksHeld ==
    ASSUME FeedbackTypes, Next, NEW u \in Threads, stop[u].at = "look"
    PROVE  stop'[u].at = "look" \/ StopLook(u)
<1>1. stop \in [Threads -> Stops] /\ stop[u] \in Stops
  BY DEF FeedbackTypes
<1>2. CASE stop' = stop
  BY <1>2
<1>3. ASSUME NEW o \in Observers, DropHandle(o) PROVE stop'[u].at = "look"
  BY <1>1, <1>3 DEF DropHandle, NoStop
<1>4. ASSUME NEW t \in Threads, NEW o \in Observers, StopLock(t, o) PROVE stop'[u].at = "look"
  BY <1>1, <1>4 DEF StopLock, Stopping
<1>5. ASSUME NEW t \in Threads,
             StopClear(t) \/ StopCheck(t) \/ StopPost(t) \/ StopGivesUp(t) \/ StopRelease(t)
      PROVE  stop'[u].at = "look"
  BY <1>1, <1>5 DEF StopClear, StopCheck, StopPost, StopGivesUp, StopRelease, Stopping, Step
<1>6. ASSUME NEW t \in Threads, StopDone(t) \/ StopAbandon(t) PROVE stop'[u].at = "look"
  BY <1>1, <1>6 DEF StopDone, StopAbandon, Stopping, Finished
<1>7. ASSUME NEW t \in Threads, StopLook(t), t # u PROVE stop'[u].at = "look"
  BY <1>1, <1>7 DEF StopLook, Step
<1>8. ASSUME NEW c \in Closers, CloseFeedback(c) PROVE stop'[u].at = "look"
  <2>1. stop' = [stop EXCEPT ![c].todo = session.feedback] /\ c \in Threads
    BY <1>8 DEF CloseFeedback, Threads
  <2> QED
    BY <1>1, <2>1 DEF Stops
<1>9. ASSUME NEW o \in Observers,
             \/ StartAcquire(o) \/ StartSubscribe(o) \/ StartArm(o) \/ StartFails(o)
             \/ StartLook(o) \/ StartActivate(o) \/ NotifyLoad(o) \/ NotifyCas(o) \/ NotifyPost(o)
             \/ Expire(o) \/ TimerFires(o) \/ TimerAdvance(o) \/ DrainBegin(o) \/ DrainInner(o)
             \/ DrainConsume(o) \/ DrainRelease(o) \/ DrainRecheck(o) \/ DrainClaim(o)
             \/ DrainRaced(o) \/ Cleanup(o) \/ CleanupLook(o)
      PROVE  stop' = stop
  BY <1>9 DEF StartAcquire, StartSubscribe, StartArm, StartFails, StartLook, StartActivate,
              NotifyLoad, NotifyCas, NotifyPost, Expire, TimerFires, TimerAdvance, DrainBegin,
              DrainInner, DrainConsume, DrainRelease, DrainRecheck, DrainClaim, DrainRaced,
              Cleanup, CleanupLook
<1>10. ASSUME StartManual \/ StopManual \/ StopUnused \/ Publish PROVE stop' = stop
  BY <1>10 DEF StartManual, StopManual, StopUnused, Publish
<1>11. ASSUME NEW c \in Closers,
              CloseFacade(c) \/ CloseSession(c) \/ CloseOverlay(c) \/ CloseReactor(c)
       PROVE  stop' = stop
  BY <1>11 DEF CloseFacade, CloseSession, CloseOverlay, CloseReactor
<1> QED
  BY <1>2, <1>3, <1>4, <1>5, <1>6, <1>7, <1>8, <1>9, <1>10, <1>11 DEF Next

LEMMA ReactorLooksHeld ==
    ASSUME FeedbackTypes, Next, reactor.at \in Looks
    PROVE  reactor' = reactor \/ \E o \in Observers : CleanupLook(o)
<1>1. reactor # Idle /\ reactor.at \notin DrainSteps
  BY DEF Idle, Looks, DrainSteps
<1>2. \A step \in DrainSteps : \A o \in Observers : ~At(step, o)
  BY <1>1 DEF At
<1>3. ASSUME NEW o \in Observers,
             \/ DrainBegin(o) \/ DrainInner(o) \/ DrainConsume(o) \/ DrainRelease(o)
             \/ DrainRecheck(o) \/ DrainClaim(o) \/ DrainRaced(o) \/ TimerFires(o)
             \/ TimerAdvance(o) \/ Cleanup(o)
      PROVE  FALSE
  <2>1. \E step \in DrainSteps : At(step, o)
    BY <1>1, <1>3 DEF DrainBegin, DrainInner, DrainConsume, DrainRelease, DrainRecheck, DrainClaim,
                      DrainRaced, TimerFires, TimerAdvance, Cleanup, DrainSteps
  <2> QED
    BY <1>2, <2>1
<1>4. ASSUME NEW o \in Observers,
             \/ StartAcquire(o) \/ StartSubscribe(o) \/ StartArm(o) \/ StartFails(o)
             \/ StartLook(o) \/ StartActivate(o) \/ DropHandle(o)
             \/ NotifyLoad(o) \/ NotifyCas(o) \/ NotifyPost(o) \/ Expire(o)
      PROVE  reactor' = reactor
  BY <1>4 DEF StartAcquire, StartSubscribe, StartArm, StartFails, StartLook, StartActivate,
              DropHandle, NotifyLoad, NotifyCas, NotifyPost, Expire
<1>5. ASSUME NEW t \in Threads,
             \/ \E o \in Observers : StopLock(t, o)
             \/ StopClear(t) \/ StopCheck(t) \/ StopPost(t) \/ StopDone(t) \/ StopGivesUp(t)
             \/ StopRelease(t) \/ StopLook(t) \/ StopAbandon(t)
      PROVE  reactor' = reactor
  BY <1>5 DEF StopLock, StopClear, StopCheck, StopPost, StopDone, StopGivesUp, StopRelease,
              StopLook, StopAbandon
<1>6. ASSUME StartManual \/ StopManual \/ StopUnused \/ Publish PROVE reactor' = reactor
  BY <1>6 DEF StartManual, StopManual, StopUnused, Publish
<1>7. ASSUME NEW c \in Closers,
             \/ CloseFeedback(c) \/ CloseFacade(c) \/ CloseSession(c) \/ CloseOverlay(c)
             \/ CloseReactor(c)
       PROVE  reactor' = reactor
  BY <1>7 DEF CloseFeedback, CloseFacade, CloseSession, CloseOverlay, CloseReactor
<1> QED
  BY <1>3, <1>4, <1>5, <1>6, <1>7 DEF Next

LEMMA StillReleasing ==
    ASSUME FeedbackTypes, Next, session.open, Releasing
    PROVE  Releasing' \/ Contains(tasks', Look)
<1>1. tasks \in Seq(Tasks)
  BY DEF FeedbackTypes
<1>2. ASSUME PostLook PROVE Contains(tasks', Look)
  BY <1>1, <1>2, LookApart, Joined DEF PostLook, Look
<1>3. ASSUME NEW o \in Observers, obs[o].phase = "release"
      PROVE  Releasing' \/ Contains(tasks', Look)
  BY <1>2, <1>3, PhasesHeld DEF StartLook, Releasing
<1>4. ASSUME NEW t \in Threads, stop[t].at = "look" PROVE Releasing' \/ Contains(tasks', Look)
  BY <1>2, <1>4, StopLooksHeld DEF StopLook, Releasing, Stopping
<1>5. ASSUME reactor.at \in Looks PROVE Releasing' \/ Contains(tasks', Look)
  BY <1>2, <1>5, ReactorLooksHeld DEF CleanupLook, Releasing
<1> QED
  BY <1>3, <1>4, <1>5 DEF Releasing, Stopping

\* A step that leaves the counts alone takes no look out of the queue.
LEMMA WatchSame ==
    ASSUME WatchOk, ClosersPast', session'.open => session.open, watch' = watch,
           session.open /\ Releasing => Releasing' \/ Contains(tasks', Look),
           Contains(tasks, Look) => Contains(tasks', Look)
    PROVE  WatchOk'
BY DEF WatchOk, ClosersPast, Look

\* The last one out owes a look.
LEMMA OneOutWatch ==
    ASSUME FeedbackTypes, WatchOk, watch' = OneOut, session'.open = session.open, close' = close,
           Contains(tasks, Look) => Contains(tasks', Look),
           session.open /\ Releasing => Releasing' \/ Contains(tasks', Look),
           LastOut => Releasing'
    PROVE  WatchOk'
<1>1. watch.count \in Nat /\ watch.manual \in BOOLEAN /\ watch.pump \in BOOLEAN
  BY DEF FeedbackTypes, Watch
<1>2. /\ watch'.manual = watch.manual /\ watch'.pump = watch.pump
      /\ watch'.count = IF watch.count = 0 THEN 0 ELSE watch.count - 1
  BY DEF OneOut, FeedbackTypes, Watch
<1>3. \A c \in Closers : close'[c] \in {"overlay", "stop"} => ~session'.open
  BY DEF WatchOk
<1>4. ASSUME session.open
      PROVE  /\ watch'.manual \/ watch'.count > 0 => watch'.pump
             /\ watch'.pump =>
                   watch'.manual \/ watch'.count > 0 \/ Releasing' \/ Contains(tasks', Look)
  BY <1>1, <1>2, <1>4 DEF WatchOk, LastOut, Look
<1> QED
  BY <1>3, <1>4 DEF WatchOk, Look

LEMMA WatchStep == FeedbackInv /\ Next => WatchOk'
<1> SUFFICES ASSUME FeedbackInv, Next PROVE WatchOk'
  OBVIOUS
<1>1. FeedbackTypes /\ WatchOk /\ ClosersPast
  BY DEF FeedbackInv, WatchOk, ClosersPast
<1>2. /\ tasks \in Seq(Tasks) /\ session \in Session /\ watch \in Watch
      /\ close \in [Closers -> {"no", "feedback", "facade", "overlay", "stop", "closed"}]
  BY <1>1 DEF FeedbackTypes
<1>3. watch.count \in Nat /\ watch.manual \in BOOLEAN /\ watch.pump \in BOOLEAN
  BY <1>2 DEF Watch
<1>r. session.open /\ Releasing => Releasing' \/ Contains(tasks', Look)
  BY <1>1, StillReleasing
<1>4. ASSUME StartManual \/ StopManual PROVE WatchOk'
  <2>1. session' = session /\ close' = close /\ tasks' = tasks
    BY <1>4 DEF StartManual, StopManual
  <2>2. /\ watch'.count = watch.count
        /\ \/ session.open /\ watch'.manual /\ (watch'.pump <=> (watch.pump \/ watch.count = 0))
           \/ ~watch'.manual /\ (watch'.pump <=> (watch.pump /\ watch.count # 0)) /\ watch.manual
    BY <1>2, <1>4 DEF StartManual, StopManual, Watch
  <2> QED
    BY <1>1, <1>3, <1>r, <2>1, <2>2 DEF WatchOk, Look
<1>5. ASSUME StopUnused PROVE WatchOk'
  <2>1. /\ session' = session /\ close' = close
        /\ watch'.count = watch.count /\ watch'.manual = watch.manual
        /\ watch'.pump <=> (watch.pump /\ (watch.count # 0 \/ watch.manual))
    BY <1>2, <1>5 DEF StopUnused, Watch
  <2> QED
    BY <1>1, <1>3, <2>1 DEF WatchOk, Look
<1>6. ASSUME NEW o \in Observers, StartAcquire(o) PROVE WatchOk'
  <2>1. session'.open = session.open /\ close' = close /\ tasks' = tasks /\ session.open
    BY <1>2, <1>6 DEF StartAcquire, Session
  <2>2. /\ watch'.count = watch.count + 1 /\ watch'.manual = watch.manual
        /\ watch'.pump <=> (watch.pump \/ (~watch.manual /\ watch.count = 0))
    BY <1>2, <1>6 DEF StartAcquire, Acquired, Watch
  <2> QED
    BY <1>1, <1>3, <2>1, <2>2 DEF WatchOk, Look
<1>7. ASSUME NEW o \in Observers, StartFails(o) PROVE WatchOk'
  <2>1. watch' = OneOut /\ close' = close /\ session'.open = session.open /\ tasks' = tasks
    BY <1>2, <1>7 DEF StartFails, Session
  <2>2. LastOut => obs'[o].phase = "release"
    BY <1>1, <1>7, StartFailsDoes
  <2> QED
    BY <1>1, <1>r, <2>1, <2>2, OneOutWatch DEF Releasing
<1>8. ASSUME NEW o \in Observers, Cleanup(o) PROVE WatchOk'
  <2>1. /\ close' = close /\ session' = session /\ tasks # <<>> /\ Head(tasks) = CleanupOf(o)
        /\ tasks' = Tail(tasks)
    BY <1>8 DEF Cleanup, CleanupOf
  <2>2. Contains(tasks, Look) => Contains(tasks', Look)
    BY <1>2, <2>1, LookApart, Taken
  <2>3. /\ watch' = OneOut \/ watch' = watch
        /\ LastOut => watch' = watch \/ reactor'.at \in Looks
    BY <1>1, <1>8, CleanupDoes
  <2>4. CASE watch' = watch
    BY <1>1, <1>r, <2>1, <2>2, <2>4, WatchSame DEF ClosersPast
  <2>5. CASE watch' = OneOut /\ watch' # watch
    BY <1>1, <1>r, <2>1, <2>2, <2>3, <2>5, OneOutWatch DEF Releasing
  <2> QED
    BY <2>3, <2>4, <2>5
<1>9. ASSUME NEW t \in Threads, StopRelease(t) PROVE WatchOk'
  <2>1. /\ close' = close /\ session' = session /\ tasks' = tasks
        /\ watch' = IF obs[stop[t].obs].owns THEN OneOut ELSE watch
        /\ stop' = [stop EXCEPT ![t].at =
                       IF obs[stop[t].obs].owns /\ LastOut THEN "look" ELSE "abandon"]
    BY <1>9 DEF StopRelease, Step
  <2>2. stop \in [Threads -> Stops] /\ stop[t] \in [at : StopSteps, obs : Observers, todo : SUBSET Observers]
    BY <1>1, <1>9, StopperOf DEF FeedbackTypes, StopRelease, Stopping, StopSteps
  <2>3. obs[stop[t].obs].owns /\ LastOut => stop'[t].at = "look"
    BY <2>1, <2>2
  <2>4. CASE obs[stop[t].obs].owns
    BY <1>1, <1>r, <2>1, <2>3, <2>4, OneOutWatch DEF Releasing, Stopping
  <2>5. CASE ~obs[stop[t].obs].owns
    BY <1>1, <1>r, <2>1, <2>5, WatchSame DEF ClosersPast
  <2> QED
    BY <2>4, <2>5
<1>a. ASSUME session'.open = session.open, close' = close, watch' = watch, PostLook PROVE WatchOk'
  <2>1. tasks' = tasks \/ tasks' = Append(tasks, Look)
    BY <1>a DEF PostLook, Look
  <2>2. Contains(tasks, Look) => Contains(tasks', Look)
    BY <1>2, <2>1, LookApart, LookKept
  <2> QED
    BY <1>1, <1>r, <1>a, <2>2, WatchSame DEF ClosersPast
<1>b. ASSUME NEW o \in Observers, StartLook(o) \/ CleanupLook(o) PROVE WatchOk'
  BY <1>2, <1>a, <1>b DEF StartLook, CleanupLook, Session
<1>c. ASSUME NEW t \in Threads, StopLook(t) PROVE WatchOk'
  BY <1>a, <1>c DEF StopLook
<1>10. ASSUME NEW o \in Observers, DrainBegin(o) PROVE WatchOk'
  <2>1. /\ close' = close /\ session' = session /\ watch' = watch
        /\ tasks # <<>> /\ Head(tasks) = DrainOf(o) /\ tasks' = Tail(tasks)
    BY <1>10 DEF DrainBegin, DrainOf
  <2>2. Contains(tasks, Look) => Contains(tasks', Look)
    BY <1>2, <2>1, LookApart, Taken
  <2> QED
    BY <1>1, <1>r, <2>1, <2>2, WatchSame DEF ClosersPast
<1>11. ASSUME NEW o \in Observers, StartArm(o) \/ NotifyPost(o) PROVE WatchOk'
  <2>1. /\ close' = close /\ session' = session /\ watch' = watch
        /\ tasks' = tasks \/ tasks' = Append(tasks, DrainOf(o))
    BY <1>11 DEF StartArm, NotifyPost, DrainOf
  <2>2. Contains(tasks, Look) => Contains(tasks', Look)
    BY <1>2, <2>1, KindsApart, LookKept
  <2> QED
    BY <1>1, <1>r, <2>1, <2>2, WatchSame DEF ClosersPast
<1>12. ASSUME NEW t \in Threads, StopPost(t) PROVE WatchOk'
  <2>1. PICK o \in Observers : o = stop[t].obs
    BY <1>1, <1>12, StopperOf DEF StopPost, Stopping, StopSteps
  <2>2. /\ close' = close /\ session' = session /\ watch' = watch
        /\ tasks' = Append(tasks, CleanupOf(o))
    BY <1>12, <2>1 DEF StopPost, CleanupOf
  <2>3. Contains(tasks, Look) => Contains(tasks', Look)
    BY <1>2, <2>2, KindsApart, LookKept
  <2> QED
    BY <1>1, <1>r, <2>2, <2>3, WatchSame DEF ClosersPast
<1>13. ASSUME NEW c \in Closers,
              CloseFeedback(c) \/ CloseFacade(c) \/ CloseSession(c) \/ CloseOverlay(c)
       PROVE  WatchOk'
  <2>1. /\ watch' = watch /\ (session'.open => session.open)
        /\ \/ tasks' = tasks \/ tasks' = Append(tasks, Closing)
           \/ tasks # <<>> /\ tasks' = Tail(tasks) /\ Head(tasks) = Closing
    BY <1>2, <1>13 DEF CloseFeedback, CloseFacade, CloseSession, CloseOverlay, Session, Closing
  <2>3. Contains(tasks, Look) => Contains(tasks', Look)
    BY <1>2, <2>1, LookApart, LookKept
  <2>4. \A d \in Closers \ {c} : close'[d] = close[d]
    BY <1>2, <1>13 DEF CloseFeedback, CloseFacade, CloseSession, CloseOverlay
  <2>5. close'[c] \in {"overlay", "stop"} => ~session'.open
    BY <1>1, <1>2, <1>13
       DEF CloseFeedback, CloseFacade, CloseSession, CloseOverlay, ClosersPast, Session
  <2>6. ClosersPast'
    BY <1>1, <2>1, <2>4, <2>5 DEF ClosersPast
  <2> QED
    BY <1>1, <1>r, <2>1, <2>3, <2>6, WatchSame
<1>14. ASSUME NEW c \in Closers, CloseReactor(c) PROVE WatchOk'
  <2>1. ~session.open /\ session'.open = session.open /\ close'[c] = "closed"
        /\ \A d \in Closers \ {c} : close'[d] = close[d]
    BY <1>1, <1>2, <1>14 DEF CloseReactor, ClosersPast, Session
  <2> QED
    BY <2>1 DEF WatchOk, Look
<1>15. ASSUME close' = close, session' = session, watch' = watch, tasks' = tasks PROVE WatchOk'
  BY <1>1, <1>r, <1>15, WatchSame DEF ClosersPast
<1>16. ASSUME NEW o \in Observers,
              \/ StartSubscribe(o) \/ DropHandle(o) \/ NotifyLoad(o) \/ NotifyCas(o)
              \/ Expire(o) \/ TimerFires(o) \/ TimerAdvance(o) \/ DrainInner(o)
              \/ DrainConsume(o) \/ DrainRelease(o) \/ DrainRecheck(o) \/ DrainClaim(o)
              \/ DrainRaced(o)
       PROVE  WatchOk'
  BY <1>15, <1>16
     DEF StartSubscribe, DropHandle, NotifyLoad, NotifyCas, Expire, TimerFires, TimerAdvance,
         DrainInner, DrainConsume, DrainRelease, DrainRecheck, DrainClaim, DrainRaced
<1>17. ASSUME NEW o \in Observers, StartActivate(o) PROVE WatchOk'
  <2>1. close' = close /\ watch' = watch /\ tasks' = tasks /\ session'.open = session.open
    BY <1>2, <1>17 DEF StartActivate, Session
  <2> QED
    BY <1>1, <1>r, <2>1, WatchSame DEF ClosersPast
<1>18. ASSUME NEW t \in Threads,
              \/ \E o \in Observers : StopLock(t, o)
              \/ StopClear(t) \/ StopCheck(t) \/ StopDone(t) \/ StopGivesUp(t) \/ StopAbandon(t)
       PROVE  WatchOk'
  BY <1>15, <1>18 DEF StopLock, StopClear, StopCheck, StopDone, StopGivesUp, StopAbandon
<1>19. ASSUME Publish PROVE WatchOk'
  BY <1>15, <1>19 DEF Publish
<1> QED
  BY <1>4, <1>5, <1>6, <1>7, <1>8, <1>9, <1>10, <1>11, <1>12, <1>13, <1>14, <1>16, <1>17,
     <1>18, <1>19, <1>b, <1>c
  DEF Next

-----------------------------------------------------------------------------
(* The theorems. *)

LEMMA ObserversStep == FeedbackInv /\ Next => ObserversOk'
<1> SUFFICES ASSUME FeedbackInv, Next PROVE ObserversOk'
  OBVIOUS
<1>1. CASE StartManual \/ StopManual \/ StopUnused
  BY <1>1, SharingStep
<1>2. CASE Publish
  BY <1>2, PublishStep
<1>3. ASSUME NEW o \in Observers,
             \/ StartAcquire(o) \/ StartSubscribe(o) \/ StartArm(o) \/ StartFails(o)
             \/ StartLook(o) \/ StartActivate(o)
      PROVE  ObserversOk'
  BY <1>3, StartStep
<1>4. ASSUME NEW o \in Observers, DropHandle(o) PROVE ObserversOk'
  BY <1>4, DropHandleStep
<1>5. ASSUME NEW o \in Observers, NotifyLoad(o) \/ NotifyCas(o) \/ NotifyPost(o)
      PROVE  ObserversOk'
  BY <1>5, NotifyStep
<1>6. ASSUME NEW o \in Observers, Expire(o) \/ TimerFires(o) \/ TimerAdvance(o)
      PROVE  ObserversOk'
  BY <1>6, ExpireStep, TimerFiresStep, PresentStep
<1>7. ASSUME NEW o \in Observers,
             \/ DrainBegin(o) \/ DrainInner(o) \/ DrainConsume(o) \/ DrainRelease(o)
             \/ DrainRecheck(o) \/ DrainClaim(o) \/ DrainRaced(o)
      PROVE  ObserversOk'
  BY <1>7, DrainBeginStep, PopStep, PresentStep, FlagStep
<1>8. ASSUME NEW o \in Observers, Cleanup(o) \/ CleanupLook(o) PROVE ObserversOk'
  BY <1>8, CleanupStep, CleanupLookStep
<1>9. ASSUME NEW t \in Threads, NEW o \in Observers, StopLock(t, o) PROVE ObserversOk'
  BY <1>9, StopLockStep
<1>10. ASSUME NEW t \in Threads,
              \/ StopClear(t) \/ StopCheck(t) \/ StopPost(t) \/ StopDone(t) \/ StopGivesUp(t)
              \/ StopRelease(t) \/ StopLook(t) \/ StopAbandon(t)
       PROVE  ObserversOk'
  BY <1>10, StopClearStep, StopPostStep, StopDoneStep, StopGivesUpStep, StopFailedStep
<1>11. ASSUME NEW c \in Closers,
              \/ CloseFeedback(c) \/ CloseFacade(c) \/ CloseSession(c) \/ CloseOverlay(c)
              \/ CloseReactor(c)
       PROVE  ObserversOk'
  BY <1>11, CloserStep, CloseOverlayStep
<1> QED
  BY <1>1, <1>2, <1>3, <1>4, <1>5, <1>6, <1>7, <1>8, <1>9, <1>10, <1>11 DEF Next

LEMMA InitFeedback == Init => FeedbackInv
<1> SUFFICES ASSUME Init PROVE FeedbackInv
  OBVIOUS
<1>1. FeedbackTypes
  BY InitTypes
<1>2. WatchOk
  BY DEF Init, WatchOk
<1>3. ASSUME NEW o \in Observers PROVE DrainOk(o) /\ StopOk(o)
  <2>1. obs[o] = NewObserver /\ tasks = <<>> /\ reactor = Idle
    BY DEF Init
  <2>2. ~Ready(o) /\ ~OnIt(o) /\ ~obs[o].active /\ obs[o].phase = "absent"
    BY <2>1 DEF Ready, OnIt, Idle, NewObserver
  <2>3. \A y : ~Contains(tasks, y) /\ Once(tasks, y)
    BY <2>1 DEF Contains, Once
  <2>4. obs[o].cleaned = "no" /\ obs[o].shown = {} /\ ~obs[o].clean
    BY <2>1 DEF NewObserver
  <2>5. \A t \in Threads : \A S \in SUBSET StopSteps : ~StopAt(t, o, S)
    BY DEF Init, StopAt, NoStop, StopSteps
  <2>6. DrainOk(o)
    BY <2>2 DEF DrainOk
  <2>7. StopOk(o)
    BY <2>2, <2>3, <2>4, <2>5, StepSets DEF StopOk, Untouched, InLook
  <2> QED
    BY <2>6, <2>7
<1> QED
  BY <1>1, <1>2, <1>3 DEF FeedbackInv

LEMMA FeedbackStutter == FeedbackInv /\ UNCHANGED vars => FeedbackInv'
<1> SUFFICES ASSUME FeedbackInv, UNCHANGED vars PROVE FeedbackInv'
  OBVIOUS
<1>1. FeedbackTypes'
  BY StepTypes DEF FeedbackInv
<1>2. /\ obs' = obs /\ note' = note /\ tasks' = tasks /\ reactor' = reactor /\ stop' = stop
      /\ close' = close /\ session' = session /\ watch' = watch
  BY DEF vars
<1>3. \A p \in Observers : TasksKept(p) /\ StopsKept(p)
  BY <1>2, NothingStops DEF TasksKept, CleanupsKept
<1>4. ObserversOk'
  BY <1>2, <1>3, QuietStep
<1>5. WatchOk'
  BY <1>2 DEF FeedbackInv, WatchOk, Releasing, Stopping
<1> QED
  BY <1>1, <1>4, <1>5 DEF FeedbackInv, ObserversOk

\* The drain, the stop and the sharing invariant of cursor_feedback.cpp hold in every
\* reachable state, whatever the numbers of observers, closers and events.
THEOREM FeedbackInvariance == Spec => []FeedbackInv
<1>1. FeedbackInv /\ [Next]_vars => FeedbackInv'
  <2> SUFFICES ASSUME FeedbackInv, [Next]_vars PROVE FeedbackInv'
    OBVIOUS
  <2>1. CASE Next
    <3>1. FeedbackTypes'
      BY <2>1, StepTypes DEF FeedbackInv
    <3> QED
      BY <2>1, <3>1, ObserversStep, WatchStep DEF FeedbackInv, ObserversOk
  <2>2. CASE UNCHANGED vars
    BY <2>2, FeedbackStutter
  <2> QED
    BY <2>1, <2>2
<1> QED
  BY InitFeedback, <1>1, PTL DEF Spec

\* An event in the queue of an active observer of an open session always has a drain
\* coming for it (cursor_feedback.cpp:848-905).
THEOREM EveryEventDrained == Spec => []NoEventStranded
<1>1. FeedbackInv => NoEventStranded
  <2> SUFFICES ASSUME FeedbackInv, session.open, NEW o \in Observers, obs[o].active,
                      obs[o].queued > 0
               PROVE  DrainComing(o)
    BY DEF NoEventStranded
  <2>1. Coming(o) /\ tasks \in Seq(Tasks)
    BY DEF FeedbackInv, FeedbackTypes, DrainOk
  <2>2. Contains(tasks, DrainOf(o)) => <<"drain", o>> \in ToSet(tasks)
    BY <2>1, QueueOf DEF DrainOf
  <2> QED
    BY <2>1, <2>2 DEF Coming, DrainComing, OnIt, At
<1> QED
  BY FeedbackInvariance, <1>1, PTL

\* What a successful stop() has taken off the overlay stays off it
\* (cursor_feedback.cpp:542-664).
THEOREM StoppedShowsNothing == Spec => []NothingShownAfterStop
<1>1. FeedbackInv => NothingShownAfterStop
  BY DEF FeedbackInv, StopOk, NothingShownAfterStop
<1> QED
  BY FeedbackInvariance, <1>1, PTL

\* While the session is open its observation runs exactly when it is wanted, but for
\* a look that is still queued or that somebody is about to post (session.cpp:963-1140).
THEOREM SharedObservation == Spec => []ObservedIffWanted
<1>1. FeedbackInv => ObservedIffWanted
  <2> SUFFICES ASSUME FeedbackInv PROVE ObservedIffWanted
    OBVIOUS
  <2>1. Contains(tasks, <<"unused">>) <=> <<"unused">> \in ToSet(tasks)
    BY QueueOf DEF FeedbackInv, FeedbackTypes
  <2> QED
    BY <2>1 DEF FeedbackInv, WatchOk, ObservedIffWanted
<1> QED
  BY FeedbackInvariance, <1>1, PTL

-----------------------------------------------------------------------------
(* The overlay facade and close().                                         *)

Detaching == {"no", "alive", "gate", "settle"}

\* Tasks are of the threads that may post them.
TaskInv ==
    /\ \A i \in 1 .. Len(queue) :
          /\ queue[i].kind \in {"exec", "overlay"} => queue[i].of \in Users
          /\ queue[i].kind \in {"overlay", "finish"} => ~alive
    /\ loop.at \in {"op", "refused"} => loop.of \in Users

CoreInv ==
    /\ core # "live" => ~alive
    /\ loop.at \in {"op", "inline"} => core = "live"
    /\ attached => alive
    /\ ~running => loop.at = "exited"
    /\ \A t \in SessionThreads :
          /\ closing[t] \notin {"no", "alive"} => ~alive
          /\ closing[t] = "reset" => loop.at = "exited"

PromiseInv ==
    \A u \in Users :
        /\ settlements[u] = IF settled[u] /\ ~Answering(u) THEN 1 ELSE 0
        /\ Answering(u) => settled[u]

\* Who has u's entry: the registry or a thread in cancel_all().
Held(u) == u \in registry \/ \E t \in SessionThreads : u \in drained[t]

PendingInv ==
    /\ \A t \in SessionThreads :
          /\ closing[t] # "no" => ~attached
          /\ closing[t] \notin Detaching => registry = {}
          /\ closing[t] # "cancel" => drained[t] = {}
    /\ \A u \in Users : call[u] = "blocked" => settled[u] \/ Held(u)

CloseInv == SessionTypeOK /\ TaskInv /\ CoreInv /\ PromiseInv /\ PendingInv

\* What a thread posts joins the queue.
LEMMA Posted ==
    ASSUME queue \in Seq(SessionTasks), TaskInv, NEW x \in SessionTasks, queue' = Append(queue, x),
           x.kind \in {"exec", "overlay"} => x.of \in Users,
           x.kind \in {"overlay", "finish"} => ~alive,
           alive' = alive, loop' = loop
    PROVE  TaskInv' /\ queue' \in Seq(SessionTasks)
<1>1. /\ queue' \in Seq(SessionTasks) /\ Len(queue') = Len(queue) + 1 /\ Len(queue) \in Nat
      /\ \A i \in 1 .. Len(queue) : queue'[i] = queue[i]
      /\ queue'[Len(queue) + 1] = x
  BY AppendProperties
<1>2. \A i \in 1 .. Len(queue') : i \in 1 .. Len(queue) \/ i = Len(queue) + 1
  BY <1>1
<1> QED
  BY <1>1, <1>2 DEF TaskInv

\* What the reactor takes from it is a task, and the rest stays.
LEMMA CallTaken ==
    ASSUME queue \in Seq(SessionTasks), TaskInv, queue # <<>>
    PROVE  /\ Head(queue) \in SessionTasks
           /\ Head(queue).kind \in {"exec", "overlay"} => Head(queue).of \in Users
           /\ Head(queue).kind \in {"overlay", "finish"} => ~alive
           /\ Tail(queue) \in Seq(SessionTasks)
           /\ \A i \in 1 .. Len(Tail(queue)) :
                 /\ Tail(queue)[i].kind \in {"exec", "overlay"} => Tail(queue)[i].of \in Users
                 /\ Tail(queue)[i].kind \in {"overlay", "finish"} => ~alive
<1>1. /\ Head(queue) \in SessionTasks /\ Head(queue) = queue[1] /\ 1 \in 1 .. Len(queue)
      /\ Tail(queue) \in Seq(SessionTasks)
      /\ \A i \in 1 .. Len(Tail(queue)) :
            i + 1 \in 1 .. Len(queue) /\ Tail(queue)[i] = queue[i + 1]
  BY HeadTailProperties
<1> QED
  BY <1>1 DEF TaskInv

\* The kinds of tasks.
LEMMA CallKinds ==
    /\ \A u \in Users : /\ Exec(u) \in SessionTasks /\ Exec(u).kind = "exec" /\ Exec(u).of = u
                        /\ OverlayTask(u) \in SessionTasks /\ OverlayTask(u).kind = "overlay"
                        /\ OverlayTask(u).of = u
                        /\ Callback(u) \in SessionTasks /\ Callback(u).kind = "callback"
    /\ Finish \in SessionTasks /\ Finish.kind = "finish"
  BY DEF Exec, OverlayTask, Callback, Finish, SessionTasks, SessionThreads

\* An empty session.
LEMMA CloseInit == SessionInit => CloseInv
<1> SUFFICES ASSUME SessionInit PROVE CloseInv
  OBVIOUS
<1>1. SessionTypeOK
  <2>1. loop \in [at : LoopStates, of : SessionThreads]
    BY DEF SessionInit, LoopAt, LoopStates, SessionThreads
  <2>2. queue \in Seq(SessionTasks)
    BY DEF SessionInit
  <2>3. /\ settled \in [Users -> BOOLEAN] /\ settlements \in [Users -> Nat]
        /\ call \in [Users -> {"none", "blocked", "posted", "returned"}]
        /\ closing \in [SessionThreads -> CloseStates]
    BY DEF SessionInit, CloseStates
  <2> QED
    BY <2>1, <2>2, <2>3 DEF SessionInit, SessionTypeOK
<1>2. TaskInv /\ CoreInv
  BY DEF SessionInit, TaskInv, CoreInv, LoopAt
<1>3. PromiseInv /\ PendingInv
  BY DEF SessionInit, PromiseInv, PendingInv, Held, LoopAt, Answering, Detaching
<1> QED
  BY <1>1, <1>2, <1>3 DEF CloseInv

\* No step breaks it, one action at a time.

LEMMA CloseStep ==
    CloseInv /\ [SessionNext]_sessionVars => CloseInv'
<1> SUFFICES ASSUME CloseInv, [SessionNext]_sessionVars PROVE CloseInv'
  OBVIOUS
<1> USE CloseAssumption DEF CloseInv, facadeVars, reactorVars, closeVars, SessionThreads
<1>1. ASSUME NEW u \in Callers, Invoke(u) PROVE CloseInv'
  <2>q. TaskInv' /\ queue' \in Seq(SessionTasks)
    <3>1. CASE attached
      BY <1>1, <3>1, CallKinds, Posted DEF Invoke, SessionTypeOK, Users
    <3>2. CASE ~attached
      BY <1>1, <3>2 DEF Invoke, SessionTypeOK, TaskInv
    <3> QED
      BY <3>1, <3>2 DEF SessionTypeOK
  <2>1. SessionTypeOK'
    BY <1>1, <2>q DEF Invoke, SessionTypeOK, Users
  <2>2. TaskInv'
    BY <2>q
  <2>3. CoreInv'
    BY <1>1 DEF Invoke, CoreInv, SessionTypeOK, LoopAt, Users
  <2>4. PromiseInv'
    BY <1>1 DEF Invoke, PromiseInv, SessionTypeOK, LoopAt, Answering, Users
  <2>5. PendingInv'
    BY <1>1 DEF Invoke, PendingInv, Held, SessionTypeOK, Detaching, Users
  <2> QED
    BY <2>1, <2>2, <2>3, <2>4, <2>5
<1>2. ASSUME NEW u \in Callers, Return(u) PROVE CloseInv'
  <2>1. SessionTypeOK'
    BY <1>2 DEF Return, SessionTypeOK, CloseStates, Users
  <2>2. TaskInv'
    BY <1>2 DEF Return, TaskInv, SessionTypeOK, LoopAt, Users
  <2>3. CoreInv'
    BY <1>2 DEF Return, CoreInv, SessionTypeOK, LoopAt, Users
  <2>4. PromiseInv'
    BY <1>2 DEF Return, PromiseInv, SessionTypeOK, LoopAt, Answering, Users
  <2>5. PendingInv'
    BY <1>2 DEF Return, PendingInv, Held, SessionTypeOK, Detaching, Users
  <2> QED
    BY <2>1, <2>2, <2>3, <2>4, <2>5
<1>3. ASSUME NEW u \in Callers, PostCallback(u) PROVE CloseInv'
  <2>q. TaskInv' /\ queue' \in Seq(SessionTasks)
    BY <1>3, CallKinds, Posted DEF PostCallback, SessionTypeOK, Users
  <2>1. SessionTypeOK'
    BY <1>3, <2>q DEF PostCallback, SessionTypeOK, Users
  <2>2. TaskInv'
    BY <2>q
  <2>3. CoreInv'
    BY <1>3 DEF PostCallback, CoreInv, SessionTypeOK, LoopAt, Users
  <2>4. PromiseInv'
    BY <1>3 DEF PostCallback, PromiseInv, SessionTypeOK, LoopAt, Answering, Users
  <2>5. PendingInv'
    BY <1>3 DEF PostCallback, PendingInv, Held, SessionTypeOK, Detaching, Users
  <2> QED
    BY <2>1, <2>2, <2>3, <2>4, <2>5
<1>4. ASSUME NEW t \in SessionThreads, CloseBegin(t) PROVE CloseInv'
  <2>1. SessionTypeOK'
    BY <1>4 DEF CloseBegin, SessionTypeOK, CloseStates, Users
  <2>2. TaskInv'
    BY <1>4 DEF CloseBegin, TaskInv, SessionTypeOK, LoopAt, Users
  <2>3. CoreInv'
    BY <1>4 DEF CloseBegin, CoreInv, SessionTypeOK, LoopAt, Users
  <2>4. PromiseInv'
    BY <1>4 DEF CloseBegin, PromiseInv, SessionTypeOK, LoopAt, Answering, Users
  <2>5. PendingInv'
    BY <1>4 DEF CloseBegin, PendingInv, Held, SessionTypeOK, Detaching, Users
  <2> QED
    BY <2>1, <2>2, <2>3, <2>4, <2>5
<1>5. ASSUME NEW t \in SessionThreads, DetachAlive(t) PROVE CloseInv'
  <2>1. SessionTypeOK'
    BY <1>5 DEF DetachAlive, SessionTypeOK, CloseStates, Users
  <2>2. TaskInv'
    BY <1>5 DEF DetachAlive, TaskInv, SessionTypeOK, LoopAt, Users
  <2>3. CoreInv'
    <3>1. ~attached' /\ ~alive' /\ UNCHANGED <<core, loop, running>>
      BY <1>5 DEF DetachAlive, PendingInv
    <3>2. \A x \in SessionThreads : closing'[x] = "reset" => closing[x] = "reset"
      BY <1>5 DEF DetachAlive, SessionTypeOK
    <3> QED
      BY <3>1, <3>2 DEF CoreInv
  <2>4. PromiseInv'
    BY <1>5 DEF DetachAlive, PromiseInv, SessionTypeOK, LoopAt, Answering, Users
  <2>5. PendingInv'
    BY <1>5 DEF DetachAlive, PendingInv, Held, SessionTypeOK, Detaching, Users
  <2> QED
    BY <2>1, <2>2, <2>3, <2>4, <2>5
<1>6. ASSUME NEW t \in SessionThreads, DetachGate(t) PROVE CloseInv'
  <2>1. SessionTypeOK'
    BY <1>6 DEF DetachGate, SessionTypeOK, CloseStates, Users
  <2>2. TaskInv'
    BY <1>6 DEF DetachGate, TaskInv, SessionTypeOK, LoopAt, Users
  <2>3. CoreInv'
    BY <1>6 DEF DetachGate, CoreInv, SessionTypeOK, LoopAt, Users
  <2>4. PromiseInv'
    BY <1>6 DEF DetachGate, PromiseInv, SessionTypeOK, LoopAt, Answering, Users
  <2>5. PendingInv'
    BY <1>6 DEF DetachGate, PendingInv, Held, SessionTypeOK, Detaching, Users
  <2> QED
    BY <2>1, <2>2, <2>3, <2>4, <2>5
<1>7. ASSUME NEW t \in SessionThreads, DetachSwap(t) PROVE CloseInv'
  <2>1. SessionTypeOK'
    BY <1>7 DEF DetachSwap, SessionTypeOK, CloseStates
  <2>2. TaskInv'
    BY <1>7 DEF DetachSwap, TaskInv
  <2>3. CoreInv'
    BY <1>7 DEF DetachSwap, CoreInv, SessionTypeOK
  <2>4. PromiseInv'
    BY <1>7 DEF DetachSwap, PromiseInv, LoopAt, Answering
  <2>5. PendingInv'
    <3>1. drained[t] = {} /\ drained'[t] = registry
      BY <1>7 DEF DetachSwap, PendingInv, SessionTypeOK
    <3>2. \A x \in SessionThreads : x # t => drained'[x] = drained[x] /\ closing'[x] = closing[x]
      BY <1>7 DEF DetachSwap, SessionTypeOK
    <3>3. closing'[t] = IF registry = {} THEN "lock" ELSE "cancel"
      BY <1>7 DEF DetachSwap, SessionTypeOK
    <3>4. \A u \in Users : Held(u) => Held(u)'
      BY <3>1, <3>2 DEF Held
    <3>5. registry' = {} /\ ~attached'
      BY <1>7 DEF DetachSwap, PendingInv
    <3>6. \A u \in Users : (call[u] = "blocked" => settled[u] \/ Held(u))'
      BY <1>7, <3>4 DEF DetachSwap, PendingInv
    <3>7. \A x \in SessionThreads : closing'[x] # "cancel" => drained'[x] = {}
      BY <3>1, <3>2, <3>3 DEF PendingInv
    <3> QED
      BY <3>5, <3>6, <3>7 DEF PendingInv
  <2> QED
    BY <2>1, <2>2, <2>3, <2>4, <2>5
<1>21. ASSUME NEW t \in SessionThreads, DetachCancel(t) PROVE CloseInv'
  <2> PICK u \in drained[t] :
         /\ IF settled[u] THEN UNCHANGED <<settled, settlements>>
                          ELSE Claim(u) /\ SetValue(u)
         /\ drained' = [drained EXCEPT ![t] = @ \ {u}]
         /\ closing' = [closing EXCEPT ![t] = IF drained[t] = {u} THEN "lock" ELSE "cancel"]
    BY <1>21 DEF DetachCancel
  <2>a. /\ closing[t] = "cancel" /\ u \in Users
        /\ UNCHANGED <<attached, alive, registry, shared, reactorVars, open, closeMutex,
                       overlayDone, onReactor, core, call>>
    BY <1>21 DEF DetachCancel, SessionTypeOK
  <2>b. /\ settled' \in [Users -> BOOLEAN] /\ settlements' \in [Users -> Nat]
        /\ settled'[u] /\ \A x \in Users : settled[x] => settled'[x]
    <3>1. CASE settled[u]
      BY <2>a, <3>1 DEF SessionTypeOK
    <3>2. CASE ~settled[u]
      <4>1. /\ settled' = [settled EXCEPT ![u] = TRUE]
            /\ settlements' = [settlements EXCEPT ![u] = @ + 1]
        BY <3>2 DEF Claim, SetValue
      <4> QED
        BY <2>a, <4>1 DEF SessionTypeOK
    <3> QED
      BY <3>1, <3>2
  <2>1. SessionTypeOK'
    BY <2>a, <2>b DEF SessionTypeOK, CloseStates
  <2>2. TaskInv'
    BY <2>a DEF TaskInv
  <2>3. CoreInv'
    BY <2>a DEF CoreInv, SessionTypeOK
  <2>4. PromiseInv'
    <3>1. CASE settled[u]
      BY <2>a, <3>1 DEF PromiseInv, LoopAt, Answering
    <3>2. CASE ~settled[u]
      <4>1. ~Answering(u) /\ settlements[u] = 0
        BY <2>a, <3>2 DEF PromiseInv
      <4>2. /\ settlements'[u] = 1 /\ loop' = loop
            /\ \A x \in Users : x # u => settled'[x] = settled[x] /\ settlements'[x] = settlements[x]
        BY <2>a, <3>2, <4>1 DEF Claim, SetValue, SessionTypeOK
      <4>3. \A x \in Users : Answering(x)' <=> Answering(x)
        BY <4>2 DEF Answering, LoopAt
      <4> QED
        BY <2>b, <4>1, <4>2, <4>3 DEF PromiseInv
    <3> QED
      BY <3>1, <3>2
  <2>5. PendingInv'
    <3>1. /\ \A x \in SessionThreads : x # t => drained'[x] = drained[x] /\ closing'[x] = closing[x]
          /\ drained'[t] = drained[t] \ {u}
          /\ closing'[t] = IF drained[t] = {u} THEN "lock" ELSE "cancel"
      BY DEF SessionTypeOK
    <3>2. ~attached' /\ registry' = {}
      BY <2>a DEF PendingInv, Detaching
    <3>3. \A x \in Users : Held(x) => x = u \/ Held(x)'
      BY <2>a, <3>1 DEF Held
    <3>4. \A x \in Users : (call[x] = "blocked" => settled[x] \/ Held(x))'
      BY <2>a, <2>b, <3>3 DEF PendingInv
    <3>5. \A x \in SessionThreads : closing'[x] # "cancel" => drained'[x] = {}
      BY <3>1 DEF PendingInv
    <3> QED
      BY <3>2, <3>4, <3>5 DEF PendingInv
  <2> QED
    BY <2>1, <2>2, <2>3, <2>4, <2>5
<1>8. CASE ReactorClose
  <2>q. TaskInv' /\ queue' \in Seq(SessionTasks)
    <3>1. CASE queue' = Append(queue, Finish)
      BY <1>8, <3>1, CallKinds, Posted DEF ReactorClose, SessionTypeOK, CoreInv
    <3>2. CASE queue' = queue
      BY <1>8, <3>2 DEF ReactorClose, SessionTypeOK, TaskInv
    <3> QED
      BY <1>8, <3>1, <3>2 DEF ReactorClose
  <2>1. SessionTypeOK'
    BY <1>8, <2>q DEF ReactorClose, SessionTypeOK, CloseStates
  <2>2. TaskInv'
    BY <2>q
  <2>3. CoreInv'
    BY <1>8 DEF ReactorClose, CoreInv, SessionTypeOK, LoopAt, Users
  <2>4. PromiseInv'
    BY <1>8 DEF ReactorClose, PromiseInv, SessionTypeOK, LoopAt, Answering, Users
  <2>5. PendingInv'
    BY <1>8 DEF ReactorClose, PendingInv, Held, SessionTypeOK, Detaching, Users
  <2> QED
    BY <2>1, <2>2, <2>3, <2>4, <2>5
<1>9. ASSUME NEW u \in Users, CloseLock(u) PROVE CloseInv'
  <2>1. SessionTypeOK'
    BY <1>9 DEF CloseLock, SessionTypeOK, CloseStates, CloseGoto, Users
  <2>2. TaskInv'
    BY <1>9 DEF CloseLock, TaskInv, SessionTypeOK, LoopAt, CloseGoto, Users
  <2>3. CoreInv'
    BY <1>9 DEF CloseLock, CoreInv, SessionTypeOK, LoopAt, CloseGoto, Users
  <2>4. PromiseInv'
    BY <1>9 DEF CloseLock, PromiseInv, SessionTypeOK, LoopAt, Answering, CloseGoto, Users
  <2>5. PendingInv'
    BY <1>9 DEF CloseLock, PendingInv, Held, SessionTypeOK, Detaching, CloseGoto, Users
  <2> QED
    BY <2>1, <2>2, <2>3, <2>4, <2>5
<1>10. ASSUME NEW u \in Users, CloseExchange(u) PROVE CloseInv'
  <2>1. SessionTypeOK'
    BY <1>10 DEF CloseExchange, SessionTypeOK, CloseStates, CloseGoto, Users
  <2>2. TaskInv'
    BY <1>10 DEF CloseExchange, TaskInv, SessionTypeOK, LoopAt, CloseGoto, Users
  <2>3. CoreInv'
    BY <1>10 DEF CloseExchange, CoreInv, SessionTypeOK, LoopAt, CloseGoto, Users
  <2>4. PromiseInv'
    BY <1>10 DEF CloseExchange, PromiseInv, SessionTypeOK, LoopAt, Answering, CloseGoto, Users
  <2>5. PendingInv'
    BY <1>10 DEF CloseExchange, PendingInv, Held, SessionTypeOK, Detaching, CloseGoto, Users
  <2> QED
    BY <2>1, <2>2, <2>3, <2>4, <2>5
<1>11. ASSUME NEW u \in Users, CloseOverlayOnReactor(u) PROVE CloseInv'
  <2>q. TaskInv' /\ queue' \in Seq(SessionTasks)
    <3>1. CASE queue' = Append(queue, OverlayTask(u))
      <4>1. closing[u] = "overlay" /\ alive' = alive /\ loop' = loop
        BY <1>11 DEF CloseOverlayOnReactor
      <4>2. ~alive
        BY <4>1 DEF CoreInv
      <4> QED
        BY <3>1, <4>1, <4>2, CallKinds, Posted DEF SessionTypeOK
    <3>2. CASE queue' = queue
      BY <1>11, <3>2 DEF CloseOverlayOnReactor, SessionTypeOK, TaskInv
    <3> QED
      BY <1>11, <3>1, <3>2 DEF CloseOverlayOnReactor
  <2>1. SessionTypeOK'
    BY <1>11, <2>q DEF CloseOverlayOnReactor, SessionTypeOK, CloseStates, CloseGoto
  <2>2. TaskInv'
    BY <2>q
  <2>3. CoreInv'
    BY <1>11 DEF CloseOverlayOnReactor, CoreInv, SessionTypeOK, LoopAt, CloseGoto, Users
  <2>4. PromiseInv'
    BY <1>11 DEF CloseOverlayOnReactor, PromiseInv, SessionTypeOK, LoopAt, Answering, CloseGoto, Users
  <2>5. PendingInv'
    BY <1>11 DEF CloseOverlayOnReactor, PendingInv, Held, SessionTypeOK, Detaching, CloseGoto, Users
  <2> QED
    BY <2>1, <2>2, <2>3, <2>4, <2>5
<1>12. ASSUME NEW u \in Users, OverlayWait(u) PROVE CloseInv'
  <2>1. SessionTypeOK'
    BY <1>12 DEF OverlayWait, SessionTypeOK, CloseStates, CloseGoto, Users
  <2>2. TaskInv'
    BY <1>12 DEF OverlayWait, TaskInv, SessionTypeOK, LoopAt, CloseGoto, Users
  <2>3. CoreInv'
    BY <1>12 DEF OverlayWait, CoreInv, SessionTypeOK, LoopAt, CloseGoto, Users
  <2>4. PromiseInv'
    BY <1>12 DEF OverlayWait, PromiseInv, SessionTypeOK, LoopAt, Answering, CloseGoto, Users
  <2>5. PendingInv'
    BY <1>12 DEF OverlayWait, PendingInv, Held, SessionTypeOK, Detaching, CloseGoto, Users
  <2> QED
    BY <2>1, <2>2, <2>3, <2>4, <2>5
<1>13. ASSUME NEW u \in Users, StopReactor(u) PROVE CloseInv'
  <2>1. SessionTypeOK'
    BY <1>13 DEF StopReactor, SessionTypeOK, CloseStates, CloseGoto, Users
  <2>2. TaskInv'
    BY <1>13 DEF StopReactor, TaskInv, SessionTypeOK, LoopAt, CloseGoto, Users
  <2>3. CoreInv'
    BY <1>13 DEF StopReactor, CoreInv, SessionTypeOK, LoopAt, CloseGoto, Users
  <2>4. PromiseInv'
    BY <1>13 DEF StopReactor, PromiseInv, SessionTypeOK, LoopAt, Answering, CloseGoto, Users
  <2>5. PendingInv'
    BY <1>13 DEF StopReactor, PendingInv, Held, SessionTypeOK, Detaching, CloseGoto, Users
  <2> QED
    BY <2>1, <2>2, <2>3, <2>4, <2>5
<1>14. ASSUME NEW u \in Users, Join(u) PROVE CloseInv'
  <2>1. SessionTypeOK'
    BY <1>14 DEF Join, SessionTypeOK, CloseStates, CloseGoto, Users
  <2>2. TaskInv'
    BY <1>14 DEF Join, TaskInv, SessionTypeOK, LoopAt, CloseGoto, Users
  <2>3. CoreInv'
    BY <1>14 DEF Join, CoreInv, SessionTypeOK, LoopAt, CloseGoto, Users
  <2>4. PromiseInv'
    BY <1>14 DEF Join, PromiseInv, SessionTypeOK, LoopAt, Answering, CloseGoto, Users
  <2>5. PendingInv'
    BY <1>14 DEF Join, PendingInv, Held, SessionTypeOK, Detaching, CloseGoto, Users
  <2> QED
    BY <2>1, <2>2, <2>3, <2>4, <2>5
<1>15. ASSUME NEW u \in Users, ResetCore(u) PROVE CloseInv'
  <2>1. SessionTypeOK'
    BY <1>15 DEF ResetCore, SessionTypeOK, CloseStates, CloseGoto, Users
  <2>2. TaskInv'
    BY <1>15 DEF ResetCore, TaskInv, SessionTypeOK, LoopAt, CloseGoto, Users
  <2>3. CoreInv'
    BY <1>15 DEF ResetCore, CoreInv, SessionTypeOK, LoopAt, CloseGoto, Users
  <2>4. PromiseInv'
    BY <1>15 DEF ResetCore, PromiseInv, SessionTypeOK, LoopAt, Answering, CloseGoto, Users
  <2>5. PendingInv'
    BY <1>15 DEF ResetCore, PendingInv, Held, SessionTypeOK, Detaching, CloseGoto, Users
  <2> QED
    BY <2>1, <2>2, <2>3, <2>4, <2>5
<1>16. CASE RunTask
  <2> DEFINE task == Head(queue)
  <2>a. /\ loop.at = "idle" /\ queue # <<>> /\ queue' = Tail(queue)
        /\ UNCHANGED <<attached, alive, drained, running, open, closeMutex, closing, onReactor, call>>
        /\ \A u : ~Answering(u)
    BY <1>16 DEF RunTask, LoopAt, Answering
  <2>b. /\ task \in SessionTasks
        /\ task.kind \in {"exec", "overlay"} => task.of \in Users
        /\ task.kind \in {"overlay", "finish"} => ~alive
    BY <2>a, CallTaken DEF SessionTypeOK
  <2>c. \/ task.kind = "exec" /\ RunExec(task.of)
        \/ task.kind = "finish" /\ RunFinish
        \/ task.kind = "overlay" /\ RunCloseOverlay(task.of)
        \/ task.kind = "callback" /\ RunCallback(task.of)
    BY <1>16 DEF RunTask
  <2> HIDE DEF task
  <2>1. SessionTypeOK'
    <3>1. /\ registry' \subseteq Users /\ overlayDone' \subseteq Users
          /\ settled' \in [Users -> BOOLEAN] /\ settlements' \in [Users -> Nat]
          /\ core' \in {"live", "closed", "destroyed"}
          /\ loop' \in [at : LoopStates, of : SessionThreads]
          /\ stopAsked' \in BOOLEAN /\ shared' \in BOOLEAN
      <4>1. CASE task.kind = "exec" /\ RunExec(task.of)
        <5>1. task.of \in Users
          BY <2>b, <4>1
        <5>2. /\ registry' \subseteq Users
              /\ stopAsked' = stopAsked /\ core' = core /\ overlayDone' = overlayDone
          BY <4>1 DEF RunExec, SessionTypeOK
        <5>6. settled' \in [Users -> BOOLEAN]
          BY <4>1, <5>1 DEF RunExec, Claim, SessionTypeOK
        <5>3. settlements' \in [Users -> Nat]
          BY <4>1 DEF RunExec, SessionTypeOK
        <5>4. shared' \in BOOLEAN
          BY <4>1 DEF RunExec, Execute, SessionTypeOK
        <5>5. loop' \in [at : LoopStates, of : SessionThreads]
          <6>1. /\ LoopAt("op", task.of) \in [at : LoopStates, of : SessionThreads]
                /\ LoopAt("refused", task.of) \in [at : LoopStates, of : SessionThreads]
            BY <5>1 DEF LoopAt, LoopStates
          <6>2. loop' \in {loop, LoopAt("op", task.of), LoopAt("refused", task.of)}
            BY <4>1 DEF RunExec, Execute
          <6> QED
            BY <6>1, <6>2 DEF SessionTypeOK
        <5> QED
          BY <5>2, <5>3, <5>4, <5>5, <5>6 DEF SessionTypeOK
      <4>2. CASE RunFinish
        BY <4>2 DEF RunFinish, SessionTypeOK
      <4>3. CASE task.kind = "overlay" /\ RunCloseOverlay(task.of)
        BY <2>b, <4>3 DEF RunCloseOverlay, SessionTypeOK
      <4>4. CASE RunCallback(task.of)
        BY <2>b, <4>4 DEF RunCallback, SessionTypeOK, SessionTasks, LoopAt, LoopStates
      <4> QED
        BY <2>c, <4>1, <4>2, <4>3, <4>4
    <3>2. Tail(queue) \in Seq(SessionTasks)
      BY <2>a, CallTaken DEF SessionTypeOK
    <3> QED
      BY <2>a, <3>1, <3>2 DEF SessionTypeOK
  <2>2. TaskInv'
    <3>1. \A i \in 1 .. Len(queue') :
             /\ queue'[i].kind \in {"exec", "overlay"} => queue'[i].of \in Users
             /\ queue'[i].kind \in {"overlay", "finish"} => ~alive'
      BY <2>a, CallTaken DEF SessionTypeOK
    <3>2. loop'.at \in {"op", "refused"} => loop'.of \in Users
      BY <2>a, <2>b, <2>c DEF RunExec, Execute, RunFinish, RunCloseOverlay, RunCallback, LoopAt
    <3> QED
      BY <3>1, <3>2 DEF TaskInv
  <2>3. CoreInv'
    <3>1. /\ core' # "live" => ~alive
          /\ loop'.at \in {"op", "inline"} => core' = "live"
          /\ running
      <4>1. running
        BY <2>a DEF CoreInv, SessionTypeOK
      <4>2. CASE task.kind = "exec" /\ RunExec(task.of)
        BY <2>a, <4>1, <4>2 DEF RunExec, Execute, CoreInv, LoopAt
      <4>3. CASE task.kind # "exec" /\ task.kind # "callback"
        <5>1. ~alive /\ loop' = loop
          BY <2>b, <2>c, <4>3 DEF RunFinish, RunCloseOverlay, SessionTasks
        <5> QED
          BY <2>a, <4>1, <5>1
      <4>4. CASE RunCallback(task.of)
        BY <4>1, <4>4 DEF RunCallback, CoreInv, LoopAt
      <4> QED
        BY <2>c, <4>2, <4>3, <4>4
    <3> QED
      BY <2>a, <3>1 DEF CoreInv
  <2>4. PromiseInv'
    <3>1. \A u \in Users : settlements[u] = IF settled[u] THEN 1 ELSE 0
      BY <2>a DEF PromiseInv
    <3>2. CASE task.kind = "exec" /\ RunExec(task.of)
      <4>1. task.of \in Users
        BY <2>b, <3>2
      <4>2. CASE settled[task.of]
        <5>1. UNCHANGED <<settled, settlements, loop>>
          BY <3>2, <4>2 DEF RunExec
        <5> QED
          BY <5>1 DEF PromiseInv, LoopAt, Answering
      <4>3. CASE ~settled[task.of]
        <5>1. /\ settled' = [settled EXCEPT ![task.of] = TRUE]
              /\ loop' \in {LoopAt("op", task.of), LoopAt("refused", task.of)}
              /\ settlements' = settlements
          BY <3>2, <4>3 DEF RunExec, Claim, Execute
        <5>2. \A u \in Users : Answering(u)' <=> u = task.of
          BY <5>1 DEF LoopAt, Answering
        <5> QED
          BY <3>1, <4>1, <4>3, <5>1, <5>2 DEF PromiseInv, SessionTypeOK
      <4> QED
        BY <4>2, <4>3
    <3>3. CASE task.kind # "exec"
      <4>1. settled' = settled /\ settlements' = settlements /\ \A u : ~Answering(u)'
        BY <2>a, <2>c, <3>3 DEF RunFinish, RunCloseOverlay, RunCallback, LoopAt, Answering
      <4> QED
        BY <3>1, <4>1 DEF PromiseInv
    <3> QED
      BY <2>c, <3>2, <3>3
  <2>5. PendingInv'
    <3>1. /\ registry' \subseteq registry
          /\ \A u \in Users : settled[u] => settled'[u]
          /\ \A u \in Users : u \in registry => u \in registry' \/ settled'[u]
      <4>1. CASE task.kind = "exec" /\ RunExec(task.of)
        <5>1. task.of \in Users
          BY <2>b, <4>1
        <5>2. /\ registry' = registry \/ registry' = registry \ {task.of}
              /\ IF settled[task.of] THEN settled' = settled
                                     ELSE settled' = [settled EXCEPT ![task.of] = TRUE]
          BY <4>1 DEF RunExec, Claim, Execute
        <5>3. /\ settled'[task.of]
              /\ \A u \in Users : u # task.of => settled'[u] = settled[u]
          BY <5>1, <5>2 DEF SessionTypeOK
        <5> QED
          BY <5>2, <5>3
      <4>2. CASE task.kind # "exec"
        BY <2>c, <4>2 DEF RunFinish, RunCloseOverlay, RunCallback
      <4> QED
        BY <2>c, <4>1, <4>2
    <3> QED
      BY <2>a, <3>1 DEF PendingInv, Held, Detaching
  <2> QED
    BY <2>1, <2>2, <2>3, <2>4, <2>5
<1>17. CASE Returns
  <2>1. SessionTypeOK'
    <3>1. loop' \in [at : LoopStates, of : SessionThreads]
      BY <1>17 DEF Returns, LoopAt, LoopStates
    <3>2. closing' \in [SessionThreads -> CloseStates]
      BY <1>17 DEF Returns, SessionTypeOK, CloseStates
    <3>3. settlements' \in [Users -> Nat] /\ registry' \subseteq Users
      <4>1. settlements \in [Users -> Nat] /\ registry \subseteq Users
        BY DEF SessionTypeOK
      <4>2. registry' \subseteq Users
        BY <1>17, <4>1 DEF Returns
      <4>3. settlements' = settlements
            \/ settlements' = [settlements EXCEPT ![loop.of] = @ + 1]
        BY <1>17 DEF Returns, SetValue
      <4>4. settlements' \in [Users -> Nat]
        BY <4>1, <4>3
      <4> QED
        BY <4>2, <4>4
    <3> QED
      BY <1>17, <3>1, <3>2, <3>3 DEF Returns, SessionTypeOK
  <2>2. TaskInv'
    BY <1>17 DEF Returns, TaskInv, SessionTypeOK, LoopAt, Users
  <2>3. CoreInv'
    BY <1>17 DEF Returns, CoreInv, SessionTypeOK, LoopAt, Users
  <2>4. PromiseInv'
    <3>1. settled' = settled /\ \A u : ~Answering(u)'
      BY <1>17 DEF Returns, LoopAt, Answering
    <3>2. CASE loop.at \in {"op", "refused"}
      <4>1. Answering(loop.of) /\ loop.of \in Users
        BY <3>2 DEF SessionTypeOK, TaskInv, LoopAt, Answering
      <4>2. settlements' = [settlements EXCEPT ![loop.of] = @ + 1]
        BY <1>17, <3>2 DEF Returns, SetValue
      <4>3. \A u \in Users : u # loop.of => ~Answering(u)
        BY <4>1 DEF LoopAt, Answering
      <4> QED
        BY <3>1, <4>1, <4>2, <4>3 DEF PromiseInv, SessionTypeOK
    <3>3. CASE loop.at \notin {"op", "refused"}
      <4>1. settlements' = settlements /\ \A u : ~Answering(u)
        BY <1>17, <3>3 DEF Returns, LoopAt, Answering
      <4> QED
        BY <3>1, <4>1 DEF PromiseInv
    <3> QED
      BY <3>2, <3>3
  <2>5. PendingInv'
    <3>1. \A u \in Users : u \in registry => u \in registry' \/ settled[u]
      <4>1. CASE loop.at \in {"op", "refused"}
        <5>1. Answering(loop.of) /\ loop.of \in Users /\ registry' = registry \ {loop.of}
          BY <1>17, <4>1 DEF Returns, SessionTypeOK, TaskInv, LoopAt, Answering
        <5> QED
          BY <5>1 DEF PromiseInv
      <4>2. CASE loop.at \notin {"op", "refused"}
        BY <1>17, <4>2 DEF Returns
      <4> QED
        BY <4>1, <4>2
    <3>2. registry' \subseteq registry
      BY <1>17 DEF Returns
    <3> QED
      BY <1>17, <3>1, <3>2 DEF Returns, PendingInv, Held, SessionTypeOK, Detaching
  <2> QED
    BY <2>1, <2>2, <2>3, <2>4, <2>5
<1>22. CASE InvokeInline
  <2>1. SessionTypeOK'
    <3>1. loop' \in [at : LoopStates, of : SessionThreads]
      BY <1>22 DEF InvokeInline, SessionTypeOK, LoopAt, LoopStates
    <3> QED
      BY <1>22, <3>1 DEF InvokeInline, SessionTypeOK
  <2>2. TaskInv'
    BY <1>22 DEF InvokeInline, TaskInv, LoopAt
  <2>3. CoreInv'
    BY <1>22 DEF InvokeInline, CoreInv, SessionTypeOK, LoopAt
  <2>4. PromiseInv'
    BY <1>22 DEF InvokeInline, PromiseInv, SessionTypeOK, LoopAt, Answering
  <2>5. PendingInv'
    BY <1>22 DEF InvokeInline, PendingInv, Held, Detaching
  <2> QED
    BY <2>1, <2>2, <2>3, <2>4, <2>5
<1>18. CASE LoopEnds
  <2>1. SessionTypeOK'
    <3>1. loop' \in [at : LoopStates, of : SessionThreads]
      BY <1>18 DEF LoopEnds, LoopAt, LoopStates
    <3> QED
      BY <1>18, <3>1 DEF LoopEnds, SessionTypeOK
  <2>2. TaskInv'
    BY <1>18 DEF LoopEnds, TaskInv, SessionTypeOK, LoopAt, Users
  <2>3. CoreInv'
    BY <1>18 DEF LoopEnds, CoreInv, SessionTypeOK, LoopAt, Users
  <2>4. PromiseInv'
    BY <1>18 DEF LoopEnds, PromiseInv, SessionTypeOK, LoopAt, Answering, Users
  <2>5. PendingInv'
    BY <1>18 DEF LoopEnds, PendingInv, Held, SessionTypeOK, Detaching, Users
  <2> QED
    BY <2>1, <2>2, <2>3, <2>4, <2>5
<1>19. CASE ThreadExits
  <2>1. SessionTypeOK'
    <3>1. loop' \in [at : LoopStates, of : SessionThreads]
      BY <1>19 DEF ThreadExits, LoopAt, LoopStates
    <3> QED
      BY <1>19, <3>1 DEF ThreadExits, SessionTypeOK
  <2>2. TaskInv'
    BY <1>19 DEF ThreadExits, TaskInv, SessionTypeOK, LoopAt, Users
  <2>3. CoreInv'
    BY <1>19 DEF ThreadExits, CoreInv, SessionTypeOK, LoopAt, Users
  <2>4. PromiseInv'
    BY <1>19 DEF ThreadExits, PromiseInv, SessionTypeOK, LoopAt, Answering, Users
  <2>5. PendingInv'
    BY <1>19 DEF ThreadExits, PendingInv, Held, SessionTypeOK, Detaching, Users
  <2> QED
    BY <2>1, <2>2, <2>3, <2>4, <2>5
<1>20. CASE UNCHANGED sessionVars
  BY <1>20 DEF sessionVars, SessionTypeOK, TaskInv, CoreInv, PromiseInv, PendingInv, Held, Answering
<1> QED
  BY <1>1, <1>2, <1>3, <1>4, <1>5, <1>6, <1>7, <1>8, <1>9, <1>10,
     <1>11, <1>12, <1>13, <1>14, <1>15, <1>16, <1>17, <1>18, <1>19, <1>20, <1>21, <1>22
  DEF SessionNext, Close, ReactorStep, Users

\* The inductive invariant: every task, promise and reference of a close is accounted
\* for at each place the closing threads and the reactor can be (session.cpp:129-209, 922-928, 1315-1353).
THEOREM CloseInvariance ==
    SessionSpec => []CloseInv
  BY CloseInit, CloseStep, PTL DEF SessionSpec

\* A facade operation runs on a live core only, whoever closes the session
\* meanwhile (session.cpp:129-132, 191-209, 524-530).
THEOREM CoreLiveWhenUsed ==
    SessionSpec => []NoUseOfDeadCore
<1>1. CloseInv => NoUseOfDeadCore
  BY DEF CloseInv, CoreInv, NoUseOfDeadCore
<1> QED
  BY <1>1, CloseInvariance, PTL

\* Each promise is given at most one value, and once a thread is through with detach()
\* each is settled, or about to be by the reactor thread or by a thread that has its
\* entry (session.cpp:79-82, 109-120, 534-536).
THEOREM EveryPromiseKept ==
    SessionSpec => []PromisesKept
<1>1. ASSUME CloseInv PROVE SettledAtMostOnce
  BY <1>1 DEF CloseInv, PromiseInv, SettledAtMostOnce
<1>2. ASSUME CloseInv PROVE NobodyStranded
  <2> SUFFICES ASSUME NEW t \in SessionThreads, closing[t] \in CloseStates \ Detaching,
                      NEW u \in Users, call[u] = "blocked", ~Answering(u),
                      ~ \E x \in SessionThreads : closing[x] = "cancel" /\ u \in drained[x]
               PROVE  settlements[u] = 1
    BY DEF NobodyStranded, Detaching
  <2>1. settled[u]
    BY <1>2 DEF CloseInv, PendingInv, Held
  <2> QED
    BY <1>2, <2>1 DEF CloseInv, PromiseInv
<1> QED
  BY <1>1, <1>2, CloseInvariance, PTL DEF PromisesKept

\* The overlay is closed and the core destroyed by the reactor thread, or after it
\* has ended (session.cpp:922-928, 1322-1353).
THEOREM TeardownByReactor ==
    SessionSpec => TeardownOnOwnThread
<1> DEFINE Own == core' # core => \/ loop.at = "exited"
                                  \/ queue # <<>> /\ queue' = Tail(queue)
<1>1. ASSUME CloseInv, [SessionNext]_sessionVars PROVE Own
  <2> USE DEF facadeVars, reactorVars, closeVars
  <2>1. ASSUME NEW u \in Callers, Invoke(u) \/ Return(u) \/ PostCallback(u) PROVE Own
    BY <2>1 DEF Invoke, Return, PostCallback
  <2>2. ASSUME NEW t \in SessionThreads, CloseBegin(t) PROVE Own
    BY <2>2 DEF CloseBegin
  <2>3. ASSUME NEW t \in SessionThreads, Close(t) PROVE Own
    <3>1. CASE DetachAlive(t) \/ DetachGate(t) \/ DetachSwap(t) \/ DetachCancel(t) \/ ReactorClose
      BY <3>1 DEF DetachAlive, DetachGate, DetachSwap, DetachCancel, ReactorClose
    <3>2. CASE CloseLock(t) \/ CloseExchange(t) \/ StopReactor(t) \/ Join(t)
      BY <3>2 DEF CloseLock, CloseExchange, StopReactor, Join
    <3>3. CASE CloseOverlayOnReactor(t) \/ OverlayWait(t)
      <4>1. core' # core => ~running
        BY <3>3 DEF CloseOverlayOnReactor, OverlayWait
      <4>2. ~running => loop.at = "exited"
        BY <1>1 DEF CloseInv, CoreInv
      <4> QED
        BY <4>1, <4>2
    <3>4. CASE ResetCore(t)
      <4>1. closing[t] = "reset"
        BY <3>4 DEF ResetCore
      <4>2. loop.at = "exited"
        BY <1>1, <4>1 DEF CloseInv, CoreInv
      <4> QED
        BY <4>2
    <3> QED
      BY <2>3, <3>1, <3>2, <3>3, <3>4 DEF Close
  <2>4. CASE RunTask
    BY <2>4 DEF RunTask
  <2>5. CASE Returns \/ InvokeInline \/ LoopEnds \/ ThreadExits \/ UNCHANGED sessionVars
    BY <2>5 DEF Returns, InvokeInline, LoopEnds, ThreadExits, sessionVars
  <2> QED
    BY <1>1, <2>1, <2>2, <2>3, <2>4, <2>5 DEF SessionNext, ReactorStep
<1>2. CloseInv /\ [SessionNext]_sessionVars => [Own]_sessionVars
  BY <1>1
<1> QED
  BY <1>2, CloseInvariance, PTL DEF SessionSpec, TeardownOnOwnThread
==============================================================================
