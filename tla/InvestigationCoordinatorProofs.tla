------------------ MODULE InvestigationCoordinatorProofs ------------------
(***************************************************************************)
(* Theorems about InvestigationCoordinator, for any number of invocations, *)
(* investigations, sources and tasks and any limits.                       *)
(***************************************************************************)
EXTENDS InvestigationCoordinator, FiniteSetTheorems, TLAPS

-----------------------------------------------------------------------------
(* The inductive invariant of type correctness *)

\* Where an invocation works on an investigation.
Handling == PC \ {"idle", "claim", "find", "import", "recover"}

\* Where an invocation goes by the task it holds.
AtTask == {"lookup", "read_primary", "adopt", "cancel", "persist", "find",
           "import", "probe", "note"}

\* A META item as it is first put.
Fresh(m) ==
    /\ m.state # "ABSENT" /\ m.source \in SourceKey
    /\ m.due /\ ~m.lease /\ ~m.charged
    /\ m.auto => m.state = "PENDING_ACCOUNT_ASSOCIATION" /\ m.task = NoTask

\* Where an invocation is about to lead the source pointer to its target.
Aims(r) ==
    \/ r.pc \in {"settle", "point"}
    \/ r.pc \in {"release", "recheck", "overwrite"} /\ AfterRelease(r.goal) = "point"

\* The locals an invocation relies on are there when it does, its
\* investigation and its target among those in K.
Sited(r, K) ==
    /\ r.pc \in Handling \/ r.sweep => r.inv \in K
    /\ Aims(r) => r.target \in K
    /\ r.pc \in AtTask => r.task \in Task
    /\ r.pc = "get" => r.snap.task \in Task
    /\ r.pc = "claim" => Fresh(r.snap)

LinkedHasPrimary ==
    \A t \in Task : tasks[t] = "LINKED" => primary[t] \in Task

Known == {i \in Investigation : Exists(i)}

\* An id that was not drawn has left no trace.
UndrawnIsBlank ==
    \A i \in Investigation \ Known : meta[i] = NoMeta /\ tasks[i] = "ABSENT"

\* Pointers lead to items, and the source of every item has one.
PointersKnown ==
    /\ \A s \in SourceKey : pointer[s] \in Known \cup {NoInv}
    /\ \A i \in Known : /\ meta[i].source \in SourceKey
                        /\ pointer[meta[i].source] \in Known

IInv ==
    /\ TypeOK
    /\ LinkedHasPrimary
    /\ UndrawnIsBlank
    /\ PointersKnown
    /\ \A w \in Worker : Sited(run[w], Known)

-----------------------------------------------------------------------------
(* Types of the records an invocation computes *)

LEMMA Absent == NoInv \notin Investigation /\ NoTask \notin Task
  BY ConstantsOK

LEMMA NoMetaType == NoMeta \in Meta
  BY DEF NoMeta, Meta

LEMMA IdleType ==
  ASSUME NEW K \in SUBSET Investigation
  PROVE  Idle \in Run /\ Sited(Idle, K)
  BY NoMetaType DEF Idle, Run, PC, Goal, GoalState, Status, Sited, Handling, AtTask,
     Aims

LEMMA KeptType ==
  ASSUME NEW K \in SUBSET Investigation, NEW r \in Run, Sited(r, K)
  PROVE  Kept(r) \in Run /\ Sited(Kept(r), K)
  BY NoMetaType, IdleType DEF Kept, Run, Sited, UsesSnap, Handling, AtTask, Fresh, Aims

LEMMA NewMetaType ==
  ASSUME NEW s \in Source, NEW auto \in BOOLEAN
  PROVE  NewMeta(s, auto) \in Meta /\ Fresh(NewMeta(s, auto))
  BY NoMetaType DEF NewMeta, NoMeta, Meta, Fresh, State, DueStates, Pending, SourceKey

LEMMA ImportedMetaType ==
  ASSUME NEW t \in Task, NEW st \in Status
  PROVE  ImportedMeta(t, st) \in Meta /\ Fresh(ImportedMeta(t, st))
  BY NoMetaType DEF ImportedMeta, NoMeta, Meta, Fresh, WorkflowState, State,
     DueStates, Terminal, Pending, SourceKey

LEMMA WorkflowStateType ==
  ASSUME NEW st \in Status
  PROVE  WorkflowState(st) \in State \ {"CREATING"}
  BY DEF WorkflowState, State, DueStates, Terminal, Pending

LEMMA ReconcileType ==
  ASSUME NEW K \in SUBSET Investigation, NEW r \in Run, NEW m \in Meta, r.inv \in K
  PROVE  Reconcile(r, m) \in Run /\ Sited(Reconcile(r, m), K)
  <1> DEFINE pc == Dispatch(m)
             q == [r EXCEPT !.pc = pc, !.snap = m]
  <1>1. /\ pc \in {"idle", "start", "get", "create"}
        /\ pc = "get" => m.task \in Task
    BY DEF Dispatch, Meta, Terminal, Pending
  <1>2. Reconcile(r, m) = q
    BY DEF Reconcile
  <1> HIDE DEF pc
  <1>3. q \in Run /\ q.pc = pc /\ q.inv = r.inv /\ q.snap = m
    BY <1>1 DEF Run, PC
  <1> HIDE DEF q
  <1>4. Sited(q, K)
    BY <1>1, <1>3 DEF Sited, AtTask, Aims
  <1> QED BY <1>2, <1>3, <1>4

LEMMA GoalSet ==
    /\ Goal = {"rate_limited", "fetching", "failing", "failed", "create_failed",
               "completed", "linked"}
    /\ \A g \in Goal : GoalState[g] \in State \ {"CREATING"}
  BY DEF Goal, GoalState, State, DueStates, Terminal, Pending

LEMMA CloseType ==
  ASSUME NEW K \in SUBSET Investigation, NEW r \in Run, NEW m \in Meta, r.inv \in K,
         NEW goal \in Goal, NEW target \in K
  PROVE  Close(r, m, goal, target) \in Run /\ Sited(Close(r, m, goal, target), K)
  <1> DEFINE pc == IF m.lease THEN "release" ELSE "settle"
             q == [r EXCEPT !.pc = pc, !.snap = m, !.goal = goal, !.target = target]
  <1>1. Close(r, m, goal, target) = q
    BY DEF Close
  <1>2. pc \in {"release", "settle"}
    OBVIOUS
  <1> HIDE DEF pc
  <1>3. q \in Run /\ q.pc = pc /\ q.inv = r.inv /\ q.target = target
    BY <1>2 DEF Run, PC
  <1> HIDE DEF q
  <1>4. Sited(q, K)
    BY <1>2, <1>3 DEF Sited, AtTask
  <1> QED BY <1>1, <1>3, <1>4

LEMMA CollectType ==
  ASSUME NEW K \in SUBSET Investigation, NEW r \in Run, NEW m \in Meta, r.inv \in K
  PROVE  Collect(r, m) \in Run /\ Sited(Collect(r, m), K)
  <1>1. CASE r.status = "COMPLETED"
    BY <1>1 DEF Collect, Run, PC, Sited, Handling, AtTask, Aims
  <1>2. CASE r.status # "COMPLETED"
    BY <1>2, CloseType, GoalSet DEF Collect
  <1> QED BY <1>1, <1>2

LEMMA FinishType ==
  ASSUME NEW K \in SUBSET Investigation, NEW r \in Run, NEW m \in Meta, r.inv \in K
  PROVE  Finish(r, m) \in Run /\ Sited(Finish(r, m), K)
  <1>1. CASE m.lease
    <2> DEFINE goal == IF r.status = "COMPLETED" THEN "fetching" ELSE "failing"
    <2>1. goal \in Goal /\ AfterRelease(goal) = "refetch"
      BY GoalSet DEF AfterRelease
    <2>2. Finish(r, m) = [r EXCEPT !.pc = "release", !.snap = m, !.goal = goal]
      BY <1>1 DEF Finish
    <2> HIDE DEF goal
    <2> QED BY <2>1, <2>2 DEF Run, PC, Sited, Handling, AtTask, Aims
  <1>2. CASE ~m.lease
    BY <1>2, CollectType DEF Finish
  <1> QED BY <1>1, <1>2

LEMMA ProceedType ==
  ASSUME NEW K \in SUBSET Investigation, NEW r \in Run, NEW m \in Meta, NEW aged \in BOOLEAN,
         r.inv \in K, r.task \in Task
  PROVE  Proceed(r, m, aged) \in Run /\ Sited(Proceed(r, m, aged), K)
  <1>1. CASE r.status \in TerminalStatus
    BY <1>1, FinishType DEF Proceed
  <1>2. CASE r.status \notin TerminalStatus
    BY <1>2 DEF Proceed, Run, PC, Sited, Handling, AtTask, Aims
  <1> QED BY <1>1, <1>2

LEMMA RaisedType ==
  ASSUME NEW K \in SUBSET Investigation, NEW r \in Run, Sited(r, K)
  PROVE  Raised(r) \in Run /\ Sited(Raised(r), K)
  BY DEF Raised, Run, PC, Sited, Handling, AtTask, Aims

LEMMA AfterReleaseType ==
  ASSUME NEW goal \in Goal
  PROVE  AfterRelease(goal) \in {"idle", "refetch", "point"}
  BY DEF AfterRelease

LEMMA WrittenType ==
  ASSUME NEW m \in Meta, NEW K \in SUBSET Investigation, NEW r \in Run
  PROVE  Written(m, r) \in Meta
  <1> DEFINE st == GoalState[r.goal]
             due == r.goal \in KeepsDue
             link == IF r.goal = "linked" THEN r.target ELSE m.linked
  <1>1. st \in State /\ due \in BOOLEAN /\ link \in Investigation \cup {NoInv}
    BY GoalSet DEF Run, Meta
  <1>2. Written(m, r) = [m EXCEPT !.state = st, !.due = due, !.linked = link]
    BY DEF Written
  <1> HIDE DEF st, due, link
  <1> QED BY <1>1, <1>2 DEF Meta

-----------------------------------------------------------------------------
(* Every step of an invocation leaves it with a proper record *)

GoesIn(w, K) == \E r \in Run : Sited(r, K) /\ Go(w, r)
Goes(w) == GoesIn(w, Known)

LEMMA KnownType == Known \in SUBSET Investigation
  BY DEF Known

Closing == {"settle", "point", "release", "recheck", "overwrite"}

\* Elsewhere an investigation and a task are enough.
LEMMA Situated ==
  ASSUME NEW K, NEW q, q.inv \in K, q.pc \notin {"get", "claim"} \cup Closing,
         q.pc \in AtTask => q.task \in Task
  PROVE  Sited(q, K)
  BY DEF Sited, Aims, Closing

LEMMA EnterGoes ==
  ASSUME IInv, NEW w \in Worker, NEW pc \in PC \ ({"get", "claim"} \cup Closing),
         Enter(w, pc),
         pc \in Handling => run[w].inv \in Known,
         pc \in AtTask => run[w].task \in Task
  PROVE  Goes(w)
  <1> DEFINE r == [run[w] EXCEPT !.pc = pc]
  <1>1. r \in Run /\ Sited(r, Known)
    BY DEF IInv, TypeOK, Run, Sited, Aims, Closing
  <1> QED BY <1>1 DEF Enter, Goes, GoesIn

LEMMA EnterClosing ==
  ASSUME IInv, NEW w \in Worker, NEW pc \in Closing, Enter(w, pc),
         run[w].inv \in Known,
         Aims([run[w] EXCEPT !.pc = pc]) => run[w].target \in Known
  PROVE  Goes(w)
  <1> DEFINE r == [run[w] EXCEPT !.pc = pc]
  <1>1. r \in Run
    BY DEF IInv, TypeOK, Run, Closing, PC
  <1>2. r.pc = pc /\ r.inv = run[w].inv /\ r.target = run[w].target
    BY DEF IInv, TypeOK, Run
  <1>3. pc \notin AtTask \cup {"get", "claim"}
    BY DEF Closing, AtTask
  <1>4. Sited(r, Known)
    BY <1>2, <1>3 DEF Sited
  <1> QED BY <1>1, <1>4 DEF Enter, Goes, GoesIn

LEMMA RunType ==
  ASSUME IInv, NEW w \in Worker
  PROVE  run[w] \in Run /\ Sited(run[w], Known) /\ Known \in SUBSET Investigation
  BY KnownType DEF IInv, TypeOK

LEMMA ReadType ==
  ASSUME IInv, NEW w \in Worker, run[w].inv \in Known
  PROVE  Read(w) \subseteq Meta
  BY RunType, KnownType DEF Read, IInv, TypeOK, Run

LEMMA KnownByKnown ==
  ASSUME IInv, NEW t \in Task
  PROVE  KnownBy(t) \subseteq Known
  BY Absent DEF KnownBy, IInv, UndrawnIsBlank, NoMeta

LEMMA TriggerGoes ==
  ASSUME IInv, NEW w \in Worker, Trigger(w)
  PROVE  Goes(w)
  <1>1. ASSUME NEW s \in Source, NEW auto \in BOOLEAN, Request(w, s, auto)
        PROVE  Goes(w)
    <2>1. CASE pointer[s] = NoInv
      <3> DEFINE r == [Idle EXCEPT !.pc = "claim", !.snap = NewMeta(s, auto)]
      <3>1. r \in Run /\ Sited(r, Known)
        BY KnownType, IdleType, NewMetaType DEF Run, Sited, PC, Handling, AtTask, Idle, Aims
      <3> QED BY <1>1, <2>1, <3>1 DEF Request, Goes, GoesIn
    <2>2. CASE pointer[s] # NoInv
      <3> DEFINE r == [Idle EXCEPT !.pc = "pointed", !.inv = pointer[s]]
      <3>1. pointer[s] \in Known
        BY <2>2 DEF IInv, PointersKnown, SourceKey
      <3>2. r \in Run /\ Sited(r, Known)
        BY <3>1, KnownType, IdleType DEF Run, Sited, PC, Handling, AtTask, Idle, Aims
      <3> QED BY <1>1, <2>2, <3>2 DEF Request, Goes, GoesIn
    <2> QED BY <2>1, <2>2
  <1>2. ASSUME NEW i \in Investigation, Sweep(w, i)
        PROVE  Goes(w)
    <2> DEFINE r == [Idle EXCEPT !.inv = i, !.sweep = TRUE]
    <2>0. i \in Known
      BY <1>2 DEF Sweep, Refresh, Known, Exists, DueStates, Pending
    <2>1. r \in Run /\ r.inv \in Known /\ meta[i] \in Meta
      BY <2>0, KnownType, IdleType DEF Run, IInv, TypeOK
    <2> HIDE DEF r
    <2>2. Reconcile(r, meta[i]) \in Run /\ Sited(Reconcile(r, meta[i]), Known)
      BY <2>1, KnownType, ReconcileType
    <2> QED BY <1>2, <2>2 DEF Sweep, Goes, GoesIn, r
  <1>3. ASSUME NEW i \in Investigation, Refresh(w, i)
        PROVE  Goes(w)
    <2> DEFINE r == [Idle EXCEPT !.inv = i]
    <2>0. i \in Known
      BY <1>3 DEF Sweep, Refresh, Known, Exists, DueStates, Pending
    <2>1. r \in Run /\ r.inv \in Known /\ meta[i] \in Meta
      BY <2>0, KnownType, IdleType DEF Run, IInv, TypeOK
    <2> HIDE DEF r
    <2>2. Reconcile(r, meta[i]) \in Run /\ Sited(Reconcile(r, meta[i]), Known)
      BY <2>1, KnownType, ReconcileType
    <2> QED BY <1>3, <2>2 DEF Refresh, Goes, GoesIn, r
  <1>4. ASSUME NEW e \in Event, Deliver(w, e)
        PROVE  Goes(w)
    <2> DEFINE r == [Idle EXCEPT !.pc = "find", !.task = e.task, !.event = {e}]
    <2>1. r \in Run /\ Sited(r, Known)
      BY KnownType, IdleType DEF Run, Sited, PC, Handling, AtTask, Event, Idle, Aims
    <2> QED BY <1>4, <2>1 DEF Deliver, Goes, GoesIn
  <1> QED BY <1>1, <1>2, <1>3, <1>4 DEF Trigger

\* A claim goes on with the item it has put.
LEMMA ClaimGoes ==
  ASSUME IInv, NEW w \in Worker, ClaimSource(w)
  PROVE  \/ Goes(w) /\ UNCHANGED <<meta, pointer>>
         \/ \E i \in Investigation :
              /\ run[w].pc = "claim" /\ Unclaimed(run[w].snap.source)
              /\ meta[i] = NoMeta /\ meta' = Put(i, run[w].snap)
              /\ pointer' = [pointer EXCEPT ![run[w].snap.source] = i]
              /\ GoesIn(w, Known \cup {i})
  <1> DEFINE r == run[w]
  <1>0. /\ r \in Run /\ Sited(r, Known) /\ Known \in SUBSET Investigation
        /\ \A K \in SUBSET Investigation : Idle \in Run /\ Sited(Idle, K)
    BY RunType, IdleType
  <1>1. ASSUME NEW i \in Investigation, r.pc = "claim",
               Go(w, CASE r.snap.task = NoTask ->
                            [[r EXCEPT !.inv = i] EXCEPT !.pc = "start"]
                       [] r.snap.task # NoTask /\ r.status \in TerminalStatus ->
                            Finish([r EXCEPT !.inv = i], r.snap)
                       [] OTHER -> Idle)
        PROVE  GoesIn(w, Known \cup {i})
    <2> DEFINE claimed == [r EXCEPT !.inv = i]
               K == Known \cup {i}
    <2>1. /\ claimed \in Run /\ claimed.inv \in K /\ r.snap \in Meta
          /\ K \in SUBSET Investigation
      BY <1>0 DEF Run
    <2>2. CASE r.snap.task = NoTask
      <3> DEFINE q == [claimed EXCEPT !.pc = "start"]
      <3>1. q \in Run /\ q.pc = "start" /\ q.inv \in K
        BY <1>0 DEF Run, PC
      <3>2. Sited(q, K)
        BY <3>1, Situated DEF AtTask, Closing
      <3> QED BY <1>1, <2>2, <3>1, <3>2 DEF GoesIn
    <2>3. CASE r.snap.task # NoTask /\ r.status \in TerminalStatus
      <3>1. Go(w, Finish(claimed, r.snap))
        BY <1>1, <2>3
      <3> HIDE DEF claimed, K
      <3>2. Finish(claimed, r.snap) \in Run /\ Sited(Finish(claimed, r.snap), K)
        BY <2>1, FinishType
      <3> QED BY <3>1, <3>2 DEF GoesIn, K
    <2>4. CASE r.snap.task # NoTask /\ r.status \notin TerminalStatus
      BY <1>0, <1>1, <2>1, <2>4 DEF GoesIn
    <2> QED BY <2>2, <2>3, <2>4
  <1>2. CASE ~Unclaimed(r.snap.source)
    BY <1>0, <1>2 DEF ClaimSource, Goes, GoesIn
  <1>3. CASE Unclaimed(r.snap.source)
    BY <1>1, <1>3 DEF ClaimSource
  <1> QED BY <1>2, <1>3

\* The first half of Step: up to the provider task and the releases.
LEMMA LeaseStepGoes ==
  ASSUME IInv, NEW w \in Worker,
         \/ ReadPointed(w) \/ NotCovered(w) \/ AcquireLease(w) \/ LeaseRefused(w)
         \/ Diagnose(w) \/ Defer(w) \/ Reread(w)
         \/ CreateOk(w) \/ CreateAmbiguous(w) \/ Ambiguous(w) \/ CreateRejected(w)
         \/ Release(w) \/ ReleaseRefused(w) \/ Recheck(w) \/ Overwrite(w)
         \/ Settle(w) \/ UpdatePointer(w)
  PROVE  Goes(w)
  <1> DEFINE r == run[w]
  <1>0. /\ r \in Run /\ Sited(r, Known)
        /\ Idle \in Run /\ Sited(Idle, Known)
        /\ Known \in SUBSET Investigation
    BY RunType, IdleType
  <1>1. CASE ReadPointed(w)
    <2>1. r.inv \in Known /\ meta[r.inv] \in Meta
      BY <1>0, <1>1 DEF ReadPointed, Sited, Handling, PC, IInv, TypeOK
    <2>2. Reconcile(r, meta[r.inv]) \in Run /\ Sited(Reconcile(r, meta[r.inv]), Known)
      BY <1>0, <2>1, ReconcileType
    <2> QED BY <1>0, <1>1, <2>2 DEF ReadPointed, Goes, GoesIn
  <1>3. CASE NotCovered(w) \/ Defer(w) \/ Ambiguous(w)
    BY <1>0, <1>3 DEF NotCovered, Defer, Ambiguous, Goes, GoesIn
  <1>4. CASE AcquireLease(w)
    BY <1>0, <1>4, EnterGoes DEF AcquireLease, PC, Closing, Handling, AtTask, Sited
  <1>5. CASE LeaseRefused(w)
    BY <1>0, <1>5, EnterGoes DEF LeaseRefused, PC, Closing, Handling, AtTask, Sited
  <1>6. CASE Diagnose(w)
    <2>1. \E pc \in {"idle", "budget", "capacity"} : Enter(w, pc)
      BY <1>6 DEF Diagnose
    <2>2. r.inv \in Known
      BY <1>0, <1>6 DEF Diagnose, Sited, Handling, PC
    <2> QED BY <2>1, <2>2, EnterGoes DEF PC, Closing, Handling, AtTask
  <1>7. CASE Reread(w)
    <2>1. r.inv \in Known
      BY <1>0, <1>7 DEF Reread, Sited, Handling, PC
    <2>2. PICK m \in Meta : Go(w, [r EXCEPT !.pc = "create", !.snap = m])
      BY <1>7, <2>1, ReadType DEF Reread
    <2> DEFINE q == [r EXCEPT !.pc = "create", !.snap = m]
    <2>3. q \in Run
      BY <1>0 DEF Run, PC
    <2>4. Sited(q, Known)
      BY <1>0, <2>1, Situated DEF Run, AtTask, Closing
    <2> QED BY <2>2, <2>3, <2>4 DEF Goes, GoesIn
  <1>8. CASE CreateOk(w)
    <2>1. r.inv \in Known /\ r.inv \in Task
      BY <1>0, <1>8 DEF CreateOk, Sited, Handling, PC, Task
    <2>2. tasks'[r.inv] \in Status
      BY <1>8, <2>1 DEF CreateOk, Submitted, Status, IInv, TypeOK
    <2> DEFINE st == tasks'[r.inv]
               q == [r EXCEPT !.pc = "persist", !.task = r.inv, !.status = st]
    <2>3. Go(w, q)
      BY <1>8 DEF CreateOk
    <2> HIDE DEF st
    <2>4. q \in Run
      BY <1>0, <2>1, <2>2 DEF Run, PC, st
    <2>5. Sited(q, Known)
      BY <1>0, <2>1, Situated DEF Run, Closing
    <2> QED BY <2>3, <2>4, <2>5 DEF Goes, GoesIn
  <1>9. CASE CreateAmbiguous(w)
    BY <1>0, <1>9, EnterGoes DEF CreateAmbiguous, PC, Closing, Handling, AtTask, Sited
  <1>10. CASE CreateRejected(w)
    <2>1. r.inv \in Known /\ r.snap \in Meta
      BY <1>0, <1>10 DEF CreateRejected, Sited, Handling, PC, Run
    <2> DEFINE q == [r EXCEPT !.pc = "release", !.goal = "rate_limited"]
    <2>5. "rate_limited" \in Goal /\ AfterRelease("rate_limited") = "idle"
      BY GoalSet DEF AfterRelease
    <2>2. /\ q \in Run /\ q.pc = "release" /\ q.inv = r.inv
          /\ AfterRelease(q.goal) = "idle"
      BY <1>0, <2>5 DEF Run, PC
    <2>4. Sited(q, Known)
      BY <1>0, <2>1, <2>2 DEF Sited, Aims, AtTask
    <2>3. /\ Close(r, r.snap, "create_failed", r.inv) \in Run
          /\ Sited(Close(r, r.snap, "create_failed", r.inv), Known)
      BY <1>0, <2>1, CloseType, GoalSet
    <2> QED BY <1>10, <2>2, <2>3, <2>4 DEF CreateRejected, Goes, GoesIn
  <1>11. CASE Release(w) \/ Overwrite(w)
    <2>1. r.inv \in Known /\ r.goal \in Goal
      BY <1>0, <1>11 DEF Release, Overwrite, Sited, Handling, PC, Run
    <2>2. AfterRelease(r.goal) \in {"idle", "refetch", "point"}
      BY <2>1, AfterReleaseType
    <2>3. Enter(w, AfterRelease(r.goal))
      BY <1>11 DEF Release, Overwrite
    <2>4. AfterRelease(r.goal) = "point" => r.target \in Known
      BY <1>0, <1>11 DEF Release, Overwrite, Sited, Aims
    <2>5. CASE AfterRelease(r.goal) = "point"
      BY <2>1, <2>3, <2>4, <2>5, EnterClosing DEF Closing
    <2>6. CASE AfterRelease(r.goal) \in {"idle", "refetch"}
      BY <2>1, <2>3, <2>6, EnterGoes DEF PC, Closing, Handling, AtTask
    <2> QED BY <2>2, <2>5, <2>6
  <1>12. CASE ReleaseRefused(w)
    BY <1>0, <1>12, EnterClosing DEF ReleaseRefused, PC, Closing, Handling, Sited,
       Aims, Run
  <1>13. CASE Recheck(w)
    <2>1. /\ r.inv \in Known
          /\ Aims([r EXCEPT !.pc = "overwrite"]) => r.target \in Known
      BY <1>0, <1>13 DEF Recheck, Sited, Handling, PC, Aims, Run
    <2>2. Go(w, Raised(r)) \/ Enter(w, "overwrite")
      BY <1>13 DEF Recheck, Enter
    <2>3. CASE Enter(w, "overwrite")
      BY <2>1, <2>3, EnterClosing DEF Closing
    <2> QED BY <1>0, <2>2, <2>3, RaisedType DEF Goes, GoesIn
  <1>14. CASE Settle(w)
    BY <1>0, <1>14, EnterClosing DEF Settle, PC, Closing, Handling, Sited, Aims
  <1>15. CASE UpdatePointer(w)
    BY <1>0, <1>15, RaisedType DEF UpdatePointer, Goes, GoesIn
  <1> QED BY <1>1, <1>3, <1>4, <1>5, <1>6, <1>7, <1>8, <1>9, <1>10, <1>11,
             <1>12, <1>13, <1>14, <1>15

\* The other half of Step: an investigation that has a task, and its events.
LEMMA TaskStepGoes ==
  ASSUME IInv, NEW w \in Worker,
         \/ PersistTask(w) \/ Refetch(w) \/ SummaryFound(w) \/ SummaryMissing(w)
         \/ SummaryOverdue(w) \/ Wait(w) \/ Reload(w)
         \/ GetTask(w) \/ LookupPrimary(w) \/ ReadPrimary(w) \/ AdoptPrimary(w)
         \/ CancelTask(w) \/ Expire(w)
         \/ FindTask(w) \/ ImportPrimary(w) \/ Probe(w) \/ NoteEvent(w)
         \/ ProviderError(w) \/ Recover(w),
         meta' \in [Investigation -> Meta]
  PROVE  Goes(w)
  <1> DEFINE r == run[w]
  <1>0. /\ r \in Run /\ Sited(r, Known)
        /\ Idle \in Run /\ Sited(Idle, Known)
        /\ meta \in [Investigation -> Meta] /\ Known \in SUBSET Investigation
    BY RunType, IdleType DEF IInv, TypeOK
  <1>1. CASE PersistTask(w)
    <2>1. r.inv \in Known
      BY <1>0, <1>1 DEF PersistTask, Sited, Handling, PC
    <2>2. meta'[r.inv] \in Meta
      BY <1>0, <2>1
    <2>3. /\ Finish(r, meta'[r.inv]) \in Run
          /\ Sited(Finish(r, meta'[r.inv]), Known)
      BY <1>0, <2>1, <2>2, FinishType
    <2> QED BY <1>0, <1>1, <2>3 DEF PersistTask, Goes, GoesIn
  <1>2. CASE Refetch(w)
    <2>1. r.inv \in Known
      BY <1>0, <1>2 DEF Refetch, Sited, Handling, PC
    <2>2. PICK m \in Meta : Go(w, Collect(r, m))
      BY <1>2, <2>1, ReadType DEF Refetch
    <2> QED BY <1>0, <2>1, <2>2, CollectType DEF Goes, GoesIn
  <1>3. CASE SummaryFound(w)
    <2>1. r.inv \in Known /\ r.snap \in Meta /\ meta[r.inv] \in Meta
      BY <1>0, <1>3 DEF SummaryFound, Sited, Handling, PC, Run
    <2>2. PICK m \in Meta : Go(w, [r EXCEPT !.pc = "reload", !.snap = m])
      BY <1>3, <2>1 DEF SummaryFound
    <2> DEFINE q == [r EXCEPT !.pc = "reload", !.snap = m]
    <2>3. q \in Run
      BY <1>0 DEF Run, PC
    <2>4. Sited(q, Known)
      BY <1>0, <2>1, Situated DEF Run, AtTask, Closing
    <2> QED BY <2>2, <2>3, <2>4 DEF Goes, GoesIn
  <1>4. CASE SummaryMissing(w)
    BY <1>0, <1>4, EnterGoes DEF SummaryMissing, PC, Closing, Handling, AtTask, Sited
  <1>5. CASE SummaryOverdue(w)
    <2>1. r.inv \in Known /\ r.snap \in Meta /\ meta[r.inv] \in Meta
      BY <1>0, <1>5 DEF SummaryOverdue, Sited, Handling, PC, Run
    <2>2. PICK m \in Meta : Go(w, Close(r, m, "failed", r.inv))
      BY <1>5, <2>1 DEF SummaryOverdue
    <2> QED BY <1>0, <2>1, <2>2, CloseType, GoalSet DEF Goes, GoesIn
  <1>6. CASE Wait(w) \/ Expire(w) \/ Recover(w)
    BY <1>0, <1>6 DEF Wait, Expire, Recover, Goes, GoesIn
  <1>7. CASE Reload(w)
    <2>1. r.inv \in Known
      BY <1>0, <1>7 DEF Reload, Sited, Handling, PC
    <2>2. PICK m \in Meta : Go(w, Close(r, m, "completed", r.inv))
      BY <1>7, <2>1, ReadType DEF Reload
    <2> QED BY <1>0, <2>1, <2>2, CloseType, GoalSet DEF Goes, GoesIn
  <1>8. CASE GetTask(w)
    <2> DEFINE t == r.snap.task
               got == [r EXCEPT !.task = t, !.status = tasks[t]]
    <2>1. /\ r.inv \in Known /\ t \in Task /\ r.snap \in Meta
          /\ tasks[t] \in Status
      BY <1>0, <1>8 DEF GetTask, Sited, Handling, PC, IInv, TypeOK, Run
    <2>2. CASE tasks[t] = "LINKED"
      <3> DEFINE q == [got EXCEPT !.pc = "lookup", !.task = primary[t]]
      <3>1. primary[t] \in Task
        BY <2>1, <2>2 DEF IInv, LinkedHasPrimary
      <3>2. q \in Run
        BY <1>0, <2>1, <3>1 DEF Run, PC
      <3>3. Sited(q, Known)
        BY <1>0, <2>1, <3>1, Situated DEF Run, Closing
      <3> QED BY <1>8, <2>2, <3>2, <3>3 DEF GetTask, Goes, GoesIn
    <2>3. CASE tasks[t] # "LINKED"
      <3>1. got \in Run /\ got.inv \in Known /\ got.task \in Task
        BY <1>0, <2>1 DEF Run
      <3>2. PICK aged \in BOOLEAN : Go(w, Proceed(got, r.snap, aged))
        BY <1>8, <2>3 DEF GetTask
      <3> HIDE DEF got
      <3> QED BY <1>0, <2>1, <3>1, <3>2, ProceedType DEF Goes, GoesIn
    <2> QED BY <2>2, <2>3
  <1>9. CASE LookupPrimary(w)
    <2>1. r.inv \in Known /\ r.snap \in Meta /\ r.task \in Task
      BY <1>0, <1>9 DEF LookupPrimary, Sited, Handling, PC, Run, AtTask
    <2>2. ASSUME NEW j \in KnownBy(r.task), Go(w, Close(r, r.snap, "linked", j))
          PROVE  Goes(w)
      <3>1. j \in Known
        BY <2>1, KnownByKnown
      <3> QED BY <1>0, <2>1, <2>2, <3>1, CloseType, GoalSet DEF Goes, GoesIn
    <2>3. CASE Enter(w, "read_primary")
      BY <2>1, <2>3, EnterGoes DEF PC, Closing, Handling, AtTask
    <2> QED BY <1>9, <2>2, <2>3 DEF LookupPrimary
  <1>10. CASE ReadPrimary(w)
    <2>1. r.inv \in Known /\ r.task \in Task /\ tasks[r.task] \in Status
      BY <1>0, <1>10 DEF ReadPrimary, Sited, Handling, PC, AtTask, IInv, TypeOK
    <2> DEFINE q == [r EXCEPT !.pc = "adopt", !.status = tasks[r.task]]
    <2>2. q \in Run
      BY <1>0, <2>1 DEF Run, PC
    <2>3. Sited(q, Known)
      BY <1>0, <2>1, Situated DEF Run, Closing
    <2> QED BY <1>10, <2>2, <2>3 DEF ReadPrimary, Goes, GoesIn
  <1>11. CASE AdoptPrimary(w)
    <2>1. r.inv \in Known /\ r.task \in Task /\ r.snap \in Meta
      BY <1>0, <1>11 DEF AdoptPrimary, Sited, Handling, PC, AtTask, Run
    <2> DEFINE m == [meta'[r.inv] EXCEPT !.state = r.snap.state]
    <2>2. m \in Meta
      <3>1. meta'[r.inv] \in Meta
        BY <1>0, <2>1
      <3> QED BY <2>1, <3>1 DEF Meta
    <2>3. PICK aged \in BOOLEAN : Go(w, Proceed(r, m, aged))
      BY <1>11 DEF AdoptPrimary
    <2> HIDE DEF m
    <2> QED BY <1>0, <2>1, <2>2, <2>3, ProceedType DEF Goes, GoesIn
  <1>12. CASE CancelTask(w)
    BY <1>0, <1>12, EnterGoes DEF CancelTask, PC, Closing, Handling, AtTask, Sited
  <1>13. CASE FindTask(w)
    <2>1. r.task \in Task
      BY <1>0, <1>13 DEF FindTask, Sited, AtTask
    <2>2. ASSUME NEW i \in KnownBy(r.task),
                 Go(w, [r EXCEPT !.pc = "probe", !.inv = i, !.snap = meta[i]])
          PROVE  Goes(w)
      <3> DEFINE q == [r EXCEPT !.pc = "probe", !.inv = i, !.snap = meta[i]]
      <3>1. i \in Known /\ meta[i] \in Meta
        BY <1>0, <2>1, KnownByKnown
      <3>2. q \in Run
        BY <1>0, <3>1 DEF Run, PC
      <3>3. Sited(q, Known)
        BY <1>0, <2>1, <3>1, Situated DEF Run, Closing
      <3> QED BY <2>2, <3>2, <3>3 DEF Goes, GoesIn
    <2>3. ASSUME primary[r.task] # NoTask,
                 Go(w, [r EXCEPT !.pc = "import", !.task = primary[r.task]])
          PROVE  Goes(w)
      <3> DEFINE q == [r EXCEPT !.pc = "import", !.task = primary[r.task]]
      <3>1. primary[r.task] \in Task
        BY <2>1, <2>3 DEF IInv, TypeOK
      <3>2. q \in Run
        BY <1>0, <3>1 DEF Run, PC
      <3>3. q.pc = "import" /\ q.task \in Task /\ q.sweep = r.sweep /\ q.inv = r.inv
        BY <1>0, <3>1 DEF Run
      <3>4. Sited(q, Known)
        BY <1>0, <3>3 DEF Sited, Handling, Aims
      <3> QED BY <2>3, <3>2, <3>4 DEF Goes, GoesIn
    <2>4. CASE Go(w, Idle)
      BY <1>0, <2>4 DEF Goes, GoesIn
    <2> QED BY <1>13, <2>2, <2>3, <2>4 DEF FindTask
  <1>14. CASE ImportPrimary(w)
    <2> DEFINE st == tasks[r.task]
               m == ImportedMeta(r.task, st)
               q == [r EXCEPT !.pc = "claim", !.status = st, !.snap = m]
    <2>1. r.task \in Task /\ st \in Status
      BY <1>0, <1>14 DEF ImportPrimary, Sited, AtTask, IInv, TypeOK
    <2>2. m \in Meta /\ Fresh(m)
      BY <2>1, ImportedMetaType
    <2>3. Go(w, q)
      BY <1>14 DEF ImportPrimary
    <2> HIDE DEF m, st
    <2>4. q \in Run
      BY <1>0, <2>1, <2>2 DEF Run, PC
    <2>5. q.pc = "claim" /\ q.snap = m /\ q.sweep = r.sweep /\ q.inv = r.inv
      BY <1>0 DEF Run
    <2>6. Sited(q, Known)
      BY <1>0, <2>2, <2>5 DEF Sited, Handling, AtTask, Aims
    <2> QED BY <2>3, <2>4, <2>6 DEF Goes, GoesIn
  <1>15. CASE Probe(w)
    <2>1. /\ r.inv \in Known /\ r.task \in Task /\ r.snap \in Meta
          /\ tasks[r.task] \in Status
      BY <1>0, <1>15 DEF Probe, Sited, Handling, PC, AtTask, IInv, TypeOK, Run
    <2> DEFINE q == [r EXCEPT !.pc = "note", !.status = tasks[r.task]]
    <2>2. q \in Run
      BY <1>0, <2>1 DEF Run, PC
    <2>3. Sited(q, Known)
      BY <1>0, <2>1, Situated DEF Run, Closing
    <2>4. Reconcile(r, r.snap) \in Run /\ Sited(Reconcile(r, r.snap), Known)
      BY <1>0, <2>1, ReconcileType
    <2> QED BY <1>15, <2>2, <2>3, <2>4 DEF Probe, Goes, GoesIn
  <1>16. CASE NoteEvent(w)
    <2> DEFINE m == meta[r.inv]
               q == [r EXCEPT !.pc = "persist", !.snap = m]
    <2>1. r.inv \in Known /\ r.task \in Task /\ m \in Meta
      BY <1>0, <1>16 DEF NoteEvent, Sited, Handling, PC, AtTask
    <2>2. q \in Run
      BY <1>0, <2>1 DEF Run, PC
    <2>3. Sited(q, Known)
      BY <1>0, <2>1, Situated DEF Run, Closing
    <2>4. Finish(r, m) \in Run /\ Sited(Finish(r, m), Known)
      BY <1>0, <2>1, FinishType
    <2> QED BY <1>16, <2>2, <2>3, <2>4 DEF NoteEvent, Goes, GoesIn
  <1>17. CASE ProviderError(w)
    BY <1>0, <1>17, RaisedType DEF ProviderError, Goes, GoesIn
  <1> QED BY <1>1, <1>2, <1>3, <1>4, <1>5, <1>6, <1>7, <1>8, <1>9, <1>10, <1>11,
             <1>12, <1>13, <1>14, <1>15, <1>16, <1>17

-----------------------------------------------------------------------------
(* What a step writes to the table and at the provider *)

StoreTyped ==
    /\ meta \in [Investigation -> Meta]
    /\ pointer \in [SourceKey -> Investigation \cup {NoInv}]
    /\ active \in Nat
    /\ automaticCount \in Nat
    /\ processed \subseteq Event

ProviderTyped ==
    /\ tasks \in [Task -> Status]
    /\ primary \in [Task -> Task \cup {NoTask}]
    /\ LinkedHasPrimary

\* The steps of an invocation that only read.
ReadOnly(w) ==
    \/ ReadPointed(w) \/ LeaseRefused(w) \/ Diagnose(w) \/ Reread(w)
    \/ CreateOk(w) \/ CreateAmbiguous(w) \/ CreateRejected(w)
    \/ ReleaseRefused(w) \/ Recheck(w)
    \/ Refetch(w) \/ SummaryFound(w) \/ SummaryMissing(w) \/ SummaryOverdue(w)
    \/ Reload(w) \/ GetTask(w) \/ LookupPrimary(w) \/ ReadPrimary(w)
    \/ CancelTask(w) \/ FindTask(w) \/ ImportPrimary(w) \/ Probe(w)
    \/ NoteEvent(w) \/ ProviderError(w)

Writes(w) ==
    \/ ClaimSource(w) \/ NotCovered(w) \/ AcquireLease(w) \/ Defer(w)
    \/ Ambiguous(w) \/ PersistTask(w) \/ Release(w) \/ Overwrite(w) \/ Settle(w)
    \/ UpdatePointer(w) \/ Wait(w) \/ AdoptPrimary(w) \/ Expire(w) \/ Recover(w)

LEMMA StepSplit ==
  ASSUME NEW w \in Worker, Step(w)
  PROVE  ReadOnly(w) \/ Writes(w)
  BY DEF Step, ReadOnly, Writes

LEMMA ReadOnlyStore ==
  ASSUME NEW w \in Worker, ReadOnly(w)
  PROVE  UNCHANGED store
  BY DEF ReadOnly, ReadPointed, LeaseRefused, Diagnose, Reread, CreateOk,
     CreateAmbiguous, CreateRejected, ReleaseRefused, Recheck, Refetch,
     SummaryFound, SummaryMissing, SummaryOverdue, Reload, GetTask,
     LookupPrimary, ReadPrimary, CancelTask, FindTask, ImportPrimary, Probe,
     NoteEvent, ProviderError

\* What an update of META, old item m and new item n, never does whichever
\* invocation r makes it.
Keeps(m, n, r) ==
    /\ n.source = m.source /\ n.auto = m.auto
    /\ m.charged => n.charged
    /\ m.state # "ABSENT" => n.state # "ABSENT"
    /\ (m.state \in DueStates => m.due) => (n.state \in DueStates => n.due)
    /\ n.state = "CREATING" => m.state = "CREATING" \/ r.pc \in {"start", "ambiguous"}
    /\ n.lease => m.lease \/ r.pc = "start"

Updates(w) == Writes(w) /\ ~ClaimSource(w) /\ ~UpdatePointer(w)

LEMMA WrittenKeeps ==
  ASSUME NEW m \in Meta, NEW r \in Run
  PROVE  /\ Written(m, r) \in Meta
         /\ Keeps(m, Written(m, r), r)
         /\ [Written(m, r) EXCEPT !.lease = FALSE] \in Meta
         /\ Keeps(m, [Written(m, r) EXCEPT !.lease = FALSE], r)
  <1> DEFINE n == Written(m, r)
  <1>1. n \in Meta
    BY WrittenType
  <1>2. /\ n.state = GoalState[r.goal] /\ n.due = (r.goal \in KeepsDue)
        /\ n.source = m.source /\ n.auto = m.auto /\ n.charged = m.charged
        /\ n.lease = m.lease
    BY DEF Written, Meta
  <1>3. GoalState[r.goal] \notin {"ABSENT", "CREATING"}
    BY GoalSet DEF Run, State, DueStates, Terminal, Pending
  <1>4. GoalState[r.goal] \in DueStates => r.goal \in KeepsDue
    BY GoalSet DEF Run, GoalState, DueStates, Pending, KeepsDue
  <1>5. Keeps(m, n, r)
    BY <1>2, <1>3, <1>4 DEF Keeps
  <1> HIDE DEF n
  <1> DEFINE q == [n EXCEPT !.lease = FALSE]
  <1>6. q \in Meta
    BY <1>1 DEF Meta
  <1>7. /\ q.state = n.state /\ q.due = n.due /\ q.source = n.source
        /\ q.auto = n.auto /\ q.charged = n.charged /\ ~q.lease
    BY <1>1 DEF Meta
  <1> HIDE DEF q
  <1>8. Keeps(m, q, r)
    BY <1>5, <1>7 DEF Keeps
  <1> QED BY <1>1, <1>5, <1>6, <1>8 DEF n, q

LEMMA UpdateKeeps ==
  ASSUME IInv, NEW w \in Worker, Updates(w)
  PROVE  \/ UNCHANGED meta
         \/ /\ run[w].inv \in Known
            /\ \E n \in Meta : /\ meta' = Updated(run[w].inv, n)
                              /\ Keeps(meta[run[w].inv], n, run[w])
  <1> DEFINE r == run[w]
             m == meta[r.inv]
             Kind == /\ r.inv \in Known
                     /\ \E n \in Meta : meta' = Updated(r.inv, n) /\ Keeps(m, n, r)
  <1>0. /\ r \in Run /\ Sited(r, Known) /\ meta \in [Investigation -> Meta]
        /\ \A i \in Known : meta[i] \in Meta
    BY RunType DEF IInv, TypeOK
  <1>1. CASE NotCovered(w)
    <2> DEFINE n == [m EXCEPT !.state = "PENDING_ACCOUNT_ASSOCIATION", !.due = TRUE]
    <2>1. r.inv \in Known /\ m \in Meta
      BY <1>0, <1>1 DEF NotCovered, Sited, Handling, PC
    <2>2. n \in Meta /\ Keeps(m, n, r)
      BY <2>1 DEF Meta, State, DueStates, Pending, Keeps
    <2> QED BY <1>1, <2>1, <2>2 DEF NotCovered
  <1>2. CASE AcquireLease(w)
    <2> DEFINE paid == m.charged \/ ConsumesBudget(r)
               n == [m EXCEPT !.lease = TRUE, !.state = "CREATING", !.due = TRUE,
                              !.charged = paid]
    <2>1. r.inv \in Known /\ m \in Meta
      BY <1>0, <1>2 DEF AcquireLease, Sited, Handling, PC
    <2>2. meta' = Updated(r.inv, n) /\ r.pc = "start"
      BY <1>2, <2>1 DEF AcquireLease, Meta
    <2>3. paid \in BOOLEAN /\ (m.charged => paid)
      OBVIOUS
    <2> HIDE DEF paid
    <2>4. n \in Meta /\ Keeps(m, n, r)
      BY <2>1, <2>2, <2>3 DEF Meta, State, DueStates, Keeps
    <2> QED BY <2>1, <2>2, <2>4
  <1>3. CASE Defer(w)
    <2> DEFINE st == IF r.pc = "capacity" THEN "PENDING_CONCURRENCY_LIMIT"
                                          ELSE "PENDING_RATE_LIMIT"
               n == [m EXCEPT !.due = TRUE, !.state = st]
    <2>1. r.inv \in Known /\ m \in Meta
      BY <1>0, <1>3 DEF Defer, Sited, Handling, PC
    <2>2. meta' = Updated(r.inv, n)
      BY <1>3 DEF Defer
    <2>3. st \in Pending
      BY DEF Pending
    <2>4. st \in DueStates /\ st \in State /\ st \notin {"CREATING", "ABSENT"}
      BY DEF State, DueStates, Pending
    <2> HIDE DEF st
    <2>5. n \in Meta
      BY <2>1, <2>4 DEF Meta
    <2>6. Keeps(m, n, r)
      BY <2>1, <2>3, <2>4 DEF Meta, Keeps
    <2> QED BY <2>1, <2>2, <2>5, <2>6
  <1>4. CASE Ambiguous(w)
    <2> DEFINE n == [m EXCEPT !.state = "CREATING", !.due = TRUE]
    <2>1. r.inv \in Known /\ m \in Meta /\ r.pc = "ambiguous"
      BY <1>0, <1>4 DEF Ambiguous, Sited, Handling, PC
    <2>2. n \in Meta /\ Keeps(m, n, r)
      BY <2>1 DEF Meta, State, DueStates, Keeps
    <2> QED BY <1>4, <2>1, <2>2 DEF Ambiguous
  <1>5. CASE PersistTask(w)
    <2> DEFINE st == WorkflowState(r.status)
               n == [m EXCEPT !.task = r.task, !.state = st, !.due = TRUE]
    <2>1. r.inv \in Known /\ m \in Meta
      BY <1>0, <1>5 DEF PersistTask, Sited, Handling, PC
    <2>2. r.task \in Task /\ st \in State \ {"CREATING"}
      BY <1>0, <1>5, WorkflowStateType DEF PersistTask, Sited, AtTask, Run
    <2>3. meta' = Updated(r.inv, n)
      BY <1>5 DEF PersistTask
    <2> HIDE DEF st
    <2>4. n \in Meta
      BY <2>1, <2>2 DEF Meta
    <2>5. st \notin {"ABSENT", "CREATING"}
      BY <2>2 DEF State, DueStates, Terminal, Pending
    <2>6. Keeps(m, n, r)
      BY <2>1, <2>5 DEF Meta, Keeps
    <2> QED BY <2>1, <2>3, <2>4, <2>6
  <1>6. CASE Release(w) \/ Overwrite(w) \/ Settle(w)
    <2>1. r.inv \in Known /\ m \in Meta
      BY <1>0, <1>6 DEF Release, Overwrite, Settle, Sited, Handling, PC
    <2> QED BY <1>0, <1>6, <2>1, WrittenKeeps DEF Release, Overwrite, Settle
  <1>7. CASE Wait(w)
    <2> DEFINE n == [m EXCEPT !.state = "FETCHING_RESULTS", !.due = TRUE,
                              !.fetching = TRUE]
    <2>1. r.inv \in Known /\ m \in Meta
      BY <1>0, <1>7 DEF Wait, Sited, Handling, PC
    <2>2. n \in Meta /\ Keeps(m, n, r)
      BY <2>1 DEF Meta, State, DueStates, Keeps
    <2> QED BY <1>7, <2>1, <2>2 DEF Wait
  <1>8. CASE AdoptPrimary(w)
    <2> DEFINE n == [m EXCEPT !.task = r.task]
    <2>1. r.inv \in Known /\ m \in Meta /\ r.task \in Task
      BY <1>0, <1>8 DEF AdoptPrimary, Sited, Handling, PC, AtTask
    <2>2. n \in Meta /\ Keeps(m, n, r)
      BY <2>1 DEF Meta, Keeps
    <2> QED BY <1>8, <2>1, <2>2 DEF AdoptPrimary
  <1>9. CASE Expire(w)
    <2> DEFINE n == [m EXCEPT !.state = "EXPIRING", !.due = TRUE]
    <2>1. r.inv \in Known /\ m \in Meta
      BY <1>0, <1>9 DEF Expire, Sited, Handling, PC
    <2>2. n \in Meta /\ Keeps(m, n, r)
      BY <2>1 DEF Meta, State, DueStates, Keeps
    <2> QED BY <1>9, <2>1, <2>2 DEF Expire
  <1>10. CASE Recover(w)
    <2>1. CASE r.sweep
      <3> DEFINE n == [m EXCEPT !.due = TRUE]
      <3>1. r.inv \in Known /\ m \in Meta
        BY <1>0, <2>1 DEF Sited
      <3>2. n \in Meta /\ Keeps(m, n, r)
        BY <3>1 DEF Meta, Keeps
      <3> QED BY <1>10, <2>1, <3>1, <3>2 DEF Recover
    <2>2. CASE ~r.sweep
      BY <1>10, <2>2 DEF Recover
    <2> QED BY <2>1, <2>2
  <1> QED BY <1>1, <1>2, <1>3, <1>4, <1>5, <1>6, <1>7, <1>8, <1>9, <1>10
          DEF Updates, Writes

LEMMA UpdateCounters ==
  ASSUME IInv, NEW w \in Worker, Updates(w)
  PROVE  /\ UNCHANGED pointer
         /\ active' \in Nat /\ automaticCount' \in Nat
         /\ processed' \subseteq Event
  BY DEF Updates, Writes, NotCovered, AcquireLease, Defer, Ambiguous, PersistTask,
     Release, CanRelease, Freed, Overwrite, Settle, Wait, AdoptPrimary, Expire,
     Recover, IInv, TypeOK, provider

LEMMA PointedKnown ==
  ASSUME IInv, NEW w \in Worker, run[w].pc = "point"
  PROVE  /\ run[w].inv \in Known /\ run[w].target \in Known
         /\ meta[run[w].inv].source \in SourceKey
  BY RunType DEF Sited, Handling, PC, Aims, IInv, PointersKnown

LEMMA WritesStore ==
  ASSUME IInv, NEW w \in Worker, Writes(w)
  PROVE  StoreTyped'
  <1> DEFINE r == run[w]
  <1>0. r \in Run /\ Sited(r, Known)
    BY RunType
  <1>t. StoreTyped
    BY DEF IInv, TypeOK, StoreTyped
  <1>1. CASE ClaimSource(w)
    <2>1. CASE UNCHANGED <<meta, pointer>>
      BY <1>t, <1>1, <2>1 DEF ClaimSource, StoreTyped
    <2>2. ASSUME NEW i \in Investigation, meta' = Put(i, r.snap),
                 pointer' = [pointer EXCEPT ![r.snap.source] = i]
          PROVE  StoreTyped'
      <3>1. r.snap \in Meta
        BY <1>0 DEF Run
      <3> QED BY <1>t, <1>1, <2>2, <3>1 DEF ClaimSource, Put, StoreTyped
    <2> QED BY <1>1, <2>1, <2>2 DEF ClaimSource
  <1>2. CASE UpdatePointer(w)
    BY <1>0, <1>t, <1>2 DEF UpdatePointer, StoreTyped, Run
  <1>3. CASE Updates(w)
    <2>1. meta' \in [Investigation -> Meta]
      BY <1>t, <1>3, UpdateKeeps DEF StoreTyped, Updated
    <2> QED BY <1>t, <1>3, <2>1, UpdateCounters DEF StoreTyped
  <1> QED BY <1>1, <1>2, <1>3 DEF Updates

\* An update of an item draws no id, and leaves all items where they were.
LEMMA UpdateKnown ==
  ASSUME IInv, NEW w \in Worker, Updates(w)
  PROVE  /\ Known' = Known /\ PointersKnown'
         /\ \A i \in Investigation \ Known' : meta'[i] = NoMeta
  <1> USE DEF IInv, UndrawnIsBlank, PointersKnown
  <1>1. CASE UNCHANGED meta
    <2>1. Known' = Known
      BY <1>1 DEF Known, Exists
    <2> QED BY <1>1, <2>1, UpdateCounters
  <1>2. ASSUME run[w].inv \in Known, NEW n \in Meta, meta' = Updated(run[w].inv, n),
               Keeps(meta[run[w].inv], n, run[w])
        PROVE  /\ Known' = Known /\ PointersKnown'
               /\ \A i \in Investigation \ Known' : meta'[i] = NoMeta
    <2>1. /\ meta'[run[w].inv] = n
          /\ \A i \in Investigation \ {run[w].inv} : meta'[i] = meta[i]
      BY <1>2, KnownType DEF Updated, TypeOK
    <2>2. n.state # "ABSENT" /\ n.source = meta[run[w].inv].source
      BY <1>2 DEF Keeps, Known, Exists
    <2>3. Known' = Known
      BY <1>2, <2>1, <2>2 DEF Known, Exists
    <2>4. \A i \in Known : meta'[i].source = meta[i].source
      BY <2>1, <2>2, KnownType
    <2>5. PointersKnown'
      BY <2>3, <2>4, UpdateCounters
    <2> QED BY <1>2, <2>1, <2>3, <2>5
  <1> QED BY <1>1, <1>2, UpdateKeeps

\* A claim draws one id and points the source to it.
LEMMA ClaimKnown ==
  ASSUME IInv, NEW i \in Investigation, NEW m \in Meta, Fresh(m),
         Unclaimed(m.source), meta[i] = NoMeta, meta' = Put(i, m),
         pointer' = [pointer EXCEPT ![m.source] = i]
  PROVE  /\ Known' = Known \cup {i} /\ PointersKnown'
         /\ \A j \in Investigation \ Known' : meta'[j] = NoMeta
  <1> USE DEF IInv, UndrawnIsBlank, PointersKnown
  <1>1. meta'[i] = m /\ \A j \in Investigation \ {i} : meta'[j] = meta[j]
    BY DEF Put, TypeOK
  <1>2. m.state # "ABSENT" /\ m.source \in SourceKey /\ i \notin Known
    BY DEF Fresh, Known, Exists, NoMeta
  <1>3. Known' = Known \cup {i}
    BY <1>1, <1>2 DEF Known, Exists
  <1>4. /\ pointer'[m.source] = i
        /\ \A s \in SourceKey \ {m.source} : pointer'[s] = pointer[s]
    BY <1>2 DEF TypeOK
  <1>5. \A s \in SourceKey : pointer'[s] \in Known' \cup {NoInv}
    BY <1>3, <1>4
  <1>6. \A j \in Known' : meta'[j].source \in SourceKey
    BY <1>1, <1>2, <1>3, KnownType
  <1>7. \A j \in Known : pointer'[meta'[j].source] \in Known'
    BY <1>1, <1>2, <1>3, <1>4, KnownType
  <1>8. PointersKnown'
    BY <1>1, <1>3, <1>4, <1>5, <1>6, <1>7
  <1> QED BY <1>1, <1>3, <1>8

LEMMA PointKnown ==
  ASSUME IInv, NEW w \in Worker, UpdatePointer(w)
  PROVE  /\ Known' = Known /\ PointersKnown'
         /\ \A i \in Investigation \ Known' : meta'[i] = NoMeta
  <1> USE DEF IInv, UndrawnIsBlank, PointersKnown
  <1>1. UNCHANGED meta /\ Known' = Known
    BY DEF UpdatePointer, Known, Exists
  <1>2. \A s \in SourceKey : pointer'[s] \in {pointer[s], run[w].target}
    BY PointedKnown DEF UpdatePointer, TypeOK
  <1>3. pointer'[meta[run[w].inv].source] = run[w].target
    BY PointedKnown DEF UpdatePointer, TypeOK
  <1>4. PointersKnown'
    BY <1>1, <1>2, <1>3, PointedKnown DEF UpdatePointer
  <1> QED BY <1>1, <1>4

LEMMA TriggerStore ==
  ASSUME IInv, NEW w \in Worker, Trigger(w)
  PROVE  StoreTyped' /\ UNCHANGED <<meta, pointer, active, automaticCount, provider>>
  BY DEF Trigger, Request, Sweep, Refresh, Deliver, IInv, TypeOK, StoreTyped, store

LEMMA StepProvider ==
  ASSUME IInv, NEW w \in Worker, Step(w)
  PROVE  ProviderTyped'
  <1>t. ProviderTyped
    BY DEF IInv, TypeOK, ProviderTyped
  <1>1. CASE CreateOk(w) \/ CreateAmbiguous(w)
    <2>1. UNCHANGED primary
      BY <1>1 DEF CreateOk, CreateAmbiguous
    <2>2. \/ UNCHANGED tasks
          \/ \E st \in ActiveStatus : tasks' = [tasks EXCEPT ![run[w].inv] = st]
      BY <1>1 DEF CreateOk, CreateAmbiguous, Submitted
    <2>3. ActiveStatus \subseteq Status \ {"LINKED"}
      BY ConstantsOK DEF Status
    <2> QED BY <1>t, <2>1, <2>2, <2>3 DEF ProviderTyped, LinkedHasPrimary
  <1>2. CASE CancelTask(w)
    BY <1>t, <1>2 DEF CancelTask, ProviderTyped, LinkedHasPrimary, Status,
       TerminalStatus
  <1>3. CASE UNCHANGED provider
    BY <1>t, <1>3 DEF provider, ProviderTyped, LinkedHasPrimary
  <1> QED BY <1>1, <1>2, <1>3 DEF Step, ReadPointed, ClaimSource, NotCovered,
             AcquireLease, LeaseRefused, Diagnose, Defer, Reread, Ambiguous,
             CreateRejected, PersistTask, Release, ReleaseRefused, Recheck,
             Overwrite, Settle, UpdatePointer, Refetch, SummaryFound,
             SummaryMissing, SummaryOverdue, Wait, Reload, GetTask,
             LookupPrimary, ReadPrimary, AdoptPrimary, Expire, FindTask,
             ImportPrimary, Probe, NoteEvent, ProviderError, Recover

\* Only a task that was submitted for a known investigation stops being absent.
LEMMA StepBlank ==
  ASSUME IInv, NEW w \in Worker, Step(w), NEW i \in Investigation \ Known
  PROVE  tasks'[i] = "ABSENT"
  <1>0. tasks[i] = "ABSENT" /\ i \in Task /\ tasks \in [Task -> Status]
    BY DEF IInv, UndrawnIsBlank, Task, TypeOK
  <1>1. CASE CreateOk(w) \/ CreateAmbiguous(w)
    <2>1. run[w].inv \in Known
      BY <1>1, RunType DEF CreateOk, CreateAmbiguous, Sited, Handling, PC
    <2> QED BY <1>0, <1>1, <2>1 DEF CreateOk, CreateAmbiguous, Submitted
  <1>2. CASE CancelTask(w)
    BY <1>0, <1>2, ConstantsOK DEF CancelTask
  <1>3. CASE UNCHANGED provider
    BY <1>0, <1>3 DEF provider
  <1> QED BY <1>1, <1>2, <1>3 DEF Step, ReadPointed, ClaimSource, NotCovered,
             AcquireLease, LeaseRefused, Diagnose, Defer, Reread, Ambiguous,
             CreateRejected, PersistTask, Release, ReleaseRefused, Recheck,
             Overwrite, Settle, UpdatePointer, Refetch, SummaryFound,
             SummaryMissing, SummaryOverdue, Wait, Reload, GetTask,
             LookupPrimary, ReadPrimary, AdoptPrimary, Expire, FindTask,
             ImportPrimary, Probe, NoteEvent, ProviderError, Recover

LEMMA EnvironmentType ==
  ASSUME IInv, Environment
  PROVE  StoreTyped' /\ ProviderTyped' /\ UNCHANGED run
  <1>t. StoreTyped /\ ProviderTyped
    BY DEF IInv, TypeOK, StoreTyped, ProviderTyped
  <1>s. ActiveStatus \cup TerminalStatus \subseteq Status \ {"LINKED"}
    BY ConstantsOK DEF Status, TerminalStatus
  <1>1. ASSUME NEW t \in ExternalTask, ExternalStart(t)
        PROVE  StoreTyped' /\ ProviderTyped' /\ UNCHANGED run
    BY <1>t, <1>s, <1>1 DEF ExternalStart, store, StoreTyped, ProviderTyped,
       LinkedHasPrimary
  <1>2. ASSUME NEW t \in Task, TaskProgress(t)
        PROVE  StoreTyped' /\ ProviderTyped' /\ UNCHANGED run
    BY <1>t, <1>s, <1>2 DEF TaskProgress, store, StoreTyped, ProviderTyped,
       LinkedHasPrimary
  <1>3. ASSUME NEW t \in LinkedTask, NEW p \in Task, LinkTask(t, p)
        PROVE  StoreTyped' /\ ProviderTyped' /\ UNCHANGED run
    BY <1>t, <1>3 DEF LinkTask, store, StoreTyped, ProviderTyped,
       LinkedHasPrimary, Status
  <1>4. ASSUME NewDay
        PROVE  StoreTyped' /\ ProviderTyped' /\ UNCHANGED run
    BY <1>t, <1>4 DEF NewDay, provider, StoreTyped, ProviderTyped, LinkedHasPrimary
  <1> QED BY <1>1, <1>2, <1>3, <1>4 DEF Environment

LEMMA EnvironmentBlank ==
  ASSUME IInv, Environment, NEW i \in Investigation \ Known
  PROVE  tasks'[i] = "ABSENT"
  <1>0. tasks[i] = "ABSENT" /\ i \in Task /\ tasks \in [Task -> Status]
    BY DEF IInv, UndrawnIsBlank, Task, TypeOK
  <1>1. "ABSENT" \notin ActiveStatus /\ i \notin ExternalTask
    BY ConstantsOK
  <1> QED BY <1>0, <1>1 DEF Environment, ExternalStart, TaskProgress, LinkTask, NewDay,
             provider

-----------------------------------------------------------------------------
(* Type correctness *)

LEMMA TypedInit ==
  ASSUME Init
  PROVE  IInv
  <1>1. TypeOK
    BY NoMetaType, IdleType DEF Init, TypeOK, Status
  <1>2. LinkedHasPrimary
    BY DEF Init, LinkedHasPrimary
  <1>3. \A w \in Worker : Sited(run[w], Known)
    BY IdleType, KnownType DEF Init
  <1>4. UndrawnIsBlank
    BY DEF Init, UndrawnIsBlank, Task
  <1>5. PointersKnown
    BY DEF Init, PointersKnown, Known, Exists, NoMeta
  <1> QED BY <1>1, <1>2, <1>3, <1>4, <1>5 DEF IInv

LEMMA TypedFromParts ==
  ASSUME StoreTyped', ProviderTyped', UndrawnIsBlank', PointersKnown',
         run' \in [Worker -> Run], \A w \in Worker : Sited(run'[w], Known')
  PROVE  IInv'
  BY DEF StoreTyped, ProviderTyped, IInv, TypeOK

LEMMA SitedMore ==
  ASSUME NEW K \in SUBSET Investigation, NEW L \in SUBSET Investigation, K \subseteq L,
         NEW r, Sited(r, K)
  PROVE  Sited(r, L)
  BY DEF Sited

LEMMA GoesRuns ==
  ASSUME IInv, NEW w \in Worker, NEW K \in SUBSET Investigation, Known \subseteq K,
         GoesIn(w, K)
  PROVE  run' \in [Worker -> Run] /\ \A v \in Worker : Sited(run'[v], K)
  <1>1. PICK r \in Run : Sited(r, K) /\ Go(w, r)
    BY DEF GoesIn
  <1>2. Kept(r) \in Run /\ Sited(Kept(r), K)
    BY <1>1, KeptType
  <1>3. run' = [run EXCEPT ![w] = Kept(r)] /\ run \in [Worker -> Run]
    BY <1>1 DEF Go, IInv, TypeOK
  <1>4. \A v \in Worker : Sited(run[v], K)
    BY KnownType, SitedMore DEF IInv
  <1> QED BY <1>2, <1>3, <1>4

\* A step that writes META or a pointer, or none.
LEMMA StepKnown ==
  ASSUME IInv, NEW w \in Worker, Step(w)
  PROVE  /\ StoreTyped' /\ PointersKnown' /\ Known \subseteq Known'
         /\ \A i \in Investigation \ Known' : meta'[i] = NoMeta
         /\ GoesIn(w, Known')
  <1>k. Known \in SUBSET Investigation /\ StoreTyped
    BY KnownType DEF IInv, TypeOK, StoreTyped
  <1>1. ASSUME ~ClaimSource(w), StoreTyped'
        PROVE  Goes(w)
    BY <1>1, LeaseStepGoes, TaskStepGoes DEF Step, StoreTyped
  <1>2. ASSUME UNCHANGED <<meta, pointer>>
        PROVE  /\ PointersKnown' /\ Known' = Known
               /\ \A i \in Investigation \ Known' : meta'[i] = NoMeta
    BY <1>2 DEF IInv, PointersKnown, Known, Exists, UndrawnIsBlank
  <1>3. ASSUME ReadOnly(w), ~ClaimSource(w)
        PROVE  /\ StoreTyped' /\ PointersKnown' /\ Known \subseteq Known'
               /\ \A i \in Investigation \ Known' : meta'[i] = NoMeta
               /\ GoesIn(w, Known')
    <2>1. StoreTyped' /\ UNCHANGED <<meta, pointer>>
      BY <1>k, <1>3, ReadOnlyStore DEF store, StoreTyped
    <2> QED BY <1>1, <1>2, <1>3, <2>1 DEF Goes
  <1>4. CASE ClaimSource(w)
    <2>1. CASE Goes(w) /\ UNCHANGED <<meta, pointer>>
      BY <1>2, <1>4, <2>1, WritesStore DEF Writes, Goes
    <2>2. ASSUME NEW i \in Investigation, run[w].pc = "claim",
                 Unclaimed(run[w].snap.source), meta[i] = NoMeta,
                 meta' = Put(i, run[w].snap),
                 pointer' = [pointer EXCEPT ![run[w].snap.source] = i],
                 GoesIn(w, Known \cup {i})
          PROVE  /\ PointersKnown' /\ Known' = Known \cup {i} /\ GoesIn(w, Known')
                 /\ \A j \in Investigation \ Known' : meta'[j] = NoMeta
      <3>1. run[w].snap \in Meta /\ Fresh(run[w].snap)
        BY <2>2, RunType DEF Run, Sited
      <3> QED BY <2>2, <3>1, ClaimKnown
    <2> QED BY <1>4, <2>1, <2>2, ClaimGoes, WritesStore DEF Writes
  <1>5. CASE UpdatePointer(w)
    BY <1>1, <1>5, PointKnown, WritesStore DEF Writes, Goes, UpdatePointer, ClaimSource
  <1>6. CASE Updates(w)
    BY <1>1, <1>6, UpdateKnown, WritesStore DEF Updates, Goes
  <1> QED BY <1>3, <1>4, <1>5, <1>6, StepSplit DEF Updates

\* Neither a start, nor a crash, nor the provider writes META or a pointer.
LEMMA QuietKnown ==
  ASSUME IInv, UNCHANGED <<meta, pointer>>,
         \A i \in Investigation \ Known : tasks'[i] = "ABSENT"
  PROVE  Known' = Known /\ UndrawnIsBlank' /\ PointersKnown'
  <1>1. Known' = Known
    BY DEF Known, Exists
  <1> QED BY <1>1 DEF IInv, UndrawnIsBlank, PointersKnown

LEMMA TypedNext ==
  ASSUME IInv, [Next]_vars
  PROVE  IInv'
  <1>t. /\ StoreTyped /\ ProviderTyped /\ Known \in SUBSET Investigation
        /\ \A i \in Investigation \ Known : tasks[i] = "ABSENT"
    BY KnownType DEF IInv, TypeOK, StoreTyped, ProviderTyped, UndrawnIsBlank
  <1>1. ASSUME NEW w \in Worker, Trigger(w)
        PROVE  IInv'
    <2>1. ProviderTyped'
      BY <1>t, <1>1, TriggerStore DEF provider, ProviderTyped, LinkedHasPrimary
    <2>2. Known' = Known /\ UndrawnIsBlank' /\ PointersKnown'
      BY <1>t, <1>1, TriggerStore, QuietKnown DEF provider
    <2>3. run' \in [Worker -> Run] /\ \A v \in Worker : Sited(run'[v], Known')
      BY <1>t, <1>1, <2>2, TriggerGoes, GoesRuns DEF Goes
    <2> QED BY <1>1, <2>1, <2>2, <2>3, TriggerStore, TypedFromParts
  <1>2. ASSUME NEW w \in Worker, Step(w)
        PROVE  IInv'
    <2>1. Known' \in SUBSET Investigation
      BY DEF Known
    <2>2. run' \in [Worker -> Run] /\ \A v \in Worker : Sited(run'[v], Known')
      BY <1>2, <2>1, StepKnown, GoesRuns
    <2>3. UndrawnIsBlank'
      BY <1>2, StepKnown, StepBlank DEF UndrawnIsBlank
    <2> QED BY <1>2, <2>2, <2>3, StepKnown, StepProvider, TypedFromParts
  <1>3. ASSUME Environment
        PROVE  IInv'
    <2>1. UNCHANGED <<meta, pointer>>
      BY <1>3 DEF Environment, ExternalStart, TaskProgress, LinkTask, NewDay, store
    <2>2. Known' = Known /\ UndrawnIsBlank' /\ PointersKnown'
      BY <1>3, <2>1, EnvironmentBlank, QuietKnown
    <2> QED BY <1>3, <2>2, EnvironmentType, TypedFromParts DEF IInv, TypeOK
  <1>4. ASSUME NEW w \in Worker, Crash(w)
        PROVE  IInv'
    <2>1. Goes(w)
      BY <1>t, <1>4, IdleType DEF Crash, Goes, GoesIn
    <2>2. StoreTyped' /\ ProviderTyped'
      BY <1>t, <1>4 DEF Crash, store, provider, StoreTyped, ProviderTyped,
         LinkedHasPrimary
    <2>3. Known' = Known /\ UndrawnIsBlank' /\ PointersKnown'
      BY <1>t, <1>4, QuietKnown DEF Crash, store, provider
    <2>4. run' \in [Worker -> Run] /\ \A v \in Worker : Sited(run'[v], Known')
      BY <1>t, <2>1, <2>3, GoesRuns DEF Goes
    <2> QED BY <2>2, <2>3, <2>4, TypedFromParts
  <1>5. CASE UNCHANGED vars
    <2>1. StoreTyped' /\ ProviderTyped'
      BY <1>t, <1>5 DEF vars, store, provider, StoreTyped, ProviderTyped,
         LinkedHasPrimary
    <2>2. Known' = Known /\ UndrawnIsBlank' /\ PointersKnown'
      BY <1>t, <1>5, QuietKnown DEF vars, store, provider
    <2> QED BY <1>5, <2>1, <2>2, TypedFromParts DEF vars, IInv, TypeOK
  <1> QED BY <1>1, <1>2, <1>3, <1>4, <1>5 DEF Next, Uncut

LEMMA TypedAlways == Spec => []IInv
  <1>1. Init => IInv
    BY TypedInit
  <1>2. IInv /\ [Next]_vars => IInv'
    BY TypedNext
  <1> QED BY <1>1, <1>2, PTL DEF Spec

\* Whatever invocations interleave or crash, table, provider and invocations
\* keep to their types: no state is stored that the schema does not know.
THEOREM TypeCorrect == Spec => []TypeOK
  BY TypedAlways, PTL DEF IInv

-----------------------------------------------------------------------------
(* Limits of capacity and budget *)

LEMMA LeasedFinite ==
  ASSUME IInv
  PROVE  /\ IsFiniteSet(Leased) /\ Cardinality(Leased) \in Nat
         /\ active \in Nat /\ automaticCount \in Nat
         /\ MaxConcurrency \in Nat /\ DailyBudget \in Nat
  <1>1. Leased \in SUBSET Investigation
    BY DEF Leased
  <1>2. IsFiniteSet(Leased)
    BY <1>1, ConstantsOK, FS_Subset
  <1> QED BY <1>2, ConstantsOK, FS_CardinalityType DEF IInv, TypeOK

\* Giving up leases while the counters stay.
LEMMA FewerLeases ==
  ASSUME IInv, IInv', WithinLimits, Leased' \subseteq Leased,
         UNCHANGED <<active, automaticCount>>
  PROVE  WithinLimits'
  <1>1. IsFiniteSet(Leased') /\ Cardinality(Leased') <= Cardinality(Leased)
    BY LeasedFinite, FS_Subset
  <1>2. Cardinality(Leased') \in Nat
    BY <1>1, FS_CardinalityType
  <1> QED BY <1>1, <1>2, LeasedFinite DEF WithinLimits

LEMMA LimitsAcquire ==
  ASSUME IInv, IInv', WithinLimits, NEW w \in Worker, AcquireLease(w)
  PROVE  WithinLimits'
  <1> DEFINE i == run[w].inv
  <1>1. i \in Investigation /\ i \notin Leased
    BY RunType DEF AcquireLease, LeaseFree, Sited, Handling, PC, Leased
  <1>2. Leased' = Leased \cup {i}
    <2>1. meta'[i].lease /\ \A j \in Investigation \ {i} : meta'[j] = meta[j]
      BY <1>1 DEF AcquireLease, Updated, IInv, TypeOK, Meta
    <2> QED BY <1>1, <2>1 DEF Leased
  <1>3. Cardinality(Leased') = Cardinality(Leased) + 1
    BY <1>1, <1>2, LeasedFinite, FS_AddElement
  <1>4. active' = active + 1 /\ active < MaxConcurrency
    BY DEF AcquireLease, LeaseFree
  <1>5. \/ automaticCount' = automaticCount
        \/ automaticCount' = automaticCount + 1 /\ automaticCount < DailyBudget
    BY LeasedFinite DEF AcquireLease, LeaseFree
  <1> QED BY <1>3, <1>4, <1>5, LeasedFinite DEF WithinLimits

LEMMA LimitsRelease ==
  ASSUME IInv, IInv', WithinLimits, NEW w \in Worker, Release(w)
  PROVE  WithinLimits'
  <1> DEFINE i == run[w].inv
  <1>1. i \in Investigation /\ i \in Leased
    BY RunType DEF Release, CanRelease, Sited, Handling, PC, Leased
  <1>2. Leased' = Leased \ {i}
    <2>1. Written(meta[i], run[w]) \in Meta
      BY <1>1, RunType, WrittenType DEF IInv, TypeOK
    <2>2. ~meta'[i].lease /\ \A j \in Investigation \ {i} : meta'[j] = meta[j]
      BY <1>1, <2>1 DEF Release, Updated, IInv, TypeOK, Meta
    <2> QED BY <1>1, <2>2 DEF Leased
  <1>3. Cardinality(Leased') = Cardinality(Leased) - 1
    BY <1>1, <1>2, LeasedFinite, FS_RemoveElement
  <1>4. active' = active - 1 /\ active > 0 /\ automaticCount' = automaticCount
    BY DEF Release, CanRelease, Freed
  <1> QED BY <1>3, <1>4, LeasedFinite DEF WithinLimits

LEMMA LimitsWrites ==
  ASSUME IInv, IInv', WithinLimits, NEW w \in Worker, Writes(w)
  PROVE  WithinLimits'
  <1> DEFINE r == run[w]
  <1>1. CASE AcquireLease(w)
    BY <1>1, LimitsAcquire
  <1>2. CASE Release(w)
    BY <1>2, LimitsRelease
  <1>3. CASE NotCovered(w)
    <2>1. Leased' \subseteq Leased
      BY <1>3 DEF NotCovered, Updated, Leased, IInv, TypeOK, Meta
    <2> QED BY <1>3, <2>1, FewerLeases DEF NotCovered
  <1>4. CASE ClaimSource(w)
    <2>1. r.pc = "claim" /\ ~r.snap.lease
      BY <1>4, RunType DEF ClaimSource, Sited, Fresh
    <2>2. Leased' \subseteq Leased
      BY <1>4, <2>1 DEF ClaimSource, Put, Leased, IInv, TypeOK
    <2> QED BY <1>4, <2>2, FewerLeases DEF ClaimSource
  <1>5. CASE UpdatePointer(w)
    BY <1>5, FewerLeases DEF UpdatePointer, Leased
  <1>6. ASSUME Updates(w), ~AcquireLease(w), ~Release(w), ~NotCovered(w)
        PROVE  WithinLimits'
    <2>1. UNCHANGED <<active, automaticCount>>
      BY <1>6 DEF Updates, Writes, Defer, Ambiguous, PersistTask, Overwrite, Settle,
         Wait, AdoptPrimary, Expire, Recover
    <2>2. r.pc # "start"
      BY <1>6 DEF Updates, Writes, Defer, Ambiguous, PersistTask, Overwrite, Settle,
         Wait, AdoptPrimary, Expire, Recover
    <2>3. Leased' \subseteq Leased
      BY <1>6, <2>2, UpdateKeeps DEF Leased, Updated, Keeps, IInv, TypeOK
    <2> QED BY <2>1, <2>3, FewerLeases
  <1> QED BY <1>1, <1>2, <1>3, <1>4, <1>5, <1>6 DEF Updates

LEMMA LimitsNext ==
  ASSUME IInv, IInv', WithinLimits, [Next]_vars
  PROVE  WithinLimits'
  <1>1. ASSUME NEW w \in Worker, Writes(w)
        PROVE  WithinLimits'
    BY <1>1, LimitsWrites
  <1>2. CASE UNCHANGED <<meta, active, automaticCount>>
    BY <1>2 DEF WithinLimits, Leased
  <1>3. CASE NewDay
    BY <1>3, LeasedFinite DEF NewDay, WithinLimits, Leased
  <1>4. ASSUME NEW w \in Worker, Step(w)
        PROVE  WithinLimits'
    BY <1>1, <1>2, <1>4, StepSplit, ReadOnlyStore DEF store
  <1>5. ASSUME NEW w \in Worker, Trigger(w)
        PROVE  WithinLimits'
    BY <1>2, <1>5, TriggerStore
  <1>6. CASE Environment
    BY <1>2, <1>3, <1>6 DEF Environment, ExternalStart, TaskProgress, LinkTask, store
  <1> QED BY <1>2, <1>4, <1>5, <1>6 DEF Next, Uncut, Crash, vars, store

\* However many invocations run, read stale items, are cut short or repeat a
\* release that another one overtook: the leases that META items show never
\* exceed activeCount, which never exceeds max_concurrency, and the automatic
\* investigations of a day stay within its budget.
THEOREM LimitsHold == Spec => []WithinLimits
  <1>1. Init => WithinLimits
    <2> SUFFICES ASSUME Init PROVE WithinLimits
      OBVIOUS
    <2>1. Leased = {}
      BY DEF Init, Leased, NoMeta
    <2> QED BY <2>1, TypedInit, LeasedFinite, FS_EmptySet DEF Init, WithinLimits
  <1>2. IInv /\ IInv' /\ WithinLimits /\ [Next]_vars => WithinLimits'
    BY LimitsNext
  <1> QED BY <1>1, <1>2, TypedAlways, PTL DEF Spec

LEMMA NextWrites ==
  ASSUME IInv, [Next]_vars
  PROVE  UNCHANGED meta \/ \E w \in Worker : Writes(w)
  <1>1. ASSUME NEW w \in Worker, Step(w)
        PROVE  UNCHANGED meta \/ Writes(w)
    BY <1>1, StepSplit, ReadOnlyStore DEF store
  <1>2. ASSUME NEW w \in Worker, Trigger(w)
        PROVE  UNCHANGED meta
    BY <1>2, TriggerStore
  <1>3. CASE Environment
    BY <1>3 DEF Environment, ExternalStart, TaskProgress, LinkTask, NewDay, store
  <1> QED BY <1>1, <1>2, <1>3 DEF Next, Uncut, Crash, vars, store

\* Whatever writes interleave, an investigation in a non-terminal state keeps
\* nextReconcileAt, so that the next sweep of its state finds it.
THEOREM OpenAlwaysDue == Spec => []OpenIsDue
  <1>1. Init => OpenIsDue
    BY DEF Init, OpenIsDue, NoMeta, DueStates, Pending
  <1>2. ASSUME IInv, OpenIsDue, NEW w \in Worker, Writes(w)
        PROVE  OpenIsDue'
    <2>1. CASE ClaimSource(w)
      <3>1. run[w].snap.due
        BY <1>2, <2>1, RunType DEF ClaimSource, Sited, Fresh
      <3> QED BY <1>2, <2>1, <3>1 DEF ClaimSource, Put, OpenIsDue, IInv, TypeOK
    <2>2. CASE UpdatePointer(w)
      BY <1>2, <2>2 DEF UpdatePointer, OpenIsDue
    <2>3. CASE Updates(w)
      BY <1>2, <2>3, UpdateKeeps DEF Updated, Keeps, OpenIsDue, IInv, TypeOK
    <2> QED BY <1>2, <2>1, <2>2, <2>3 DEF Updates
  <1>3. ASSUME OpenIsDue, UNCHANGED meta
        PROVE  OpenIsDue'
    BY <1>3 DEF OpenIsDue
  <1>4. IInv /\ OpenIsDue /\ [Next]_vars => OpenIsDue'
    BY <1>2, <1>3, NextWrites
  <1> QED BY <1>1, <1>4, TypedAlways, PTL DEF Spec

-----------------------------------------------------------------------------
(* Source pointers *)

\* However claims race, and wherever closing investigations lead pointers, the
\* source of an item has a pointer, and it leads to an item that is there: a
\* request for the source always finds an investigation to return.
THEOREM PointersLead == Spec => []PointerLeadsToItem
  <1>1. IInv => PointerLeadsToItem
    BY KnownType, ConstantsOK DEF IInv, PointersKnown, Known, PointerLeadsToItem
  <1> QED BY <1>1, TypedAlways, PTL

LEMMA SourcesKept ==
  ASSUME IInv, NEW w \in Worker, Updates(w)
  PROVE  \A i \in Investigation : (Exists(i))' => Exists(i) /\ meta'[i].source = meta[i].source
  <1>1. CASE UNCHANGED meta
    BY <1>1 DEF Exists
  <1>2. ASSUME run[w].inv \in Known, NEW n \in Meta, meta' = Updated(run[w].inv, n),
               Keeps(meta[run[w].inv], n, run[w])
        PROVE  \A i \in Investigation :
                   (Exists(i))' => Exists(i) /\ meta'[i].source = meta[i].source
    BY <1>2 DEF Updated, Keeps, Known, Exists, IInv, TypeOK
  <1> QED BY <1>1, <1>2, UpdateKeeps

\* No two items have the same source: claim_source puts META and pointer in one
\* transaction on the condition that there is no pointer, and the pointer of a
\* source that has an item is never taken away.
THEOREM SourcesOnce == Spec => []OneInvestigationPerSource
  <1>1. Init => OneInvestigationPerSource
    BY DEF Init, OneInvestigationPerSource, Exists, NoMeta
  <1>2. ASSUME IInv, OneInvestigationPerSource, NEW w \in Worker, Writes(w)
        PROVE  OneInvestigationPerSource'
    <2>1. CASE UNCHANGED meta
      BY <1>2, <2>1 DEF OneInvestigationPerSource, Exists
    <2>2. ASSUME NEW i \in Investigation, NEW m \in Meta, Fresh(m),
                 Unclaimed(m.source), meta[i] = NoMeta, meta' = Put(i, m)
          PROVE  OneInvestigationPerSource'
      <3>1. meta'[i] = m /\ \A j \in Investigation \ {i} : meta'[j] = meta[j]
        BY <1>2, <2>2 DEF Put, IInv, TypeOK
      <3>2. \A j \in Investigation : Exists(j) => meta[j].source # m.source
        BY <1>2, <2>2, Absent, KnownType DEF IInv, PointersKnown, Known, Unclaimed
      <3> QED BY <1>2, <3>1, <3>2 DEF OneInvestigationPerSource, Exists
    <2>3. CASE ClaimSource(w)
      <3>1. run[w].snap \in Meta /\ Fresh(run[w].snap)
        BY <1>2, <2>3, RunType DEF ClaimSource, Run, Sited
      <3> QED BY <2>1, <2>2, <2>3, <3>1 DEF ClaimSource
    <2>4. CASE UpdatePointer(w)
      BY <2>1, <2>4 DEF UpdatePointer
    <2>5. CASE Updates(w)
      BY <1>2, <2>5, SourcesKept DEF OneInvestigationPerSource
    <2> QED BY <1>2, <2>3, <2>4, <2>5 DEF Updates
  <1>3. ASSUME OneInvestigationPerSource, UNCHANGED meta
        PROVE  OneInvestigationPerSource'
    BY <1>3 DEF OneInvestigationPerSource, Exists
  <1>4. IInv /\ OneInvestigationPerSource /\ [Next]_vars => OneInvestigationPerSource'
    BY <1>2, <1>3, NextWrites
  <1> QED BY <1>1, <1>4, TypedAlways, PTL DEF Spec

-----------------------------------------------------------------------------
(* The budget is consumed before the provider is called *)

Paid(m) == m.auto => m.charged

\* Where an invocation is about to call, or calls, create_backlog_task.
Spending == {"reread", "create", "ambiguous"}

\* Whichever item of M an invocation starts on, its snapshot says no more of
\* the budget than the item does; whichever it creates a task for has paid.
Backed(r, M) ==
    /\ r.pc \in {"start", "probe"} =>
         /\ r.snap.auto = M[r.inv].auto
         /\ r.snap.charged => M[r.inv].charged
    /\ r.pc \in Spending \/ (r.pc = "probe" /\ r.snap.state = "CREATING") =>
         Paid(M[r.inv])

\* An item that a provider call may be, or has been, made for.
Committed(i) ==
    meta[i].lease \/ meta[i].state = "CREATING" \/ tasks[i] # "ABSENT"

PaidInv ==
    /\ \A i \in Known : Committed(i) => Paid(meta[i])
    /\ \A w \in Worker : Backed(run[w], meta)

\* What an invocation keeps of the record it goes on with.
LEMMA GoKeeps ==
  ASSUME IInv, IInv', NEW w \in Worker, NEW q, Go(w, q)
  PROVE  /\ run'[w].pc = q.pc
         /\ q.pc # "idle" => run'[w].inv = q.inv
         /\ q.pc \in UsesSnap => run'[w] = q
         /\ \A v \in Worker \ {w} : run'[v] = run[v]
  <1>1. run'[w] = Kept(q) /\ \A v \in Worker \ {w} : run'[v] = run[v]
    BY DEF Go, IInv, TypeOK
  <1>2. Kept(q) \in Run
    BY <1>1 DEF IInv, TypeOK
  <1>3. CASE q.pc = "idle"
    BY <1>1, <1>3 DEF Kept, Idle, UsesSnap
  <1>4. CASE q.pc # "idle" /\ Kept(q) = q
    BY <1>1, <1>4
  <1>5. CASE q.pc \notin UsesSnap \cup {"idle"} /\ Kept(q) = [q EXCEPT !.snap = NoMeta]
    BY <1>1, <1>2, <1>5 DEF Run
  <1> QED BY <1>3, <1>4, <1>5 DEF Kept

LEMMA GoBacked ==
  ASSUME IInv, IInv', NEW w \in Worker, NEW q, Go(w, q), Backed(q, meta')
  PROVE  Backed(run'[w], meta')
  BY GoKeeps DEF Backed, UsesSnap, Spending

\* Where nothing is started, probed or created, nothing has to be paid.
Plain == PC \ ({"start", "probe"} \cup Spending)

LEMMA PlainBacked ==
  ASSUME NEW q, q.pc \in Plain, NEW M
  PROVE  Backed(q, M)
  BY DEF Plain, Backed

LEMMA PlainEnds ==
  ASSUME NEW r \in Run, NEW m \in Meta, NEW goal, NEW target, NEW aged \in BOOLEAN
  PROVE  /\ Close(r, m, goal, target).pc \in Plain
         /\ Collect(r, m).pc \in Plain
         /\ Finish(r, m).pc \in Plain
         /\ Proceed(r, m, aged).pc \in Plain
         /\ Raised(r).pc \in Plain
         /\ Idle.pc \in Plain
  <1>1. ASSUME NEW g, NEW t
        PROVE  Close(r, m, g, t).pc \in Plain
    BY DEF Close, Plain, PC, Spending, Run
  <1>2. Collect(r, m).pc \in Plain
    BY <1>1 DEF Collect, Plain, PC, Spending, Run
  <1>3. Finish(r, m).pc \in Plain
    BY <1>2 DEF Finish, Plain, PC, Spending, Run
  <1>4. Proceed(r, m, aged).pc \in Plain
    BY <1>3 DEF Proceed, Plain, PC, Spending, Run
  <1>5. Raised(r).pc \in Plain /\ Idle.pc \in Plain
    BY DEF Raised, Idle, Plain, PC, Spending, Run
  <1> QED BY <1>1, <1>2, <1>3, <1>4, <1>5

GoesPlain(w) == \E q : Go(w, q) /\ q.pc \in Plain

LEMMA EnterPlain ==
  ASSUME IInv, NEW w \in Worker, NEW pc \in Plain, Enter(w, pc)
  PROVE  GoesPlain(w)
  BY RunType DEF Enter, GoesPlain, Run

LEMMA LeaseStepPlain ==
  ASSUME IInv, NEW w \in Worker,
         \/ NotCovered(w) \/ LeaseRefused(w) \/ Diagnose(w) \/ Defer(w)
         \/ CreateOk(w) \/ Ambiguous(w) \/ CreateRejected(w)
         \/ Release(w) \/ ReleaseRefused(w) \/ Recheck(w) \/ Overwrite(w)
         \/ Settle(w) \/ UpdatePointer(w)
  PROVE  GoesPlain(w)
  <1> DEFINE r == run[w]
  <1>0. r \in Run /\ r.snap \in Meta /\ Idle.pc \in Plain /\ Raised(r).pc \in Plain
    BY RunType, PlainEnds, NoMetaType DEF Run
  <1>1. CASE NotCovered(w) \/ Defer(w) \/ Ambiguous(w)
    BY <1>0, <1>1 DEF NotCovered, Defer, Ambiguous, GoesPlain
  <1>2. CASE LeaseRefused(w) \/ ReleaseRefused(w) \/ Settle(w)
    BY <1>2, EnterPlain DEF LeaseRefused, ReleaseRefused, Settle, Plain, PC, Spending
  <1>3. CASE Diagnose(w)
    <2>1. \E pc \in {"idle", "budget", "capacity"} : Enter(w, pc)
      BY <1>3 DEF Diagnose
    <2> QED BY <2>1, EnterPlain DEF Plain, PC, Spending
  <1>4. CASE CreateOk(w)
    <2> DEFINE q == [r EXCEPT !.pc = "persist", !.task = r.inv,
                              !.status = tasks'[r.inv]]
    <2>1. q.pc \in Plain /\ Go(w, q)
      BY <1>0, <1>4 DEF CreateOk, Run, Plain, PC, Spending
    <2> HIDE DEF q
    <2> QED BY <2>1 DEF GoesPlain
  <1>5. CASE CreateRejected(w)
    <2>1. [r EXCEPT !.pc = "release", !.goal = "rate_limited"].pc \in Plain
      BY <1>0 DEF Run, Plain, PC, Spending
    <2>2. Close(r, r.snap, "create_failed", r.inv).pc \in Plain
      BY <1>0, PlainEnds
    <2> QED BY <1>5, <2>1, <2>2 DEF CreateRejected, GoesPlain
  <1>6. CASE Release(w) \/ Overwrite(w)
    <2>1. AfterRelease(r.goal) \in Plain
      BY <1>0, AfterReleaseType DEF Run, Plain, PC, Spending
    <2> QED BY <1>6, <2>1, EnterPlain DEF Release, Overwrite
  <1>7. CASE Recheck(w)
    <2>1. [r EXCEPT !.pc = "overwrite"].pc \in Plain
      BY <1>0 DEF Run, Plain, PC, Spending
    <2> QED BY <1>0, <1>7, <2>1 DEF Recheck, GoesPlain
  <1>8. CASE UpdatePointer(w)
    BY <1>0, <1>8 DEF UpdatePointer, GoesPlain
  <1> QED BY <1>1, <1>2, <1>3, <1>4, <1>5, <1>6, <1>7, <1>8

LEMMA TaskStepPlain ==
  ASSUME IInv, IInv', NEW w \in Worker,
         \/ PersistTask(w) \/ Refetch(w) \/ SummaryFound(w) \/ SummaryMissing(w)
         \/ SummaryOverdue(w) \/ Wait(w) \/ Reload(w)
         \/ GetTask(w) \/ LookupPrimary(w) \/ ReadPrimary(w) \/ AdoptPrimary(w)
         \/ CancelTask(w) \/ Expire(w) \/ ImportPrimary(w) \/ NoteEvent(w)
         \/ ProviderError(w) \/ Recover(w)
  PROVE  GoesPlain(w)
  <1> DEFINE r == run[w]
  <1>0. /\ r \in Run /\ r.snap \in Meta /\ Idle.pc \in Plain /\ Raised(r).pc \in Plain
        /\ \A i \in Known : meta[i] \in Meta /\ meta'[i] \in Meta
        /\ r.pc \in Handling => r.inv \in Known
        /\ \A pc \in Plain : [r EXCEPT !.pc = pc].pc = pc
    BY RunType, PlainEnds, NoMetaType DEF Run, Sited, IInv, TypeOK
  <1>1. CASE PersistTask(w)
    <2>1. Finish(r, meta'[r.inv]).pc \in Plain
      BY <1>0, <1>1, PlainEnds DEF PersistTask, Handling, PC
    <2> QED BY <1>0, <1>1, <2>1 DEF PersistTask, GoesPlain
  <1>2. CASE Refetch(w) \/ Reload(w)
    <2>1. Read(w) \subseteq Meta
      BY <1>0, <1>2, ReadType DEF Refetch, Reload, Handling, PC
    <2>2. \A m \in Meta : /\ Collect(r, m).pc \in Plain
                          /\ Close(r, m, "completed", r.inv).pc \in Plain
      BY <1>0, PlainEnds
    <2> QED BY <1>2, <2>1, <2>2 DEF Refetch, Reload, GoesPlain
  <1>3. CASE SummaryFound(w)
    <2>1. PICK m : Go(w, [r EXCEPT !.pc = "reload", !.snap = m])
      BY <1>3 DEF SummaryFound
    <2>2. [r EXCEPT !.pc = "reload", !.snap = m].pc \in Plain
      BY <1>0 DEF Run, Plain, PC, Spending
    <2> QED BY <2>1, <2>2 DEF GoesPlain
  <1>4. CASE SummaryMissing(w) \/ CancelTask(w)
    BY <1>4, EnterPlain DEF SummaryMissing, CancelTask, Plain, PC, Spending
  <1>5. CASE SummaryOverdue(w)
    <2>1. meta[r.inv] \in Meta
      BY <1>0, <1>5 DEF SummaryOverdue, Handling, PC
    <2>2. \A m \in Meta : Close(r, m, "failed", r.inv).pc \in Plain
      BY <1>0, PlainEnds
    <2> QED BY <1>0, <1>5, <2>1, <2>2 DEF SummaryOverdue, GoesPlain
  <1>6. CASE Wait(w) \/ Expire(w) \/ Recover(w) \/ ProviderError(w)
    BY <1>0, <1>6 DEF Wait, Expire, Recover, ProviderError, GoesPlain
  <1>7. CASE GetTask(w)
    <2> DEFINE t == r.snap.task
               got == [r EXCEPT !.task = t, !.status = tasks[t]]
    <2>1. t \in Task /\ tasks[t] \in Status
      BY <1>7, RunType DEF GetTask, Sited, IInv, TypeOK
    <2>2. CASE Go(w, [got EXCEPT !.pc = "lookup", !.task = primary[t]])
      <3>1. [got EXCEPT !.pc = "lookup", !.task = primary[t]].pc \in Plain
        BY <1>0 DEF Run, Plain, PC, Spending
      <3> QED BY <2>2, <3>1 DEF GoesPlain
    <2>3. ASSUME NEW aged \in BOOLEAN, Go(w, Proceed(got, r.snap, aged))
          PROVE  GoesPlain(w)
      <3>1. got \in Run
        BY <1>0, <2>1 DEF Run
      <3> HIDE DEF got
      <3>2. Proceed(got, r.snap, aged).pc \in Plain
        BY <1>0, <3>1, PlainEnds
      <3> QED BY <2>3, <3>2 DEF GoesPlain
    <2> QED BY <1>7, <2>2, <2>3 DEF GetTask
  <1>8. CASE LookupPrimary(w)
    <2>1. \A j : Close(r, r.snap, "linked", j).pc \in Plain
      BY <1>0, PlainEnds
    <2>2. CASE Enter(w, "read_primary")
      BY <2>2, EnterPlain DEF Plain, PC, Spending
    <2> QED BY <1>8, <2>1, <2>2 DEF LookupPrimary, GoesPlain
  <1>9. CASE ReadPrimary(w)
    <2>1. [r EXCEPT !.pc = "adopt", !.status = tasks[r.task]].pc \in Plain
      BY <1>0 DEF Run, Plain, PC, Spending
    <2> QED BY <1>9, <2>1 DEF ReadPrimary, GoesPlain
  <1>10. CASE AdoptPrimary(w)
    <2> DEFINE m == [meta'[r.inv] EXCEPT !.state = r.snap.state]
    <2>1. meta'[r.inv] \in Meta
      BY <1>0, <1>10 DEF AdoptPrimary, Handling, PC
    <2>2. m \in Meta
      BY <1>0, <2>1 DEF Meta
    <2>3. PICK aged \in BOOLEAN : Go(w, Proceed(r, m, aged))
      BY <1>10 DEF AdoptPrimary
    <2> HIDE DEF m
    <2>4. Proceed(r, m, aged).pc \in Plain
      BY <1>0, <2>2, PlainEnds
    <2> QED BY <2>3, <2>4 DEF GoesPlain
  <1>11. CASE ImportPrimary(w)
    <2>1. PICK st, m : Go(w, [r EXCEPT !.pc = "claim", !.status = st, !.snap = m])
      BY <1>11 DEF ImportPrimary
    <2>2. [r EXCEPT !.pc = "claim", !.status = st, !.snap = m].pc \in Plain
      BY <1>0 DEF Run, Plain, PC, Spending
    <2> QED BY <2>1, <2>2 DEF GoesPlain
  <1>12. CASE NoteEvent(w)
    <2>1. meta[r.inv] \in Meta
      BY <1>0, <1>12 DEF NoteEvent, Handling, PC
    <2>2. [r EXCEPT !.pc = "persist", !.snap = meta[r.inv]].pc \in Plain
      BY <1>0 DEF Run, Plain, PC, Spending
    <2>3. Finish(r, meta[r.inv]).pc \in Plain
      BY <1>0, <2>1, PlainEnds
    <2> QED BY <1>12, <2>2, <2>3 DEF NoteEvent, GoesPlain
  <1> QED BY <1>1, <1>2, <1>3, <1>4, <1>5, <1>6, <1>7, <1>8, <1>9, <1>10, <1>11,
             <1>12

\* reconcile with a snapshot that says no more of the budget than the item.
LEMMA ReconcileBacked ==
  ASSUME NEW M, NEW r \in Run, NEW m \in Meta, m.auto = M[r.inv].auto,
         m.charged => M[r.inv].charged,
         m.state = "CREATING" => Paid(M[r.inv])
  PROVE  Backed(Reconcile(r, m), M)
  <1> DEFINE q == Reconcile(r, m)
  <1>1. q.pc = Dispatch(m) /\ q.snap = m /\ q.inv = r.inv
    BY DEF Reconcile, Run
  <1>2. /\ Dispatch(m) \in {"idle", "start", "get", "create"}
        /\ Dispatch(m) = "create" => m.state = "CREATING"
    BY DEF Dispatch, Terminal, Pending
  <1> HIDE DEF q
  <1> QED BY <1>1, <1>2 DEF Backed, Spending, q

\* An item of META, as it stands, is such a snapshot.
LEMMA FreshSnapshot ==
  ASSUME IInv, PaidInv, NEW r \in Run, r.inv \in Known
  PROVE  Backed(Reconcile(r, meta[r.inv]), meta)
  <1>1. meta[r.inv] \in Meta
    BY KnownType DEF IInv, TypeOK
  <1>2. meta[r.inv].state = "CREATING" => Paid(meta[r.inv])
    BY DEF PaidInv, Committed
  <1> QED BY <1>1, <1>2, ReconcileBacked

LEMMA TriggerBacked ==
  ASSUME IInv, IInv', PaidInv, NEW w \in Worker, Trigger(w)
  PROVE  Backed(run'[w], meta')
  <1>m. UNCHANGED meta
    BY TriggerStore
  <1>1. ASSUME NEW i \in Investigation, meta[i].state \in DueStates,
               NEW r \in Run, r.inv = i, Go(w, Reconcile(r, meta[i]))
        PROVE  Backed(run'[w], meta')
    <2>1. i \in Known
      BY <1>1 DEF Known, Exists, DueStates, Pending
    <2>2. Backed(Reconcile(r, meta[i]), meta)
      BY <1>1, <2>1, FreshSnapshot
    <2> QED BY <1>1, <1>m, <2>2, GoBacked
  <1>r. \A i \in Investigation :
          /\ [Idle EXCEPT !.inv = i, !.sweep = TRUE] \in Run
          /\ [Idle EXCEPT !.inv = i, !.sweep = TRUE].inv = i
          /\ [Idle EXCEPT !.inv = i] \in Run
          /\ [Idle EXCEPT !.inv = i].inv = i
    BY KnownType, IdleType DEF Run
  <1>2. ASSUME NEW i \in Investigation, Sweep(w, i)
        PROVE  Backed(run'[w], meta')
    BY <1>1, <1>2, <1>r DEF Sweep
  <1>3. ASSUME NEW i \in Investigation, Refresh(w, i)
        PROVE  Backed(run'[w], meta')
    BY <1>1, <1>3, <1>r DEF Refresh
  <1>4. ASSUME NEW s \in Source, NEW auto \in BOOLEAN, Request(w, s, auto)
        PROVE  Backed(run'[w], meta')
    <2>1. /\ [Idle EXCEPT !.pc = "claim", !.snap = NewMeta(s, auto)].pc \in Plain
          /\ [Idle EXCEPT !.pc = "pointed", !.inv = pointer[s]].pc \in Plain
      BY DEF Idle, Plain, PC, Spending
    <2> QED BY <1>4, <2>1, PlainBacked, GoBacked DEF Request
  <1>5. ASSUME NEW e \in Event, Deliver(w, e)
        PROVE  Backed(run'[w], meta')
    <2>1. [Idle EXCEPT !.pc = "find", !.task = e.task, !.event = {e}].pc \in Plain
      BY DEF Idle, Plain, PC, Spending
    <2> QED BY <1>5, <2>1, PlainBacked, GoBacked DEF Deliver
  <1> QED BY <1>2, <1>3, <1>4, <1>5 DEF Trigger

\* Its own step leaves an invocation with what it has to have paid.
LEMMA StepBacked ==
  ASSUME IInv, IInv', PaidInv, NEW w \in Worker, Step(w)
  PROVE  Backed(run'[w], meta')
  <1> DEFINE r == run[w]
  <1>0. /\ r \in Run /\ r.snap \in Meta /\ Backed(r, meta) /\ Sited(r, Known)
        /\ meta \in [Investigation -> Meta] /\ Known \in SUBSET Investigation
        /\ Idle.pc \in Plain
    BY RunType, PlainEnds, NoMetaType DEF Run, PaidInv, IInv, TypeOK
  <1>1. ASSUME GoesPlain(w)
        PROVE  Backed(run'[w], meta')
    BY <1>1, PlainBacked, GoBacked DEF GoesPlain
  <1>2. CASE ReadPointed(w)
    <2>1. r.inv \in Known /\ UNCHANGED meta
      BY <1>0, <1>2 DEF ReadPointed, Sited, Handling, PC, store
    <2>2. Backed(Reconcile(r, meta[r.inv]), meta')
      BY <1>0, <2>1, FreshSnapshot
    <2>3. Backed(Idle, meta')
      BY <1>0, PlainBacked
    <2> QED BY <1>2, <2>2, <2>3, GoBacked DEF ReadPointed
  <1>3. CASE ClaimSource(w)
    <2>1. CASE Go(w, Idle)
      BY <1>0, <1>1, <2>1 DEF GoesPlain
    <2>2. ASSUME NEW i \in Investigation, meta' = Put(i, r.snap),
                 Go(w, [[r EXCEPT !.inv = i] EXCEPT !.pc = "start"])
          PROVE  Backed(run'[w], meta')
      <3> DEFINE q == [[r EXCEPT !.inv = i] EXCEPT !.pc = "start"]
      <3>1. q.pc = "start" /\ q.inv = i /\ q.snap = r.snap /\ meta'[i] = r.snap
        BY <1>0, <2>2 DEF Run, Put
      <3> HIDE DEF q
      <3>2. Backed(q, meta')
        BY <3>1 DEF Backed, Spending
      <3> QED BY <2>2, <3>2, GoBacked DEF q
    <2>3. ASSUME NEW i \in Investigation, Go(w, Finish([r EXCEPT !.inv = i], r.snap))
          PROVE  Backed(run'[w], meta')
      <3>1. [r EXCEPT !.inv = i] \in Run
        BY <1>0 DEF Run
      <3>2. Finish([r EXCEPT !.inv = i], r.snap).pc \in Plain
        BY <1>0, <3>1, PlainEnds
      <3> QED BY <1>1, <2>3, <3>2 DEF GoesPlain
    <2>4. CASE ~Unclaimed(r.snap.source)
      BY <1>3, <2>1, <2>4 DEF ClaimSource
    <2>5. CASE Unclaimed(r.snap.source)
      <3>1. PICK i \in Investigation :
              /\ meta' = Put(i, r.snap)
              /\ Go(w, CASE r.snap.task = NoTask ->
                              [[r EXCEPT !.inv = i] EXCEPT !.pc = "start"]
                         [] r.snap.task # NoTask /\ r.status \in TerminalStatus ->
                              Finish([r EXCEPT !.inv = i], r.snap)
                         [] OTHER -> Idle)
        BY <1>3, <2>5 DEF ClaimSource
      <3>2. CASE r.snap.task = NoTask
        BY <2>2, <3>1, <3>2
      <3>3. CASE r.snap.task # NoTask /\ r.status \in TerminalStatus
        BY <2>3, <3>1, <3>3
      <3>4. CASE r.snap.task # NoTask /\ r.status \notin TerminalStatus
        BY <2>1, <3>1, <3>4
      <3> QED BY <3>2, <3>3, <3>4
    <2> QED BY <2>4, <2>5
  <1>4. CASE AcquireLease(w)
    <2> DEFINE q == [r EXCEPT !.pc = "reread"]
    <2>1. r.inv \in Known /\ r.pc = "start"
      BY <1>0, <1>4 DEF AcquireLease, Sited, Handling, PC
    <2>2. /\ meta'[r.inv].auto = meta[r.inv].auto
          /\ meta'[r.inv].charged = (meta[r.inv].charged \/ ConsumesBudget(r))
      BY <1>0, <1>4, <2>1 DEF AcquireLease, Updated, Meta
    <2>3. Paid(meta'[r.inv])
      BY <1>0, <2>1, <2>2 DEF Paid, Backed, ConsumesBudget
    <2>4. q.pc = "reread" /\ q.inv = r.inv
      BY <1>0 DEF Run
    <2>5. Backed(q, meta')
      BY <2>3, <2>4 DEF Backed
    <2> QED BY <1>4, <2>5, GoBacked DEF AcquireLease, Enter
  <1>5. CASE Reread(w)
    <2>1. UNCHANGED meta /\ Paid(meta[r.inv])
      BY <1>0, <1>5 DEF Reread, Backed, Spending, store
    <2>2. PICK m : Go(w, [r EXCEPT !.pc = "create", !.snap = m])
      BY <1>5 DEF Reread
    <2> DEFINE q == [r EXCEPT !.pc = "create", !.snap = m]
    <2>3. q.pc = "create" /\ q.inv = r.inv
      BY <1>0 DEF Run
    <2>4. Backed(q, meta')
      BY <2>1, <2>3 DEF Backed
    <2> QED BY <2>2, <2>4, GoBacked
  <1>6. CASE CreateAmbiguous(w)
    <2> DEFINE q == [r EXCEPT !.pc = "ambiguous"]
    <2>1. UNCHANGED meta /\ Paid(meta[r.inv])
      BY <1>0, <1>6 DEF CreateAmbiguous, Backed, Spending, store
    <2>2. q.pc = "ambiguous" /\ q.inv = r.inv
      BY <1>0 DEF Run
    <2>3. Backed(q, meta')
      BY <2>1, <2>2 DEF Backed
    <2> QED BY <1>6, <2>3, GoBacked DEF CreateAmbiguous, Enter
  <1>7. CASE FindTask(w)
    <2>1. UNCHANGED meta
      BY <1>7 DEF FindTask, store
    <2>2. ASSUME NEW i \in KnownBy(r.task),
                 Go(w, [r EXCEPT !.pc = "probe", !.inv = i, !.snap = meta[i]])
          PROVE  Backed(run'[w], meta')
      <3> DEFINE q == [r EXCEPT !.pc = "probe", !.inv = i, !.snap = meta[i]]
      <3>1. i \in Known
        BY <1>0, <1>7, KnownByKnown DEF FindTask, Sited, AtTask
      <3>2. q.pc = "probe" /\ q.inv = i /\ q.snap = meta[i]
        BY <1>0 DEF Run
      <3>3. meta[i].state = "CREATING" => Paid(meta[i])
        BY <3>1 DEF PaidInv, Committed
      <3> HIDE DEF q
      <3>4. Backed(q, meta')
        BY <2>1, <3>2, <3>3 DEF Backed, Spending
      <3> QED BY <2>2, <3>4, GoBacked DEF q
    <2>3. ASSUME NEW t, Go(w, [r EXCEPT !.pc = "import", !.task = t])
          PROVE  GoesPlain(w)
      <3>1. [r EXCEPT !.pc = "import", !.task = t].pc \in Plain
        BY <1>0 DEF Run, Plain, PC, Spending
      <3> QED BY <2>3, <3>1 DEF GoesPlain
    <2>4. CASE Go(w, Idle)
      BY <1>0, <1>1, <2>4 DEF GoesPlain
    <2> QED BY <1>1, <1>7, <2>2, <2>3, <2>4 DEF FindTask
  <1>8. CASE Probe(w)
    <2>1. UNCHANGED meta /\ r.pc = "probe"
      BY <1>8 DEF Probe, store
    <2>2. Backed(Reconcile(r, r.snap), meta')
      BY <1>0, <2>1, ReconcileBacked DEF Backed
    <2>3. ASSUME NEW st, Go(w, [r EXCEPT !.pc = "note", !.status = st])
          PROVE  GoesPlain(w)
      <3>1. [r EXCEPT !.pc = "note", !.status = st].pc \in Plain
        BY <1>0 DEF Run, Plain, PC, Spending
      <3> QED BY <2>3, <3>1 DEF GoesPlain
    <2> QED BY <1>1, <1>8, <2>2, <2>3, GoBacked DEF Probe
  <1> QED BY <1>1, <1>2, <1>3, <1>4, <1>5, <1>6, <1>7, <1>8, LeaseStepPlain,
             TaskStepPlain DEF Step

\* Items keep what they have paid, whoever updates them.
LEMMA PaymentsKept ==
  ASSUME IInv, NEW w \in Worker, Writes(w), NEW i \in Known
  PROVE  meta'[i].auto = meta[i].auto /\ (meta[i].charged => meta'[i].charged)
  <1>0. i \in Investigation /\ meta \in [Investigation -> Meta] /\ meta[i] # NoMeta
    BY DEF IInv, TypeOK, Known, Exists, NoMeta
  <1>1. CASE ClaimSource(w)
    BY <1>0, <1>1 DEF ClaimSource, Put
  <1>2. CASE UpdatePointer(w)
    BY <1>2 DEF UpdatePointer
  <1>3. CASE Updates(w)
    BY <1>0, <1>3, UpdateKeeps, KnownType DEF Updated, Keeps
  <1> QED BY <1>1, <1>2, <1>3 DEF Updates

LEMMA OthersBacked ==
  ASSUME IInv, NEW r, r.pc \in Handling => r.inv \in Known, Backed(r, meta),
         \A i \in Known : /\ meta'[i].auto = meta[i].auto
                          /\ meta[i].charged => meta'[i].charged
  PROVE  Backed(r, meta')
  BY DEF Backed, Paid, Spending, Handling, PC

\* A write commits an item only for an invocation that has paid for it.
LEMMA WritesCommit ==
  ASSUME IInv, PaidInv, NEW w \in Worker, Writes(w), UNCHANGED tasks,
         NEW i \in Investigation, (Committed(i))'
  PROVE  Paid(meta'[i])
  <1> DEFINE r == run[w]
  <1>0. /\ r \in Run /\ Backed(r, meta) /\ meta \in [Investigation -> Meta]
        /\ Known \in SUBSET Investigation
        /\ r.pc \in {"start", "ambiguous"} => r.inv \in Known
    BY RunType DEF PaidInv, IInv, TypeOK, Sited, Handling, PC
  <1>1. CASE i \in Known /\ Committed(i)
    <2>1. Paid(meta[i])
      BY <1>1 DEF PaidInv
    <2> QED BY <1>1, <2>1, PaymentsKept DEF Paid
  <1>2. CASE ClaimSource(w) /\ ~Committed(i)
    <2>1. ~r.snap.charged /\ ~r.snap.lease /\ (r.snap.auto => r.snap.state # "CREATING")
      BY <1>2, RunType DEF ClaimSource, Sited, Fresh
    <2>2. meta'[i] = meta[i] \/ meta'[i] = r.snap
      BY <1>0, <1>2 DEF ClaimSource, Put
    <2> QED BY <1>2, <2>1, <2>2 DEF Committed, Paid
  <1>3. CASE UpdatePointer(w) /\ ~Committed(i)
    BY <1>3 DEF UpdatePointer, Committed
  <1>4. CASE AcquireLease(w) /\ ~Committed(i)
    <2>1. i = r.inv /\ r.pc = "start"
      BY <1>0, <1>4 DEF AcquireLease, Updated, Committed
    <2>2. /\ meta'[i].auto = meta[i].auto
          /\ meta'[i].charged = (meta[i].charged \/ ConsumesBudget(r))
      BY <1>0, <1>4, <2>1 DEF AcquireLease, Updated, Meta
    <2> QED BY <1>0, <2>1, <2>2 DEF Paid, Backed, ConsumesBudget
  <1>5. CASE NotCovered(w) /\ ~Committed(i)
    BY <1>0, <1>5 DEF NotCovered, Updated, Committed, Meta
  <1>6. CASE Updates(w) /\ ~AcquireLease(w) /\ ~NotCovered(w) /\ ~Committed(i)
    <2>1. r.pc # "start"
      BY <1>6 DEF Updates, Writes, Defer, Ambiguous, PersistTask, Release, Overwrite,
         Settle, Wait, AdoptPrimary, Expire, Recover
    <2>2. /\ i = r.inv /\ r.pc = "ambiguous"
          /\ meta'[i].auto = meta[i].auto
          /\ meta[i].charged => meta'[i].charged
      BY <1>0, <1>6, <2>1, UpdateKeeps DEF Updated, Keeps, Committed
    <2> QED BY <1>0, <2>2 DEF Backed, Spending, Paid
  <1>7. i \in Known \/ ~Committed(i)
    BY DEF Committed, IInv, UndrawnIsBlank, NoMeta
  <1> QED BY <1>1, <1>2, <1>3, <1>4, <1>5, <1>6, <1>7 DEF Updates

\* The provider gets a task of ours only from an invocation that has paid.
LEMMA TasksCommit ==
  ASSUME IInv, PaidInv, [Next]_vars, NEW i \in Investigation, tasks[i] = "ABSENT",
         tasks'[i] # "ABSENT"
  PROVE  UNCHANGED meta /\ Paid(meta[i])
  <1>0. i \in Task /\ i \notin ExternalTask /\ "ABSENT" \notin ActiveStatus
    BY ConstantsOK DEF Task
  <1>t. tasks \in [Task -> Status]
    BY DEF IInv, TypeOK
  <1>1. ASSUME NEW w \in Worker, CreateOk(w) \/ CreateAmbiguous(w)
        PROVE  UNCHANGED meta /\ Paid(meta[i])
    <2>1. i = run[w].inv /\ run[w].pc = "create" /\ UNCHANGED meta
      BY <1>0, <1>1, <1>t DEF CreateOk, CreateAmbiguous, Submitted, store
    <2> QED BY <2>1 DEF PaidInv, Backed, Spending
  <1>2. ASSUME NEW w \in Worker, CancelTask(w)
        PROVE  FALSE
    BY <1>0, <1>2, <1>t DEF CancelTask
  <1>3. ~UNCHANGED tasks
    OBVIOUS
  <1>4. CASE Environment
    BY <1>0, <1>4, <1>t DEF Environment, ExternalStart, TaskProgress, LinkTask, NewDay,
       provider
  <1>5. ASSUME NEW w \in Worker, Step(w)
        PROVE  CreateOk(w) \/ CreateAmbiguous(w) \/ CancelTask(w)
    BY <1>3, <1>5 DEF Step, ReadPointed, ClaimSource, NotCovered,
       AcquireLease, LeaseRefused, Diagnose, Defer, Reread, Ambiguous,
       CreateRejected, PersistTask, Release, ReleaseRefused, Recheck,
       Overwrite, Settle, UpdatePointer, Refetch, SummaryFound,
       SummaryMissing, SummaryOverdue, Wait, Reload, GetTask,
       LookupPrimary, ReadPrimary, AdoptPrimary, Expire, FindTask,
       ImportPrimary, Probe, NoteEvent, ProviderError, Recover, provider
  <1>6. ASSUME NEW w \in Worker, Trigger(w)
        PROVE  FALSE
    BY <1>3, <1>6, TriggerStore DEF provider
  <1> QED BY <1>1, <1>2, <1>3, <1>4, <1>5, <1>6 DEF Next, Uncut, Crash, vars, provider

LEMMA WritesProvider ==
  ASSUME NEW w \in Worker, Writes(w)
  PROVE  UNCHANGED tasks
  BY DEF Writes, ClaimSource, NotCovered, AcquireLease, Defer, Ambiguous, PersistTask,
     Release, Overwrite, Settle, UpdatePointer, Wait, AdoptPrimary, Expire, Recover,
     provider

LEMMA PaidItems ==
  ASSUME IInv, PaidInv, [Next]_vars, NEW i \in Known', (Committed(i))'
  PROVE  Paid(meta'[i])
  <1>1. i \in Investigation
    BY DEF Known
  <1>2. ASSUME NEW w \in Worker, Writes(w)
        PROVE  Paid(meta'[i])
    BY <1>1, <1>2, WritesProvider, WritesCommit
  <1>3. CASE UNCHANGED meta /\ tasks[i] = "ABSENT" /\ tasks'[i] # "ABSENT"
    BY <1>1, <1>3, TasksCommit
  <1>4. CASE UNCHANGED meta /\ ~(tasks[i] = "ABSENT" /\ tasks'[i] # "ABSENT")
    BY <1>1, <1>4 DEF PaidInv, Committed, Known, Exists
  <1> QED BY <1>2, <1>3, <1>4, NextWrites

LEMMA PaidNext ==
  ASSUME IInv, IInv', PaidInv, [Next]_vars
  PROVE  PaidInv'
  <1>1. \A i \in Known' : (Committed(i))' => Paid(meta'[i])
    BY PaidItems
  <1>2. \A i \in Known : /\ meta'[i].auto = meta[i].auto
                         /\ meta[i].charged => meta'[i].charged
    BY NextWrites, PaymentsKept
  <1>3. ASSUME NEW v \in Worker, run'[v] = run[v]
        PROVE  Backed(run'[v], meta')
    BY <1>2, <1>3, RunType, OthersBacked DEF Sited, PaidInv
  <1>4. ASSUME NEW w \in Worker, Trigger(w) \/ Step(w) \/ Crash(w)
        PROVE  \A v \in Worker : Backed(run'[v], meta')
    <2>1. \E q : Go(w, q)
      BY <1>4, TriggerGoes, StepKnown DEF Crash, Goes, GoesIn
    <2>2. \A v \in Worker \ {w} : run'[v] = run[v]
      BY <2>1, GoKeeps
    <2>3. CASE Crash(w)
      <3>1. Backed(Idle, meta')
        BY PlainBacked DEF Idle, Plain, PC, Spending
      <3> QED BY <1>3, <2>2, <2>3, <3>1, GoBacked DEF Crash
    <2> QED BY <1>3, <1>4, <2>2, <2>3, TriggerBacked, StepBacked
  <1>5. ASSUME UNCHANGED run
        PROVE  \A v \in Worker : Backed(run'[v], meta')
    BY <1>3, <1>5
  <1>6. ASSUME Environment
        PROVE  UNCHANGED run
    BY <1>6, EnvironmentType
  <1>7. \A v \in Worker : Backed(run'[v], meta')
    BY <1>4, <1>5, <1>6 DEF Next, Uncut, vars
  <1> QED BY <1>1, <1>7 DEF PaidInv

\* An automatic investigation has consumed the daily budget by the time it holds
\* a lease or has a provider task, although what acquire_lease charges is decided
\* by a snapshot that may be stale: a snapshot never shows a charge that META
\* lost, and the transaction that takes the lease writes the charge it owes.
THEOREM PaysFirst == Spec => []PaidBeforeProvider
  <1>1. Init => PaidInv
    <2> SUFFICES ASSUME Init PROVE PaidInv
      OBVIOUS
    <2>1. Known = {}
      BY DEF Init, Known, Exists, NoMeta
    <2>2. Backed(Idle, meta)
      BY PlainBacked DEF Idle, Plain, PC, Spending
    <2>3. \A w \in Worker : Backed(run[w], meta)
      BY <2>2 DEF Init
    <2> QED BY <2>1, <2>3 DEF PaidInv
  <1>2. IInv /\ IInv' /\ PaidInv /\ [Next]_vars => PaidInv'
    BY PaidNext
  <1>3. IInv /\ PaidInv => PaidBeforeProvider
    <2> SUFFICES ASSUME IInv, PaidInv, NEW i \in Investigation, meta[i].auto,
                        meta[i].lease \/ tasks[i] # "ABSENT"
                 PROVE  meta[i].charged
      BY DEF PaidBeforeProvider
    <2>1. i \in Known
      BY DEF IInv, UndrawnIsBlank, NoMeta
    <2> QED BY <2>1 DEF PaidInv, Committed, Paid
  <1> QED BY <1>1, <1>2, <1>3, TypedAlways, PTL DEF Spec

=============================================================================
