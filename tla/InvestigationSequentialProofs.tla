-------------------- MODULE InvestigationSequentialProofs --------------------
(***************************************************************************)
(* Theorems about InvestigationCoordinator where invocations do not        *)
(* overlap: one at a time is in flight.  It may stop between any two calls *)
(* and leave what it was about to a later one, and the provider goes on    *)
(* meanwhile.                                                              *)
(***************************************************************************)
EXTENDS InvestigationCoordinatorProofs

-----------------------------------------------------------------------------
(* The invariant                                                           *)

\* Where the snapshot is what the table holds.
Informed == {"start", "probe", "get", "lookup", "read_primary", "adopt"}

\* Where the handling of an investigation has passed the dispatch on its state.
Engaged == Handling \ {"pointed", "probe", "point"}

Ended(st) == st \in {"LINKED"} \cup TerminalStatus
Unleased == {"settle", "refetch", "fetch", "wait", "reload"}

\* The provider gave the task of item m the status st, which is its last one.
Final(m, st, ts) == m.task \in Task /\ ts[m.task] = st

\* What an invocation with locals r knows of its item m and the tasks ts.
Knows(r, m, ts) ==
    /\ r.pc \in Informed => r.snap = m
    /\ r.pc \in Informed \ {"probe"} => m.state \in DueStates
    /\ r.pc \in Spending => m.lease /\ m.state = "CREATING"
    /\ r.pc \in {"recheck", "overwrite"} => ~m.lease
    /\ r.pc \in {"probe", "note"} => r.task = m.task
    /\ r.pc \in {"persist", "note"} /\ r.status \in TerminalStatus => ts[r.task] = r.status

\* The link of a duplicate is written once, and then its source follows.
Leads(r, m, ts) ==
    /\ r.pc \in Engaged => m.linked = NoInv
    /\ r.pc = "lookup" => Final(m, "LINKED", ts)
    /\ Aims(r) =>
        IF r.goal # "linked" THEN r.target = r.inv
        ELSE IF r.pc = "point" THEN m.linked = r.target
        ELSE Final(m, "LINKED", ts)

\* With consistent reads no item is closed while its lease is counted, but
\* for one whose task has failed.
Gives(r, m) ==
    /\ r.pc = "create" => r.snap.lease
    /\ r.pc \in Unleased => ~m.lease
    /\ r.pc = "release" /\ r.goal \in {"rate_limited", "fetching"} => m.state \in DueStates

\* What an invocation is about to put is open and linked to nothing.
Claims(r) ==
    r.pc = "claim" =>
        /\ r.snap.linked = NoInv /\ r.snap.state # "CREATING"
        /\ r.snap.task = NoTask => r.snap.state \in DueStates

Sure(r, m, ts) ==
    Claims(r) /\ Knows(r, m, ts) /\ Leads(r, m, ts) /\ (~StaleReads => Gives(r, m))

LinkedIsOver ==
    \A i \in Investigation : meta[i].linked # NoInv =>
        meta[i].state \in Terminal /\ Final(meta[i], "LINKED", tasks)

LeasedIsOpen ==
    \A i \in Investigation : meta[i].lease /\ meta[i].state \in Terminal =>
        Final(meta[i], "FAILED", tasks)

SequentialInv ==
    /\ NoLeaseLost
    /\ ChargedOnce
    /\ CreatingHoldsLease
    /\ PointerFollowsLink
    /\ LinkedIsOver
    /\ ~StaleReads => LeasedIsOpen
    /\ \A w \in Worker : Sure(run[w], meta[run[w].inv], tasks)

-----------------------------------------------------------------------------
(* The operators an invocation goes on with                                *)

LEMMA SureIdle ==
  ASSUME NEW m, NEW ts
  PROVE  Sure(Idle, m, ts)
  BY DEF Idle, Sure, Claims, Knows, Leads, Gives, Informed, Engaged, Handling, Spending,
     Aims, Unleased

\* A record without the snapshot it does not read.
LEMMA SureKept ==
  ASSUME NEW r \in Run, NEW m, NEW ts, Sure(r, m, ts)
  PROVE  Kept(r) = Idle \/ (Kept(r).inv = r.inv /\ Sure(Kept(r), m, ts))
  <1>1. CASE r.pc = "idle"
    BY <1>1 DEF Kept
  <1>2. CASE r.pc # "idle" /\ (r.pc \in UsesSnap \/ StaleReads)
    BY <1>2 DEF Kept
  <1>3. CASE r.pc # "idle" /\ r.pc \notin UsesSnap /\ ~StaleReads
    <2> DEFINE q == [r EXCEPT !.snap = NoMeta]
    <2>1. Kept(r) = q
      BY <1>3 DEF Kept
    <2>2. /\ q.pc = r.pc /\ q.inv = r.inv /\ q.task = r.task /\ q.status = r.status
          /\ q.goal = r.goal /\ q.target = r.target
      BY DEF Run
    <2> HIDE DEF q
    <2>3. r.pc \notin Informed \cup {"claim", "create"}
      BY <1>3 DEF Informed, UsesSnap
    <2>4. Claims(q) /\ Knows(q, m, ts) /\ Leads(q, m, ts)
      BY <2>2, <2>3 DEF Sure, Claims, Knows, Leads, Aims
    <2>5. ~StaleReads => Gives(q, m)
      BY <2>2, <2>3 DEF Sure, Gives
    <2> QED BY <2>1, <2>2, <2>4, <2>5 DEF Sure
  <1> QED BY <1>1, <1>2, <1>3

\* A place about which nothing but the missing link is to be known.
Simple == PC \ (Informed \cup Spending \cup Closing \cup Unleased
               \cup {"claim", "note", "persist"})

LEMMA SureSimple ==
  ASSUME NEW q, NEW m, NEW ts, q.pc \in Simple, q.pc \in Engaged => m.linked = NoInv
  PROVE  Sure(q, m, ts)
  BY DEF Sure, Claims, Knows, Leads, Gives, Simple, Informed, Spending, Closing, Unleased,
     Aims

LEMMA SureClose ==
  ASSUME NEW r \in Run, NEW mm, NEW m, NEW ts, m.linked = NoInv,
         NEW goal \in Goal \ {"rate_limited", "fetching"}, NEW target \in Investigation,
         IF goal = "linked" THEN Final(m, "LINKED", ts) ELSE target = r.inv,
         ~StaleReads /\ ~mm.lease => ~m.lease, mm \in Meta
  PROVE  Sure(Close(r, mm, goal, target), m, ts)
  <1> DEFINE q == Close(r, mm, goal, target)
  <1>1. /\ q.pc = IF mm.lease THEN "release" ELSE "settle"
        /\ q.goal = goal /\ q.target = target /\ q.inv = r.inv
    BY DEF Close, Run
  <1> HIDE DEF q
  <1>2. Claims(q) /\ Knows(q, m, ts)
    BY <1>1 DEF Claims, Knows, Informed, Spending
  <1>3. Leads(q, m, ts)
    BY <1>1 DEF Leads
  <1>4. ~StaleReads => Gives(q, m)
    BY <1>1 DEF Gives, Unleased
  <1> QED BY <1>2, <1>3, <1>4 DEF Sure, q

LEMMA SureCollect ==
  ASSUME NEW r \in Run, NEW mm \in Meta, NEW m, NEW ts, m.linked = NoInv,
         r.inv \in Investigation, ~StaleReads => ~m.lease
  PROVE  Sure(Collect(r, mm), m, ts)
  <1>1. CASE r.status = "COMPLETED"
    <2> DEFINE q == [r EXCEPT !.pc = "fetch", !.snap = mm]
    <2>1. Collect(r, mm) = q /\ q.pc = "fetch"
      BY <1>1 DEF Collect, Run
    <2> HIDE DEF q
    <2> QED BY <2>1 DEF Sure, Claims, Knows, Leads, Gives, Informed, Spending, Aims, Unleased
  <1>2. CASE r.status # "COMPLETED"
    <2>1. Collect(r, mm) = Close(r, mm, "failed", r.inv)
      BY <1>2 DEF Collect
    <2>2. "failed" \in Goal \ {"rate_limited", "fetching"}
      BY GoalSet
    <2> QED BY <2>1, <2>2, SureClose
  <1> QED BY <1>1, <1>2

LEMMA SureFinish ==
  ASSUME NEW r \in Run, NEW m \in Meta, NEW ts, m.linked = NoInv, r.inv \in Investigation,
         ~StaleReads /\ m.lease /\ r.status = "COMPLETED" => m.state \in DueStates
  PROVE  Sure(Finish(r, m), m, ts)
  <1>1. CASE m.lease
    <2> DEFINE goal == IF r.status = "COMPLETED" THEN "fetching" ELSE "failing"
               q == Finish(r, m)
    <2>1. q.pc = "release" /\ q.goal = goal /\ AfterRelease(goal) = "refetch"
      BY <1>1 DEF Finish, Run, AfterRelease
    <2> HIDE DEF q
    <2> QED BY <1>1, <2>1 DEF Sure, Claims, Knows, Leads, Gives, Informed, Spending, Aims,
               Unleased, q
  <1>2. CASE ~m.lease
    BY <1>2, SureCollect DEF Finish
  <1> QED BY <1>1, <1>2 DEF Meta

LEMMA SureProceed ==
  ASSUME NEW r \in Run, NEW m \in Meta, NEW ts, m.linked = NoInv, r.inv \in Investigation,
         m.state \in DueStates, NEW aged \in BOOLEAN
  PROVE  Sure(Proceed(r, m, aged), m, ts)
  <1>1. CASE r.status \in TerminalStatus
    BY <1>1, SureFinish DEF Proceed
  <1>2. CASE r.status \notin TerminalStatus
    <2> DEFINE q == Proceed(r, m, aged)
    <2>1. q.pc \in {"persist", "expire", "cancel"} /\ q.status = r.status
      BY <1>2 DEF Proceed, Run
    <2> HIDE DEF q
    <2>2. CASE q.pc = "persist"
      BY <1>2, <2>1, <2>2 DEF Sure, Claims, Knows, Leads, Gives, Informed, Spending, Aims,
         Unleased, q
    <2>3. CASE q.pc \in {"expire", "cancel"}
      BY <2>3, SureSimple DEF q, Simple, PC, Informed, Spending, Closing, Unleased
    <2> QED BY <2>1, <2>2, <2>3
  <1> QED BY <1>1, <1>2

LEMMA SureReconcile ==
  ASSUME NEW r \in Run, NEW m \in Meta, NEW ts,
         m.state # "ABSENT",
         m.linked # NoInv => m.state \in Terminal, m.state = "CREATING" => m.lease
  PROVE  Sure(Reconcile(r, m), m, ts)
  <1> DEFINE q == Reconcile(r, m)
  <1>1. q.pc = Dispatch(m) /\ q.snap = m
    BY DEF Reconcile, Run
  <1>2. m.state \in DueStates \cup Terminal
    BY DEF Meta, State
  <1>3. \/ q.pc = "idle"
        \/ /\ m.state \in DueStates /\ m.linked = NoInv
           /\ \/ q.pc \in {"start", "get"}
              \/ q.pc = "create" /\ m.state = "CREATING"
    <2>1. CASE m.state \in Terminal
      <3>1. Dispatch(m) = "idle"
        BY <2>1 DEF Dispatch, Terminal, Pending
      <3> QED BY <1>1, <3>1
    <2>2. CASE m.state \notin Terminal
      <3>1. m.state \in DueStates /\ m.linked = NoInv
        BY <1>2, <2>2
      <3>2. \/ Dispatch(m) \in {"start", "get"}
            \/ Dispatch(m) = "create" /\ m.state = "CREATING"
        BY <2>2 DEF Dispatch, Terminal, Pending
      <3> QED BY <1>1, <3>1, <3>2
    <2> QED BY <2>1, <2>2
  <1> HIDE DEF q
  <1>4. CASE q.pc = "idle"
    BY <1>4, SureSimple DEF q, Simple, PC, Informed, Spending, Closing, Unleased, Engaged,
       Handling
  <1>5. CASE q.pc # "idle"
    <2>1. Claims(q) /\ Knows(q, m, ts)
      BY <1>1, <1>3, <1>5 DEF Claims, Knows, Informed, Spending
    <2>2. Leads(q, m, ts) /\ Gives(q, m)
      BY <1>1, <1>3, <1>5 DEF Leads, Gives, Aims, Unleased
    <2> QED BY <2>1, <2>2 DEF Sure, q
  <1> QED BY <1>4, <1>5

-----------------------------------------------------------------------------
(* What the one invocation knows after a step                              *)

Sole(w) == Worker = {w}

\* What the steps start from.
Settled == IInv /\ SequentialInv /\ OneInvestigationPerSource

Surely(w) == \E q \in Run : Go(w, q) /\ Sure(q, meta'[q.inv], tasks')

LEMMA KnownFacts ==
  ASSUME Settled, NEW w \in Worker
  PROVE  /\ run[w] \in Run /\ Sited(run[w], Known) /\ Known \in SUBSET Investigation
         /\ Sure(run[w], meta[run[w].inv], tasks)
         /\ \A i \in Known :
              /\ meta[i] \in Meta /\ meta[i].state \in State /\ meta[i].state # "ABSENT"
              /\ meta[i].linked # NoInv =>
                   meta[i].state \in Terminal /\ Final(meta[i], "LINKED", tasks)
              /\ meta[i].state = "CREATING" => meta[i].lease
              /\ ~StaleReads /\ meta[i].lease /\ meta[i].state \in Terminal =>
                   Final(meta[i], "FAILED", tasks)
  <1>1. run[w] \in Run /\ Sited(run[w], Known) /\ Known \in SUBSET Investigation
    BY RunType DEF Settled
  <1>2. \A i \in Known : meta[i] \in Meta /\ meta[i].state # "ABSENT"
    BY <1>1 DEF Settled, IInv, TypeOK, Known, Exists
  <1>3. \A i \in Known : meta[i].state \in State
    BY <1>2 DEF Meta
  <1> QED BY <1>1, <1>2, <1>3 DEF Settled, SequentialInv, LinkedIsOver, LeasedIsOpen,
             CreatingHoldsLease

LEMMA SurelyIdle ==
  ASSUME NEW w \in Worker, Go(w, Idle)
  PROVE  Surely(w)
  BY SureIdle, IdleType DEF Surely

LEMMA SurelyEnter ==
  ASSUME Settled, NEW w \in Worker, NEW pc \in Simple, Enter(w, pc),
         pc \in Engaged => meta'[run[w].inv].linked = NoInv
  PROVE  Surely(w)
  <1> DEFINE q == [run[w] EXCEPT !.pc = pc]
  <1>1. q \in Run /\ q.pc = pc /\ q.inv = run[w].inv
    BY KnownFacts DEF Run, Simple
  <1>2. Go(w, q)
    BY DEF Enter
  <1> HIDE DEF q
  <1> QED BY <1>1, <1>2, SureSimple DEF Surely

LEMMA SurelyRaised ==
  ASSUME Settled, NEW w \in Worker, Go(w, Raised(run[w]))
  PROVE  Surely(w)
  <1> DEFINE q == Raised(run[w])
  <1>1. q \in Run /\ q.pc \in {"recover", "idle"}
    BY KnownFacts, RaisedType DEF Raised, Run
  <1> HIDE DEF q
  <1>2. q.pc \in Simple /\ q.pc \notin Engaged
    BY <1>1 DEF Simple, PC, Informed, Spending, Closing, Unleased, Engaged, Handling
  <1> QED BY <1>1, <1>2, SureSimple DEF Surely, q

\* The reads of the start, of the create and of the release.
LEMMA LeaseReadsSurely ==
  ASSUME Settled, NEW w \in Worker, Sole(w), UNCHANGED meta,
         \/ ReadPointed(w) \/ LeaseRefused(w) \/ Diagnose(w) \/ Reread(w)
         \/ CreateOk(w) \/ CreateAmbiguous(w) \/ CreateRejected(w)
         \/ ReleaseRefused(w) \/ Recheck(w)
  PROVE  Surely(w)
  <1> DEFINE r == run[w]
             m == meta[r.inv]
  <1>0. /\ r \in Run /\ Sited(r, Known) /\ Known \in SUBSET Investigation
        /\ Sure(r, m, tasks) /\ IInv
    BY KnownFacts DEF Settled
  <1>1. CASE ReadPointed(w)
    <2>1. r.inv \in Known /\ UNCHANGED tasks
      BY <1>0, <1>1 DEF ReadPointed, Sited, Handling, PC, provider
    <2> DEFINE q == Reconcile(r, m)
    <2>m. /\ m \in Meta /\ m.state # "ABSENT"
          /\ m.linked # NoInv => m.state \in Terminal
          /\ m.state = "CREATING" => m.lease
      BY <2>1, KnownFacts
    <2>2. q \in Run
      BY <1>0, <2>1, <2>m, ReconcileType
    <2>i. q.inv = r.inv
      BY <1>0 DEF Reconcile, Run
    <2>s. Sure(q, m, tasks)
      BY <1>0, <2>m, SureReconcile
    <2>3. Go(w, q) \/ Go(w, Idle)
      BY <1>1 DEF ReadPointed
    <2> HIDE DEF q
    <2> QED BY <2>1, <2>2, <2>i, <2>s, <2>3, SurelyIdle DEF Surely
  <1>2. CASE LeaseRefused(w) \/ Diagnose(w)
    <2>1. m.linked = NoInv
      BY <1>0, <1>2 DEF LeaseRefused, Diagnose, Sure, Leads, Engaged, Handling, PC
    <2>2. \E pc \in {"diagnose", "idle", "budget", "capacity"} : Enter(w, pc)
      BY <1>2 DEF LeaseRefused, Diagnose
    <2> QED BY <2>1, <2>2, SurelyEnter DEF Simple, PC, Informed, Spending, Closing, Unleased
  <1>3. CASE Reread(w)
    <2>1. r.pc = "reread" /\ UNCHANGED tasks /\ r.inv \in Known
      BY <1>0, <1>3 DEF Reread, provider, Sited, Handling, PC
    <2>2. PICK mm \in Read(w) : Go(w, [r EXCEPT !.pc = "create", !.snap = mm])
      BY <1>3 DEF Reread
    <2> DEFINE q == [r EXCEPT !.pc = "create", !.snap = mm]
    <2>3. mm \in Meta
      BY <1>0, <2>1, ReadType
    <2>4. q \in Run /\ q.pc = "create" /\ q.snap = mm /\ q.inv = r.inv /\ Go(w, q)
      BY <1>0, <2>2, <2>3 DEF Run, PC
    <2> HIDE DEF q
    <2>5. m.lease /\ m.state = "CREATING" /\ m.linked = NoInv
      BY <1>0, <2>1 DEF Sure, Knows, Leads, Spending, Engaged, Handling, PC
    <2>6. ~StaleReads => mm.lease
      BY <2>5 DEF Read
    <2>7. Sure(q, m, tasks)
      BY <2>4, <2>5, <2>6 DEF Sure, Claims, Knows, Leads, Gives, Informed, Aims, Unleased
    <2> QED BY <2>1, <2>4, <2>7 DEF Surely
  <1>4. CASE CreateOk(w)
    <2>1. r.pc = "create" /\ r.inv \in Known /\ r.inv \in Task
      BY <1>0, <1>4 DEF CreateOk, Sited, Handling, PC, Task
    <2>2. tasks'[r.inv] \in Status
      BY <1>0, <1>4, <2>1 DEF CreateOk, Submitted, Status, IInv, TypeOK
    <2> DEFINE st == tasks'[r.inv]
               q == [r EXCEPT !.pc = "persist", !.task = r.inv, !.status = st]
    <2>3. Go(w, q)
      BY <1>4 DEF CreateOk
    <2> HIDE DEF st
    <2>4. /\ q \in Run /\ q.pc = "persist" /\ q.inv = r.inv /\ q.task = r.inv /\ q.status = st
      BY <1>0, <2>1, <2>2 DEF Run, PC, st
    <2> HIDE DEF q
    <2>5. m.linked = NoInv
      BY <1>0, <2>1 DEF Sure, Leads, Engaged, Handling, PC
    <2>6. Sure(q, m, tasks')
      BY <2>4, <2>5 DEF Sure, Claims, Knows, Leads, Gives, Informed, Spending, Aims, Unleased, st
    <2> QED BY <2>3, <2>4, <2>6 DEF Surely
  <1>5. CASE CreateAmbiguous(w)
    <2> DEFINE q == [r EXCEPT !.pc = "ambiguous"]
    <2>1. r.pc = "create" /\ Go(w, q)
      BY <1>5 DEF CreateAmbiguous, Enter
    <2>2. q \in Run /\ q.pc = "ambiguous" /\ q.inv = r.inv
      BY <1>0 DEF Run, PC
    <2> HIDE DEF q
    <2>3. m.lease /\ m.state = "CREATING" /\ m.linked = NoInv
      BY <1>0, <2>1 DEF Sure, Knows, Leads, Spending, Engaged, Handling, PC
    <2>4. Sure(q, m, tasks')
      BY <2>2, <2>3 DEF Sure, Claims, Knows, Leads, Gives, Informed, Aims, Unleased
    <2> QED BY <2>1, <2>2, <2>4 DEF Surely
  <1>6. CASE CreateRejected(w)
    <2>1. r.pc = "create" /\ r.inv \in Known /\ UNCHANGED tasks /\ r.snap \in Meta
      BY <1>0, <1>6 DEF CreateRejected, Sited, Handling, PC, provider, Run
    <2>2. m.lease /\ m.state = "CREATING" /\ m.linked = NoInv /\ (~StaleReads => r.snap.lease)
      BY <1>0, <2>1 DEF Sure, Knows, Leads, Gives, Spending, Engaged, Handling, PC
    <2> DEFINE p == [r EXCEPT !.pc = "release", !.goal = "rate_limited"]
               q == Close(r, r.snap, "create_failed", r.inv)
    <2>3. Go(w, p) \/ Go(w, q)
      BY <1>6 DEF CreateRejected
    <2>4. "rate_limited" \in Goal /\ AfterRelease("rate_limited") = "idle"
          /\ "create_failed" \in Goal \ {"rate_limited", "fetching"}
      BY GoalSet DEF AfterRelease
    <2>5. p \in Run /\ p.pc = "release" /\ p.inv = r.inv /\ p.goal = "rate_limited"
      BY <1>0, <2>4 DEF Run, PC
    <2>6. q \in Run
      BY <1>0, <2>1, <2>4, CloseType
    <2>i. q.inv = r.inv
      BY <1>0 DEF Close, Run
    <2>7. Sure(q, m, tasks)
      BY <1>0, <2>1, <2>2, <2>4, SureClose
    <2> HIDE DEF p, q
    <2>8. Sure(p, m, tasks)
      BY <2>2, <2>4, <2>5 DEF Sure, Claims, Knows, Leads, Gives, Informed, Spending, Aims,
         Unleased, DueStates
    <2> QED BY <2>1, <2>3, <2>5, <2>6, <2>i, <2>7, <2>8 DEF Surely
  <1>7. CASE ReleaseRefused(w)
    <2> DEFINE q == [r EXCEPT !.pc = "recheck"]
    <2>1. r.pc = "release" /\ Go(w, q) /\ UNCHANGED tasks /\ r.inv \in Known
      BY <1>0, <1>7 DEF ReleaseRefused, Enter, provider, Sited, Handling, PC
    <2>2. ~CanRelease(r.inv)
      BY <1>7 DEF ReleaseRefused, Contended, Sole
    <2>3. ~m.lease
      <3> SUFFICES ASSUME m.lease PROVE FALSE
        OBVIOUS
      <3>1. r.inv \in Leased /\ IsFiniteSet(Leased)
        BY <1>0, <2>1, ConstantsOK, FS_Subset DEF Leased, ConstantsOK
      <3>2. Cardinality(Leased) # 0 /\ Cardinality(Leased) \in Nat
        BY <3>1, FS_EmptySet, FS_CardinalityType
      <3>3. active = Cardinality(Leased)
        BY DEF Settled, SequentialInv, NoLeaseLost
      <3> QED BY <2>2, <3>2, <3>3 DEF CanRelease
    <2>4. q \in Run /\ q.pc = "recheck" /\ q.inv = r.inv /\ q.goal = r.goal /\ q.target = r.target
      BY <1>0 DEF Run, PC
    <2> HIDE DEF q
    <2>5. Leads(q, m, tasks)
      BY <1>0, <2>1, <2>4 DEF Sure, Leads, Aims, Engaged, Handling, PC
    <2>6. Sure(q, m, tasks)
      BY <2>3, <2>4, <2>5 DEF Sure, Claims, Knows, Gives, Informed, Spending, Unleased
    <2> QED BY <2>1, <2>4, <2>6 DEF Surely
  <1>8. CASE Recheck(w)
    <2> DEFINE q == [r EXCEPT !.pc = "overwrite"]
    <2>1. r.pc = "recheck" /\ UNCHANGED tasks /\ (Go(w, Raised(r)) \/ Go(w, q))
      BY <1>8 DEF Recheck, provider
    <2>2. q \in Run /\ q.pc = "overwrite" /\ q.inv = r.inv /\ q.goal = r.goal /\ q.target = r.target
      BY <1>0 DEF Run, PC
    <2> HIDE DEF q
    <2>3. Leads(q, m, tasks) /\ ~m.lease
      BY <1>0, <2>1, <2>2 DEF Sure, Leads, Knows, Aims, Engaged, Handling, PC
    <2>4. Sure(q, m, tasks)
      BY <2>2, <2>3 DEF Sure, Claims, Knows, Gives, Informed, Spending, Unleased
    <2> QED BY <2>1, <2>2, <2>4, SurelyRaised DEF Surely
  <1> QED BY <1>1, <1>2, <1>3, <1>4, <1>5, <1>6, <1>7, <1>8

LEMMA SameInv ==
  ASSUME NEW r \in Run
  PROVE  /\ \A m : Reconcile(r, m).inv = r.inv
         /\ \A m, goal, target : Close(r, m, goal, target).inv = r.inv
         /\ \A m : Collect(r, m).inv = r.inv /\ Finish(r, m).inv = r.inv
         /\ \A m, aged : Proceed(r, m, aged).inv = r.inv
  <1>1. \A m : Reconcile(r, m).inv = r.inv
    BY DEF Reconcile, Run
  <1>2. \A m, goal, target : Close(r, m, goal, target).inv = r.inv
    BY DEF Close, Run
  <1>3. \A m : Collect(r, m).inv = r.inv
    BY <1>2 DEF Collect, Run
  <1>4. \A m : Finish(r, m).inv = r.inv
    BY <1>3 DEF Finish, Run
  <1>5. \A m, aged : Proceed(r, m, aged).inv = r.inv
    BY <1>4 DEF Proceed, Run
  <1> QED BY <1>1, <1>2, <1>3, <1>4, <1>5

\* The reads of a task, of its summary and of an event.
LEMMA TaskReadsSurely ==
  ASSUME Settled, NEW w \in Worker, UNCHANGED meta,
         \/ Refetch(w) \/ SummaryFound(w) \/ SummaryMissing(w) \/ SummaryOverdue(w)
         \/ Reload(w) \/ GetTask(w) \/ LookupPrimary(w) \/ ReadPrimary(w)
         \/ CancelTask(w) \/ FindTask(w) \/ ImportPrimary(w) \/ Probe(w)
         \/ NoteEvent(w) \/ ProviderError(w)
  PROVE  Surely(w)
  <1> DEFINE r == run[w]
             m == meta[r.inv]
  <1>0. /\ r \in Run /\ Sited(r, Known) /\ Known \in SUBSET Investigation
        /\ Sure(r, m, tasks) /\ IInv /\ r.snap \in Meta
    BY KnownFacts DEF Settled, Run
  <1>1. CASE Refetch(w) \/ Reload(w)
    <2>1. r.inv \in Known /\ UNCHANGED tasks
      BY <1>0, <1>1 DEF Refetch, Reload, provider, Sited, Handling, PC
    <2>2. m.linked = NoInv /\ (~StaleReads => ~m.lease)
      BY <1>0, <1>1 DEF Refetch, Reload, Sure, Leads, Gives, Engaged, Unleased, Handling, PC
    <2>3. PICK mm \in Meta : Go(w, Collect(r, mm)) \/ Go(w, Close(r, mm, "completed", r.inv))
      BY <1>0, <1>1, <2>1, ReadType DEF Refetch, Reload
    <2>4. "completed" \in Goal \ {"rate_limited", "fetching"}
      BY GoalSet
    <2>5. Collect(r, mm) \in Run /\ Close(r, mm, "completed", r.inv) \in Run
      BY <1>0, <2>1, <2>4, CollectType, CloseType
    <2>6. Collect(r, mm).inv = r.inv /\ Close(r, mm, "completed", r.inv).inv = r.inv
      BY <1>0, SameInv
    <2>7. Sure(Collect(r, mm), m, tasks) /\ Sure(Close(r, mm, "completed", r.inv), m, tasks)
      BY <1>0, <2>1, <2>2, <2>4, SureCollect, SureClose
    <2> QED BY <2>1, <2>3, <2>5, <2>6, <2>7 DEF Surely
  <1>2. CASE SummaryFound(w) \/ SummaryMissing(w) \/ SummaryOverdue(w)
    <2>1. r.pc = "fetch" /\ r.inv \in Known /\ UNCHANGED tasks
      BY <1>0, <1>2 DEF SummaryFound, SummaryMissing, SummaryOverdue, provider, Sited,
         Handling, PC
    <2>2. m.linked = NoInv /\ (~StaleReads => ~m.lease)
      BY <1>0, <2>1 DEF Sure, Leads, Gives, Engaged, Unleased, Handling, PC
    <2>3. CASE SummaryOverdue(w)
      <3>1. PICK mm \in Meta : Go(w, Close(r, mm, "failed", r.inv))
        BY <1>0, <2>1, <2>3, KnownFacts DEF SummaryOverdue
      <3>2. "failed" \in Goal \ {"rate_limited", "fetching"}
        BY GoalSet
      <3>3. Close(r, mm, "failed", r.inv) \in Run
        BY <1>0, <2>1, <3>2, CloseType
      <3>5. Close(r, mm, "failed", r.inv).inv = r.inv
        BY <1>0, SameInv
      <3>4. Sure(Close(r, mm, "failed", r.inv), m, tasks)
        BY <1>0, <2>1, <2>2, <3>2, SureClose
      <3> QED BY <2>1, <3>1, <3>3, <3>4, <3>5 DEF Surely
    <2>4. ASSUME NEW q \in Run, Go(w, q), q.pc \in {"reload", "wait"}, q.inv = r.inv
          PROVE  Surely(w)
      <3>1. Sure(q, m, tasks)
        BY <2>2, <2>4 DEF Sure, Claims, Knows, Leads, Gives, Informed, Spending, Aims, Unleased
      <3> QED BY <2>1, <2>4, <3>1 DEF Surely
    <2>5. CASE SummaryFound(w)
      <3>1. PICK mm \in Meta : Go(w, [r EXCEPT !.pc = "reload", !.snap = mm])
        BY <1>0, <2>1, <2>5, KnownFacts DEF SummaryFound
      <3> DEFINE q == [r EXCEPT !.pc = "reload", !.snap = mm]
      <3>2. q \in Run /\ q.pc = "reload" /\ q.inv = r.inv
        BY <1>0 DEF Run, PC
      <3> QED BY <2>4, <3>1, <3>2
    <2>6. CASE SummaryMissing(w)
      <3> DEFINE q == [r EXCEPT !.pc = "wait"]
      <3>2. q \in Run /\ q.pc = "wait" /\ q.inv = r.inv
        BY <1>0 DEF Run, PC
      <3> QED BY <2>4, <2>6, <3>2 DEF SummaryMissing, Enter
    <2> QED BY <1>2, <2>3, <2>5, <2>6
  <1>3. CASE GetTask(w)
    <2> DEFINE t == r.snap.task
               got == [r EXCEPT !.task = t, !.status = tasks[t]]
    <2>1. /\ r.pc = "get" /\ r.inv \in Known /\ t \in Task /\ tasks[t] \in Status
          /\ UNCHANGED tasks /\ m \in Meta
      BY <1>0, <1>3 DEF GetTask, Sited, Handling, PC, IInv, TypeOK, provider
    <2>2. r.snap = m /\ m.state \in DueStates /\ m.linked = NoInv
      BY <1>0, <2>1 DEF Sure, Knows, Leads, Informed, Engaged, Handling, PC
    <2>3. CASE tasks[t] = "LINKED"
      <3> DEFINE q == [got EXCEPT !.pc = "lookup", !.task = primary[t]]
      <3>1. primary[t] \in Task
        BY <2>1, <2>3 DEF Settled, IInv, LinkedHasPrimary
      <3>2. q \in Run /\ q.pc = "lookup" /\ q.inv = r.inv /\ q.snap = r.snap
        BY <1>0, <2>1, <3>1 DEF Run, PC
      <3>3. Go(w, q)
        BY <1>3, <2>3 DEF GetTask
      <3> HIDE DEF q
      <3>4. Final(m, "LINKED", tasks)
        BY <2>1, <2>2, <2>3 DEF Final
      <3>5. Sure(q, m, tasks)
        BY <2>2, <3>2, <3>4 DEF Sure, Claims, Knows, Leads, Gives, Informed, Spending,
           Aims, Unleased
      <3> QED BY <2>1, <3>2, <3>3, <3>5 DEF Surely
    <2>4. CASE tasks[t] # "LINKED"
      <3>1. got \in Run /\ got.inv = r.inv /\ got.task \in Task
        BY <1>0, <2>1 DEF Run
      <3>2. PICK aged \in BOOLEAN : Go(w, Proceed(got, r.snap, aged))
        BY <1>3, <2>4 DEF GetTask
      <3> HIDE DEF got
      <3>3. /\ Proceed(got, m, aged) \in Run /\ Proceed(got, m, aged).inv = r.inv
            /\ Sure(Proceed(got, m, aged), m, tasks)
        BY <1>0, <2>1, <2>2, <3>1, ProceedType, SameInv, SureProceed
      <3> QED BY <2>1, <2>2, <3>2, <3>3 DEF Surely
    <2> QED BY <2>3, <2>4
  <1>4. CASE LookupPrimary(w)
    <2>1. /\ r.pc = "lookup" /\ r.inv \in Known /\ r.task \in Task /\ UNCHANGED tasks
      BY <1>0, <1>4 DEF LookupPrimary, Sited, Handling, PC, AtTask, provider
    <2>2. /\ r.snap = m /\ m.state \in DueStates /\ m.linked = NoInv
          /\ Final(m, "LINKED", tasks)
      BY <1>0, <2>1 DEF Sure, Knows, Leads, Informed, Engaged, Handling, PC
    <2>3. ASSUME NEW j \in KnownBy(r.task), Go(w, Close(r, r.snap, "linked", j))
          PROVE  Surely(w)
      <3>1. j \in Known
        BY <1>0, <2>1, <2>3, KnownByKnown
      <3>2. "linked" \in Goal \ {"rate_limited", "fetching"}
        BY GoalSet
      <3>3. Close(r, r.snap, "linked", j) \in Run
        BY <1>0, <2>1, <3>1, <3>2, CloseType
      <3>5. Close(r, r.snap, "linked", j).inv = r.inv
        BY <1>0, SameInv
      <3>4. Sure(Close(r, m, "linked", j), m, tasks)
        BY <1>0, <2>1, <2>2, <3>1, <3>2, SureClose
      <3> QED BY <2>1, <2>2, <2>3, <3>3, <3>4, <3>5 DEF Surely
    <2>4. CASE Enter(w, "read_primary")
      <3> DEFINE q == [r EXCEPT !.pc = "read_primary"]
      <3>1. q \in Run /\ q.pc = "read_primary" /\ q.inv = r.inv /\ q.snap = r.snap
        BY <1>0 DEF Run, PC
      <3>2. Go(w, q)
        BY <2>4 DEF Enter
      <3> HIDE DEF q
      <3>3. Sure(q, m, tasks)
        BY <2>2, <3>1 DEF Sure, Claims, Knows, Leads, Gives, Informed, Spending, Aims, Unleased
      <3> QED BY <2>1, <3>1, <3>2, <3>3 DEF Surely
    <2> QED BY <1>4, <2>3, <2>4 DEF LookupPrimary
  <1>5. CASE ReadPrimary(w)
    <2>1. /\ r.pc = "read_primary" /\ r.inv \in Known /\ UNCHANGED tasks
          /\ tasks[r.task] \in Status
      BY <1>0, <1>5 DEF ReadPrimary, Sited, Handling, PC, AtTask, provider, IInv, TypeOK
    <2>2. /\ r.snap = m /\ m.state \in DueStates /\ m.linked = NoInv
      BY <1>0, <2>1 DEF Sure, Knows, Leads, Informed, Engaged, Handling, PC
    <2> DEFINE q == [r EXCEPT !.pc = "adopt", !.status = tasks[r.task]]
    <2>3. q \in Run /\ q.pc = "adopt" /\ q.inv = r.inv /\ q.snap = r.snap
      BY <1>0, <2>1 DEF Run, PC
    <2>4. Go(w, q)
      BY <1>5 DEF ReadPrimary
    <2> HIDE DEF q
    <2>5. Sure(q, m, tasks)
      BY <2>2, <2>3 DEF Sure, Claims, Knows, Leads, Gives, Informed, Spending, Aims, Unleased
    <2> QED BY <2>1, <2>3, <2>4, <2>5 DEF Surely
  <1>6. CASE CancelTask(w)
    <2>1. r.pc = "cancel" /\ Enter(w, "expire")
      BY <1>6 DEF CancelTask
    <2>2. meta'[r.inv].linked = NoInv
      BY <1>0, <2>1 DEF Sure, Leads, Engaged, Handling, PC
    <2>3. "expire" \in Simple
      BY DEF Simple, PC, Informed, Spending, Closing, Unleased
    <2> QED BY <2>1, <2>2, <2>3, SurelyEnter
  <1>7. CASE FindTask(w)
    <2>1. r.task \in Task /\ UNCHANGED tasks
      BY <1>0, <1>7 DEF FindTask, Sited, AtTask, provider
    <2>2. ASSUME NEW i \in KnownBy(r.task),
                 Go(w, [r EXCEPT !.pc = "probe", !.inv = i, !.snap = meta[i]])
          PROVE  Surely(w)
      <3> DEFINE q == [r EXCEPT !.pc = "probe", !.inv = i, !.snap = meta[i]]
      <3>1. i \in Known /\ meta[i] \in Meta /\ meta[i].task = r.task
        BY <1>0, <2>1, KnownByKnown DEF KnownBy, IInv, TypeOK
      <3>2. /\ q \in Run /\ q.pc = "probe" /\ q.inv = i /\ q.snap = meta[i]
            /\ q.task = r.task
        BY <1>0, <3>1 DEF Run, PC
      <3> HIDE DEF q
      <3>3. Sure(q, meta[i], tasks)
        BY <3>1, <3>2 DEF Sure, Claims, Knows, Leads, Gives, Informed, Spending, Aims,
           Unleased, Engaged
      <3> QED BY <2>1, <2>2, <3>2, <3>3 DEF Surely, q
    <2>3. ASSUME primary[r.task] # NoTask,
                 Go(w, [r EXCEPT !.pc = "import", !.task = primary[r.task]])
          PROVE  Surely(w)
      <3> DEFINE q == [r EXCEPT !.pc = "import", !.task = primary[r.task]]
      <3>1. primary[r.task] \in Task
        BY <1>0, <2>1, <2>3 DEF IInv, TypeOK
      <3>2. q \in Run /\ q.pc = "import"
        BY <1>0, <3>1 DEF Run, PC
      <3> HIDE DEF q
      <3>3. q.pc \in Simple /\ q.pc \notin Engaged
        BY <3>2 DEF Simple, PC, Informed, Spending, Closing, Unleased, Engaged, Handling
      <3> QED BY <2>3, <3>2, <3>3, SureSimple DEF Surely, q
    <2> QED BY <1>7, <2>2, <2>3, SurelyIdle DEF FindTask
  <1>8. CASE ImportPrimary(w)
    <2> DEFINE st == tasks[r.task]
               im == ImportedMeta(r.task, st)
               q == [r EXCEPT !.pc = "claim", !.status = st, !.snap = im]
    <2>1. r.task \in Task /\ st \in Status
      BY <1>0, <1>8 DEF ImportPrimary, Sited, AtTask, IInv, TypeOK
    <2>2. /\ im \in Meta /\ im.linked = NoInv /\ im.task # NoTask
          /\ im.state # "CREATING"
      BY <2>1, ImportedMetaType, WorkflowStateType, Absent DEF ImportedMeta, NoMeta
    <2>3. Go(w, q)
      BY <1>8 DEF ImportPrimary
    <2> HIDE DEF im, st
    <2>4. q \in Run /\ q.pc = "claim" /\ q.snap = im
      BY <1>0, <2>1, <2>2 DEF Run, PC
    <2> HIDE DEF q
    <2>5. Sure(q, meta'[q.inv], tasks')
      BY <2>2, <2>4 DEF Sure, Claims, Knows, Leads, Gives, Informed, Spending, Aims,
         Unleased, Engaged, Handling
    <2> QED BY <2>3, <2>4, <2>5 DEF Surely
  <1>9. CASE Probe(w)
    <2> DEFINE q == [r EXCEPT !.pc = "note", !.status = tasks[r.task]]
    <2>1. /\ r.pc = "probe" /\ r.inv \in Known /\ tasks[r.task] \in Status
          /\ UNCHANGED tasks
      BY <1>0, <1>9 DEF Probe, Sited, Handling, PC, AtTask, IInv, TypeOK, provider
    <2>2. r.snap = m /\ r.task = m.task
      BY <1>0, <2>1 DEF Sure, Knows, Informed
    <2>m. /\ m \in Meta /\ m.state # "ABSENT"
          /\ m.linked # NoInv => m.state \in Terminal /\ Final(m, "LINKED", tasks)
          /\ m.state = "CREATING" => m.lease
      BY <2>1, KnownFacts
    <2>3. CASE tasks[r.task] = "LINKED"
      <3>1. Reconcile(r, m) \in Run
        BY <1>0, <2>1, <2>m, ReconcileType
      <3>2. Reconcile(r, m).inv = r.inv
        BY <1>0, SameInv
      <3>3. Sure(Reconcile(r, m), m, tasks)
        BY <1>0, <2>m, SureReconcile
      <3>4. Go(w, Reconcile(r, m))
        BY <1>9, <2>2, <2>3 DEF Probe
      <3> QED BY <2>1, <3>1, <3>2, <3>3, <3>4 DEF Surely
    <2>4. CASE tasks[r.task] # "LINKED"
      <3>1. /\ q \in Run /\ q.pc = "note" /\ q.inv = r.inv /\ q.task = r.task
            /\ q.status = tasks[r.task]
        BY <1>0, <2>1 DEF Run, PC
      <3>2. Go(w, q)
        BY <1>9, <2>4 DEF Probe
      <3>3. m.linked = NoInv
        BY <2>2, <2>m, <2>4 DEF Final
      <3> HIDE DEF q
      <3>4. Sure(q, m, tasks)
        BY <2>2, <3>1, <3>3 DEF Sure, Claims, Knows, Leads, Gives, Informed, Spending,
           Aims, Unleased
      <3> QED BY <2>1, <3>1, <3>2, <3>4 DEF Surely
    <2> QED BY <2>3, <2>4
  <1>10. CASE NoteEvent(w)
    <2> DEFINE q == [r EXCEPT !.pc = "persist", !.snap = m]
    <2>1. r.pc = "note" /\ r.inv \in Known /\ r.inv \in Investigation /\ UNCHANGED tasks
      BY <1>0, <1>10 DEF NoteEvent, Sited, Handling, PC, provider
    <2>2. /\ m.linked = NoInv /\ r.task = m.task
          /\ r.status \in TerminalStatus => tasks[r.task] = r.status
      BY <1>0, <2>1 DEF Sure, Knows, Leads, Engaged, Handling, PC
    <2>m. /\ m \in Meta /\ m.state \in State
          /\ ~StaleReads /\ m.lease /\ m.state \in Terminal => Final(m, "FAILED", tasks)
      BY <2>1, KnownFacts
    <2>3. CASE r.status \in TerminalStatus
      <3>1. ~StaleReads /\ m.lease /\ r.status = "COMPLETED" => m.state \in DueStates
        BY <2>2, <2>m, <2>3 DEF State, Final
      <3>2. Sure(Finish(r, m), m, tasks)
        BY <1>0, <2>1, <2>2, <2>m, <3>1, SureFinish
      <3>3. Finish(r, m) \in Run /\ Finish(r, m).inv = r.inv
        BY <1>0, <2>1, <2>m, FinishType, SameInv
      <3>4. Go(w, Finish(r, m))
        BY <1>10, <2>3 DEF NoteEvent
      <3> QED BY <2>1, <3>2, <3>3, <3>4 DEF Surely
    <2>4. CASE r.status \notin TerminalStatus
      <3>1. q \in Run /\ q.pc = "persist" /\ q.inv = r.inv /\ q.status = r.status
        BY <1>0, <2>m DEF Run, PC
      <3>2. Go(w, q)
        BY <1>10, <2>4 DEF NoteEvent
      <3> HIDE DEF q
      <3>3. Sure(q, m, tasks)
        BY <2>2, <2>4, <3>1 DEF Sure, Claims, Knows, Leads, Gives, Informed, Spending,
           Aims, Unleased
      <3> QED BY <2>1, <3>1, <3>2, <3>3 DEF Surely
    <2> QED BY <2>3, <2>4
  <1>11. CASE ProviderError(w)
    BY <1>11, SurelyRaised DEF ProviderError
  <1> QED BY <1>1, <1>2, <1>3, <1>4, <1>5, <1>6, <1>7, <1>8, <1>9, <1>10, <1>11

\* An invocation starts from what it has just read.
LEMMA TriggersSurely ==
  ASSUME Settled, NEW w \in Worker, Trigger(w)
  PROVE  Surely(w)
  <1>0. UNCHANGED <<meta, tasks>> /\ \A K \in SUBSET Investigation : Idle \in Run
    BY TriggerStore, IdleType DEF Settled, provider
  <1>1. ASSUME NEW s \in Source, NEW auto \in BOOLEAN, Request(w, s, auto)
        PROVE  Surely(w)
    <2>1. CASE pointer[s] = NoInv
      <3> DEFINE nm == NewMeta(s, auto)
                 q == [Idle EXCEPT !.pc = "claim", !.snap = nm]
      <3>1. /\ nm \in Meta /\ nm.linked = NoInv /\ nm.state \in DueStates
            /\ nm.state # "CREATING"
        BY NewMetaType DEF NewMeta, NoMeta, DueStates, Pending
      <3>2. Go(w, q)
        BY <1>1, <2>1 DEF Request
      <3> HIDE DEF nm
      <3>3. q \in Run /\ q.pc = "claim" /\ q.snap = nm
        BY <1>0, <3>1 DEF Run, PC, Idle
      <3> HIDE DEF q
      <3>4. Sure(q, meta'[q.inv], tasks')
        BY <3>1, <3>3 DEF Sure, Claims, Knows, Leads, Gives, Informed, Spending, Aims,
           Unleased, Engaged, Handling
      <3> QED BY <3>2, <3>3, <3>4 DEF Surely
    <2>2. CASE pointer[s] # NoInv
      <3> DEFINE q == [Idle EXCEPT !.pc = "pointed", !.inv = pointer[s]]
      <3>1. pointer[s] \in Investigation
        BY <2>2 DEF Settled, IInv, TypeOK, SourceKey
      <3>2. q \in Run /\ q.pc = "pointed"
        BY <1>0, <3>1 DEF Run, PC, Idle
      <3>3. Go(w, q)
        BY <1>1, <2>2 DEF Request
      <3> HIDE DEF q
      <3>4. q.pc \in Simple /\ q.pc \notin Engaged
        BY <3>2 DEF Simple, PC, Informed, Spending, Closing, Unleased, Engaged, Handling
      <3> QED BY <3>2, <3>3, <3>4, SureSimple DEF Surely
    <2> QED BY <2>1, <2>2
  <1>2. ASSUME NEW i \in Investigation, NEW r \in Run, r.inv = i,
               meta[i].state \in DueStates, Go(w, Reconcile(r, meta[i]))
        PROVE  Surely(w)
    <2>1. i \in Known
      BY <1>2 DEF Known, Exists, DueStates, Pending
    <2>m. /\ meta[i] \in Meta /\ meta[i].state # "ABSENT"
          /\ meta[i].linked # NoInv => meta[i].state \in Terminal
          /\ meta[i].state = "CREATING" => meta[i].lease
      BY <2>1, KnownFacts
    <2>2. Reconcile(r, meta[i]) \in Run
      BY <1>2, <2>1, <2>m, KnownType, ReconcileType
    <2>3. Reconcile(r, meta[i]).inv = i
      BY <1>2, SameInv
    <2>4. Sure(Reconcile(r, meta[i]), meta[i], tasks)
      BY <1>2, <2>m, SureReconcile
    <2> QED BY <1>0, <1>2, <2>2, <2>3, <2>4 DEF Surely
  <1>3. ASSUME NEW i \in Investigation, Sweep(w, i) \/ Refresh(w, i)
        PROVE  Surely(w)
    <2>1. /\ [Idle EXCEPT !.inv = i, !.sweep = TRUE] \in Run
          /\ [Idle EXCEPT !.inv = i, !.sweep = TRUE].inv = i
          /\ [Idle EXCEPT !.inv = i] \in Run /\ [Idle EXCEPT !.inv = i].inv = i
      BY <1>0 DEF Run, Idle
    <2> QED BY <1>2, <1>3, <2>1 DEF Sweep, Refresh
  <1>4. ASSUME NEW e \in Event, Deliver(w, e)
        PROVE  Surely(w)
    <2> DEFINE q == [Idle EXCEPT !.pc = "find", !.task = e.task, !.event = {e}]
    <2>1. q \in Run /\ q.pc = "find"
      BY <1>0 DEF Run, PC, Event, Idle
    <2>2. Go(w, q)
      BY <1>4 DEF Deliver
    <2> HIDE DEF q
    <2>3. q.pc \in Simple /\ q.pc \notin Engaged
      BY <2>1 DEF Simple, PC, Informed, Spending, Closing, Unleased, Engaged, Handling
    <2> QED BY <2>1, <2>2, <2>3, SureSimple DEF Surely
  <1> QED BY <1>1, <1>3, <1>4 DEF Trigger

-----------------------------------------------------------------------------
(* What the one invocation writes                                          *)

\* An update of the item m to n.
Sound(m, n, ts) ==
    /\ n \in Meta /\ n.source = m.source /\ n.state # "ABSENT"
    /\ n.state = "CREATING" => n.lease
    /\ n.linked = m.linked \/ m.linked = NoInv
    /\ n.linked # NoInv => n.state \in Terminal /\ Final(n, "LINKED", ts)
    /\ ~StaleReads /\ n.lease /\ n.state \in Terminal => Final(n, "FAILED", ts)
    /\ m.charged => n.charged

\* The counters that go with it.
Charges(m, n) ==
    \/ UNCHANGED automaticCount
    \/ automaticCount' = automaticCount + 1 /\ ~m.charged /\ n.charged

Takes(m, n) ==
    /\ ~m.lease /\ n.lease /\ active < MaxConcurrency /\ active' = active + 1
    /\ m.state \in DueStates /\ n.state \in DueStates

Returns(m, n) ==
    /\ m.lease /\ ~n.lease /\ active' = active - 1
    /\ ~StaleReads => m.state \in DueStates \/ n.state \in Terminal

Counts(m, n) ==
    /\ Charges(m, n)
    /\ \/ n.lease = m.lease /\ UNCHANGED active
       \/ Takes(m, n) \/ Returns(m, n)

UpdatesItem(w, i) ==
    /\ i \in Known /\ i = run[w].inv /\ meta' = Updated(i, meta'[i])
    /\ Sound(meta[i], meta'[i], tasks) /\ Counts(meta[i], meta'[i])

Soundly(w) ==
    \/ UNCHANGED <<meta, active, automaticCount>>
    \/ \E i \in Known : UpdatesItem(w, i)

LEMMA UpdateTyped ==
  ASSUME Settled, NEW w \in Worker, Updates(w), run[w].inv \in Known
  PROVE  /\ meta' = Updated(run[w].inv, meta'[run[w].inv])
         /\ meta'[run[w].inv] \in Meta
         /\ Keeps(meta[run[w].inv], meta'[run[w].inv], run[w])
  <1> DEFINE i == run[w].inv
  <1>1. /\ i \in Investigation /\ meta \in [Investigation -> Meta] /\ meta[i] \in Meta /\ IInv
    BY KnownFacts DEF Settled, IInv, TypeOK
  <1>2. CASE UNCHANGED meta
    <2>1. meta' = Updated(i, meta'[i])
      BY <1>1, <1>2 DEF Updated
    <2> QED BY <1>1, <1>2, <2>1 DEF Keeps
  <1>3. ASSUME NEW n \in Meta, meta' = Updated(i, n), Keeps(meta[i], n, run[w])
        PROVE  /\ meta' = Updated(i, meta'[i]) /\ meta'[i] \in Meta
               /\ Keeps(meta[i], meta'[i], run[w])
    BY <1>1, <1>3 DEF Updated
  <1> QED BY <1>1, <1>2, <1>3, UpdateKeeps

LEMMA SoundUpdate ==
  ASSUME Settled, NEW w \in Worker, Updates(w), run[w].inv \in Known,
         meta'[run[w].inv].state = "CREATING" => meta'[run[w].inv].lease,
         \/ meta'[run[w].inv].linked = NoInv /\ meta[run[w].inv].linked = NoInv
         \/ /\ meta'[run[w].inv].linked = meta[run[w].inv].linked
               \/ meta[run[w].inv].linked = NoInv
            /\ meta'[run[w].inv].state \in Terminal
            /\ Final(meta'[run[w].inv], "LINKED", tasks),
         \/ meta'[run[w].inv].state \notin Terminal
         \/ ~StaleReads => ~meta'[run[w].inv].lease
         \/ Final(meta'[run[w].inv], "FAILED", tasks),
         Counts(meta[run[w].inv], meta'[run[w].inv])
  PROVE  Soundly(w)
  <1>1. meta[run[w].inv].state # "ABSENT"
    BY KnownFacts
  <1>2. Sound(meta[run[w].inv], meta'[run[w].inv], tasks)
    BY <1>1, UpdateTyped DEF Keeps, Sound
  <1> QED BY <1>2, UpdateTyped DEF Soundly, UpdatesItem

\* The writes of the start and of the create.
LEMMA StartsSurely ==
  ASSUME Settled, NEW w \in Worker,
         NotCovered(w) \/ AcquireLease(w) \/ Defer(w) \/ Ambiguous(w) \/ Expire(w) \/ Wait(w)
  PROVE  Surely(w) /\ Soundly(w)
  <1> DEFINE r == run[w]
             m == meta[r.inv]
             n == meta'[r.inv]
  <1>0. /\ r \in Run /\ r.inv \in Known /\ r.inv \in Investigation /\ Sure(r, m, tasks)
        /\ Updates(w) /\ meta \in [Investigation -> Meta] /\ m \in Meta /\ UNCHANGED tasks
    <2>1. r \in Run /\ Sited(r, Known) /\ Known \in SUBSET Investigation /\ Sure(r, m, tasks)
      BY KnownFacts
    <2>2. Updates(w)
      BY DEF Updates, Writes, NotCovered, AcquireLease, Defer, Ambiguous, Expire, Wait,
         ClaimSource, UpdatePointer
    <2>3. r.inv \in Known
      BY <2>1 DEF NotCovered, AcquireLease, Defer, Ambiguous, Expire, Wait, Sited,
         Handling, PC
    <2> QED BY <2>1, <2>2, <2>3, WritesProvider DEF Updates, Settled, IInv, TypeOK
  <1>l. m.linked = NoInv
    BY <1>0 DEF NotCovered, AcquireLease, Defer, Ambiguous, Expire, Wait, Sure, Leads,
       Engaged, Handling, PC
  <1>1. CASE NotCovered(w) \/ Defer(w) \/ Expire(w) \/ Wait(w)
    <2> DEFINE Kind == /\ n.linked = NoInv /\ n.lease = m.lease
                       /\ n.state \in Pending \cup {"EXPIRING", "FETCHING_RESULTS"}
    <2>1. Kind
      <3>1. CASE NotCovered(w)
        BY <1>0, <1>l, <3>1 DEF NotCovered, Updated, Meta, Pending
      <3>2. CASE Defer(w)
        <4>1. PICK st \in Pending : meta' = Updated(r.inv, [m EXCEPT !.due = TRUE, !.state = st])
          BY <3>2 DEF Defer, Pending
        <4> QED BY <1>0, <1>l, <4>1 DEF Updated, Meta
      <3>3. CASE Expire(w)
        BY <1>0, <1>l, <3>3 DEF Expire, Updated, Meta
      <3>4. CASE Wait(w)
        BY <1>0, <1>l, <3>4 DEF Wait, Updated, Meta
      <3> QED BY <1>1, <3>1, <3>2, <3>3, <3>4
    <2>2. UNCHANGED <<active, automaticCount>> /\ Go(w, Idle)
      BY <1>1 DEF NotCovered, Defer, Expire, Wait
    <2>3. Counts(m, n)
      BY <2>1, <2>2 DEF Counts, Charges
    <2>4. n.state # "CREATING" /\ n.state \notin Terminal
      BY <2>1 DEF Pending, Terminal
    <2> QED BY <1>0, <1>l, <2>1, <2>2, <2>3, <2>4, SoundUpdate, SurelyIdle
  <1>2. CASE Ambiguous(w)
    <2>1. m.lease
      BY <1>0, <1>2 DEF Ambiguous, Sure, Knows, Spending
    <2>2. n.linked = NoInv /\ n.lease = m.lease /\ n.state = "CREATING"
      BY <1>0, <1>2, <1>l DEF Ambiguous, Updated, Meta
    <2>3. UNCHANGED <<active, automaticCount>> /\ Go(w, Idle)
      BY <1>2 DEF Ambiguous
    <2>4. Counts(m, n)
      BY <2>2, <2>3 DEF Counts, Charges
    <2> QED BY <1>0, <1>l, <2>1, <2>2, <2>3, <2>4, SoundUpdate, SurelyIdle DEF Terminal
  <1>3. CASE AcquireLease(w)
    <2>1. r.pc = "start" /\ r.snap = m /\ m.state \in DueStates
      BY <1>0, <1>3 DEF AcquireLease, Sure, Knows, Informed
    <2>2. /\ n.linked = NoInv /\ n.lease /\ n.state = "CREATING"
          /\ n.charged = (m.charged \/ ConsumesBudget(r))
      BY <1>0, <1>3, <1>l DEF AcquireLease, Updated, Meta
    <2>3. Charges(m, n)
      <3>1. CASE ConsumesBudget(r)
        BY <1>3, <2>1, <2>2, <3>1 DEF AcquireLease, Charges, ConsumesBudget
      <3>2. CASE ~ConsumesBudget(r)
        BY <1>3, <3>2, LeasedFinite DEF AcquireLease, Charges, Settled
      <3> QED BY <3>1, <3>2
    <2>4. Takes(m, n)
      BY <1>3, <2>1, <2>2 DEF AcquireLease, Takes, LeaseFree, DueStates
    <2>5. Soundly(w)
      BY <1>0, <1>l, <2>2, <2>3, <2>4, SoundUpdate DEF Counts, Terminal
    <2> DEFINE q == [r EXCEPT !.pc = "reread"]
    <2>6. q \in Run /\ q.pc = "reread" /\ q.inv = r.inv /\ Go(w, q)
      BY <1>0, <1>3 DEF AcquireLease, Enter, Run, PC
    <2> HIDE DEF q
    <2>7. Sure(q, n, tasks')
      BY <2>2, <2>6 DEF Sure, Claims, Knows, Leads, Gives, Informed, Aims, Unleased
    <2> QED BY <2>5, <2>6, <2>7 DEF Surely
  <1> QED BY <1>1, <1>2, <1>3

\* The writes of a task.
LEMMA TasksSurely ==
  ASSUME Settled, NEW w \in Worker, PersistTask(w) \/ AdoptPrimary(w) \/ Recover(w)
  PROVE  Surely(w) /\ Soundly(w)
  <1> DEFINE r == run[w]
             m == meta[r.inv]
             n == meta'[r.inv]
  <1>0. /\ r \in Run /\ Sited(r, Known) /\ Known \in SUBSET Investigation
        /\ Sure(r, m, tasks) /\ Updates(w) /\ UNCHANGED tasks
        /\ meta \in [Investigation -> Meta]
    <2>1. /\ r \in Run /\ Sited(r, Known) /\ Known \in SUBSET Investigation
          /\ Sure(r, m, tasks) /\ meta \in [Investigation -> Meta]
      BY KnownFacts DEF Settled, IInv, TypeOK
    <2>2. Updates(w)
      BY DEF Updates, Writes, PersistTask, AdoptPrimary, Recover, ClaimSource, UpdatePointer
    <2> QED BY <2>1, <2>2, WritesProvider DEF Updates
  <1>1. CASE PersistTask(w)
    <2>1. /\ r.inv \in Known /\ r.task \in Task /\ m \in Meta /\ r.inv \in Investigation
      BY <1>0, <1>1 DEF PersistTask, Sited, Handling, PC, AtTask
    <2>2. /\ m.linked = NoInv
          /\ r.status \in TerminalStatus => tasks[r.task] = r.status
      BY <1>0, <1>1 DEF PersistTask, Sure, Knows, Leads, Engaged, Handling, PC
    <2>3. /\ n.linked = NoInv /\ n.lease = m.lease /\ n.task = r.task
          /\ n.state = WorkflowState(r.status) /\ n \in Meta
      BY <1>0, <1>1, <2>1, <2>2, UpdateTyped DEF PersistTask, Updated, Meta
    <2>4. UNCHANGED <<active, automaticCount>>
      BY <1>1 DEF PersistTask
    <2>5. /\ n.state # "CREATING"
          /\ n.state \in Terminal => r.status = "FAILED"
          /\ r.status = "COMPLETED" => n.state \in DueStates
      BY <2>3 DEF WorkflowState, Terminal, DueStates
    <2>6. n.state \in Terminal => Final(n, "FAILED", tasks)
      BY <2>1, <2>2, <2>3, <2>5 DEF Final, TerminalStatus
    <2>7. Counts(m, n)
      BY <2>3, <2>4 DEF Counts, Charges
    <2>8. Soundly(w)
      BY <1>0, <2>1, <2>2, <2>3, <2>5, <2>6, <2>7, SoundUpdate
    <2>9. CASE r.status \in TerminalStatus
      <3>1. Go(w, Finish(r, n))
        BY <1>1, <2>9 DEF PersistTask
      <3> HIDE DEF n
      <3>2. Finish(r, n) \in Run
        BY <1>0, <2>1, <2>3, FinishType
      <3>3. Finish(r, n).inv = r.inv
        BY <1>0, SameInv
      <3>4. Sure(Finish(r, n), n, tasks)
        BY <1>0, <2>1, <2>3, <2>5, SureFinish
      <3> QED BY <1>0, <2>8, <3>1, <3>2, <3>3, <3>4 DEF Surely, n
    <2>10. CASE r.status \notin TerminalStatus
      BY <1>1, <2>8, <2>10, SurelyIdle DEF PersistTask
    <2> QED BY <2>9, <2>10
  <1>2. CASE AdoptPrimary(w)
    <2>1. /\ r.inv \in Known /\ r.task \in Task /\ m \in Meta /\ r.inv \in Investigation
      BY <1>0, <1>2 DEF AdoptPrimary, Sited, Handling, PC, AtTask
    <2>2. r.snap = m /\ m.state \in DueStates /\ m.linked = NoInv
      BY <1>0, <1>2 DEF AdoptPrimary, Sure, Knows, Leads, Informed, Engaged, Handling, PC
    <2>3. /\ n.linked = NoInv /\ n.lease = m.lease /\ n.state = m.state /\ n \in Meta
          /\ n = [m EXCEPT !.task = r.task]
      BY <1>0, <1>2, <2>1, <2>2, UpdateTyped DEF AdoptPrimary, Updated, Meta
    <2>4. UNCHANGED <<active, automaticCount>>
      BY <1>2 DEF AdoptPrimary
    <2>5. /\ n.state = "CREATING" => n.lease
          /\ n.state \notin Terminal
      BY <2>1, <2>2, <2>3, KnownFacts DEF DueStates, Pending, Terminal
    <2>6. Counts(m, n)
      BY <2>3, <2>4 DEF Counts, Charges
    <2>7. Soundly(w)
      BY <1>0, <2>1, <2>2, <2>3, <2>5, <2>6, SoundUpdate
    <2>8. PICK aged \in BOOLEAN : Go(w, Proceed(r, [n EXCEPT !.state = r.snap.state], aged))
      BY <1>2 DEF AdoptPrimary
    <2>9. [n EXCEPT !.state = r.snap.state] = n
      BY <2>2, <2>3 DEF Meta
    <2> HIDE DEF n
    <2>10. Proceed(r, n, aged) \in Run
      BY <1>0, <2>1, <2>3, ProceedType
    <2>11. Proceed(r, n, aged).inv = r.inv
      BY <1>0, SameInv
    <2>12. Sure(Proceed(r, n, aged), n, tasks)
      BY <1>0, <2>1, <2>2, <2>3, SureProceed
    <2> QED BY <1>0, <2>7, <2>8, <2>9, <2>10, <2>11, <2>12 DEF Surely, n
  <1>3. CASE Recover(w)
    <2>1. Go(w, Idle) /\ UNCHANGED <<active, automaticCount>>
      BY <1>3 DEF Recover
    <2>2. CASE ~r.sweep
      BY <1>3, <2>1, <2>2, SurelyIdle DEF Recover, Soundly
    <2>3. CASE r.sweep
      <3>1. r.inv \in Known /\ m \in Meta /\ r.inv \in Investigation
        BY <1>0, <2>3 DEF Sited
      <3>2. /\ n.linked = m.linked /\ n.lease = m.lease /\ n.state = m.state
            /\ n.task = m.task
        BY <1>0, <1>3, <2>3, <3>1 DEF Recover, Updated, Meta
      <3>3. Counts(m, n)
        BY <2>1, <3>2 DEF Counts, Charges
      <3>4. /\ n.state = "CREATING" => n.lease
            /\ n.linked # NoInv => n.state \in Terminal /\ Final(n, "LINKED", tasks)
            /\ ~StaleReads /\ n.lease /\ n.state \in Terminal => Final(n, "FAILED", tasks)
        BY <3>1, <3>2, KnownFacts DEF Final
      <3> QED BY <1>0, <2>1, <3>1, <3>2, <3>3, <3>4, SoundUpdate, SurelyIdle
    <2> QED BY <2>2, <2>3
  <1> QED BY <1>1, <1>2, <1>3

\* The releases and the terminal writes.
LEMMA ClosesSurely ==
  ASSUME Settled, NEW w \in Worker, Release(w) \/ Overwrite(w) \/ Settle(w)
  PROVE  Surely(w) /\ Soundly(w)
  <1> DEFINE r == run[w]
             m == meta[r.inv]
             n == meta'[r.inv]
  <1>0. /\ r \in Run /\ r.inv \in Known /\ r.inv \in Investigation /\ m \in Meta
        /\ Sure(r, m, tasks) /\ Updates(w) /\ UNCHANGED tasks /\ r.goal \in Goal
        /\ meta \in [Investigation -> Meta]
    <2>1. r \in Run /\ Sited(r, Known) /\ Known \in SUBSET Investigation /\ Sure(r, m, tasks)
      BY KnownFacts
    <2>2. Updates(w)
      BY DEF Updates, Writes, Release, Overwrite, Settle, ClaimSource, UpdatePointer
    <2>3. r.inv \in Known
      BY <2>1 DEF Release, Overwrite, Settle, Sited, Handling, PC
    <2> QED BY <2>1, <2>2, <2>3, WritesProvider DEF Updates, Settled, IInv, TypeOK, Run
  <1>1. /\ m.linked = NoInv
        /\ r.pc \in {"release", "overwrite", "settle"}
    BY <1>0 DEF Release, Overwrite, Settle, Sure, Leads, Engaged, Handling, PC
  <1>2. /\ n.state = GoalState[r.goal] /\ n.task = m.task /\ n \in Meta
        /\ n.linked = (IF r.goal = "linked" THEN r.target ELSE m.linked)
        /\ Settle(w) => n.lease = m.lease
        /\ ~Settle(w) => ~n.lease
    <2> DEFINE k == Written(m, r)
    <2>1. k \in Meta
      BY <1>0, WrittenType
    <2>2. /\ k.state = GoalState[r.goal] /\ k.task = m.task /\ k.lease = m.lease
          /\ k.linked = (IF r.goal = "linked" THEN r.target ELSE m.linked)
      BY <1>0 DEF Written, Meta
    <2>3. CASE Settle(w)
      <3>1. n = k
        BY <1>0, <2>3 DEF Settle, Updated
      <3> QED BY <2>1, <2>2, <2>3, <3>1
    <2>4. CASE ~Settle(w)
      <3>1. n = [k EXCEPT !.lease = FALSE]
        BY <1>0, <2>4 DEF Release, Overwrite, Updated
      <3> HIDE DEF k, n
      <3>2. /\ n.state = k.state /\ n.task = k.task /\ ~n.lease /\ n.linked = k.linked
            /\ n \in Meta
        BY <2>1, <3>1 DEF Meta
      <3> QED BY <2>2, <2>4, <3>2 DEF k, n
    <2> QED BY <2>3, <2>4
  <1> HIDE DEF n
  <1>3. /\ n.state # "CREATING"
        /\ r.goal = "linked" => n.state \in Terminal
        /\ r.goal \notin {"rate_limited", "fetching"} => n.state \in Terminal
    BY <1>0, <1>2, GoalSet DEF GoalState, Terminal
  <1>4. Aims(r) => IF r.goal = "linked" THEN Final(m, "LINKED", tasks) ELSE r.target = r.inv
    BY <1>0, <1>1 DEF Sure, Leads
  <1>5. r.goal = "linked" => AfterRelease(r.goal) = "point"
    BY DEF AfterRelease
  <1>6. r.goal = "linked" => Final(n, "LINKED", tasks)
    BY <1>1, <1>2, <1>4, <1>5 DEF Aims, Final
  <1>7. Counts(m, n) /\ (~StaleReads => ~n.lease)
    <2>1. CASE Release(w)
      <3>1. /\ m.lease /\ ~n.lease /\ active' = active - 1 /\ UNCHANGED automaticCount
        BY <1>2, <2>1 DEF Release, CanRelease, Freed, Settle
      <3>2. ~StaleReads => m.state \in DueStates \/ n.state \in Terminal
        BY <1>0, <1>3, <2>1 DEF Release, Sure, Gives
      <3> QED BY <3>1, <3>2 DEF Counts, Charges, Returns
    <2>2. CASE Overwrite(w)
      <3>1. ~m.lease /\ ~n.lease /\ UNCHANGED <<active, automaticCount>>
        BY <1>0, <1>2, <2>2 DEF Overwrite, Settle, Sure, Knows
      <3>2. n.lease = m.lease
        BY <1>0, <1>2, <3>1 DEF Meta
      <3> QED BY <3>1, <3>2 DEF Counts, Charges
    <2>3. CASE Settle(w)
      <3>1. n.lease = m.lease /\ UNCHANGED <<active, automaticCount>>
        BY <1>2, <2>3 DEF Settle
      <3>2. ~StaleReads => ~m.lease
        BY <1>0, <2>3 DEF Settle, Sure, Gives, Unleased
      <3> QED BY <3>1, <3>2 DEF Counts, Charges
    <2> QED BY <2>1, <2>2, <2>3
  <1>8. Soundly(w)
    <2>1. CASE r.goal = "linked"
      BY <1>0, <1>1, <1>3, <1>6, <1>7, <2>1, SoundUpdate DEF n
    <2>2. CASE r.goal # "linked"
      <3>1. n.linked = NoInv
        BY <1>1, <1>2, <2>2
      <3> QED BY <1>0, <1>1, <1>3, <1>7, <3>1, SoundUpdate DEF n
    <2> QED BY <2>1, <2>2
  <1>9. Surely(w)
    <2> DEFINE pc == IF Settle(w) THEN "point" ELSE AfterRelease(r.goal)
               q == [r EXCEPT !.pc = pc]
    <2>1. pc \in {"idle", "refetch", "point"}
      BY <1>0, AfterReleaseType
    <2>2. Go(w, q)
      BY <1>1 DEF Release, Overwrite, Settle, Enter
    <2>3. pc = "refetch" => ~Settle(w) /\ r.goal # "linked"
      BY <1>5
    <2>4. pc = "point" => Aims(r)
      BY <1>1 DEF Release, Overwrite, Settle, Aims
    <2> HIDE DEF pc
    <2>5. /\ q \in Run /\ q.pc = pc /\ q.inv = r.inv /\ q.goal = r.goal
          /\ q.target = r.target
      BY <1>0, <2>1 DEF Run, PC
    <2> HIDE DEF q
    <2>6. pc = "point" => IF q.goal = "linked" THEN n.linked = q.target ELSE q.target = q.inv
      BY <1>2, <1>4, <2>4, <2>5
    <2>7. pc = "refetch" => n.linked = NoInv /\ ~n.lease
      BY <1>1, <1>2, <2>3
    <2>8. Claims(q) /\ Knows(q, n, tasks)
      BY <2>1, <2>5 DEF Claims, Knows, Informed, Spending
    <2>9. Leads(q, n, tasks)
      BY <2>1, <2>5, <2>6, <2>7 DEF Leads, Engaged, Handling, Aims
    <2>10. Gives(q, n)
      BY <2>1, <2>5, <2>7 DEF Gives, Unleased
    <2> QED BY <1>0, <2>2, <2>5, <2>8, <2>9, <2>10 DEF Surely, Sure, n
  <1> QED BY <1>8, <1>9

\* A claim puts an item that is open, holds nothing and is linked to nothing.
ClaimsItem(w) ==
    \E i \in Investigation :
        LET m == run[w].snap IN
        /\ meta[i] = NoMeta /\ meta' = Put(i, m) /\ m \in Meta
        /\ pointer' = [pointer EXCEPT ![m.source] = i] /\ Unclaimed(m.source)
        /\ m.state \notin {"ABSENT", "CREATING"} /\ m.source \in SourceKey
        /\ ~m.lease /\ ~m.charged /\ m.linked = NoInv

LEMMA ClaimsSurely ==
  ASSUME Settled, NEW w \in Worker, ClaimSource(w)
  PROVE  Surely(w) /\ (UNCHANGED <<meta, pointer>> \/ ClaimsItem(w))
  <1> DEFINE r == run[w]
             m == r.snap
  <1>0. /\ r \in Run /\ Sited(r, Known) /\ Known \in SUBSET Investigation
        /\ Sure(r, meta[r.inv], tasks) /\ m \in Meta /\ r.pc = "claim" /\ UNCHANGED tasks
        /\ meta \in [Investigation -> Meta]
    BY KnownFacts, RunType DEF ClaimSource, provider, Run, Settled, IInv, TypeOK
  <1>1. /\ Fresh(m) /\ m.linked = NoInv /\ m.state # "CREATING"
        /\ m.task = NoTask => m.state \in DueStates
    BY <1>0 DEF Sited, Sure, Claims
  <1>2. CASE ~Unclaimed(m.source)
    BY <1>2, SurelyIdle DEF ClaimSource
  <1>3. CASE Unclaimed(m.source)
    <2>1. PICK i \in Investigation :
            /\ meta[i] = NoMeta /\ meta' = Put(i, m)
            /\ pointer' = [pointer EXCEPT ![m.source] = i]
            /\ Go(w, CASE m.task = NoTask -> [[r EXCEPT !.inv = i] EXCEPT !.pc = "start"]
                       [] m.task # NoTask /\ r.status \in TerminalStatus ->
                            Finish([r EXCEPT !.inv = i], m)
                       [] OTHER -> Idle)
      BY <1>3 DEF ClaimSource
    <2>2. ClaimsItem(w)
      BY <1>0, <1>1, <1>3, <2>1 DEF ClaimsItem, Fresh
    <2>3. meta'[i] = m
      BY <1>0, <2>1 DEF Put
    <2> DEFINE claimed == [r EXCEPT !.inv = i]
    <2>4. claimed \in Run /\ claimed.inv = i /\ claimed.status = r.status /\ claimed.snap = m
      BY <1>0 DEF Run
    <2>5. CASE m.task = NoTask
      <3> DEFINE q == [claimed EXCEPT !.pc = "start"]
      <3>1. Go(w, q)
        BY <2>1, <2>5
      <3> HIDE DEF claimed
      <3>2. q \in Run /\ q.pc = "start" /\ q.inv = i /\ q.snap = m
        BY <2>4 DEF Run, PC
      <3> HIDE DEF q
      <3>3. Sure(q, m, tasks)
        BY <1>1, <2>5, <3>2 DEF Sure, Claims, Knows, Leads, Gives, Informed, Spending,
           Aims, Unleased
      <3> QED BY <1>0, <2>2, <2>3, <3>1, <3>2, <3>3 DEF Surely
    <2>6. CASE m.task # NoTask /\ r.status \in TerminalStatus
      <3>1. Go(w, Finish(claimed, m))
        BY <2>1, <2>6
      <3> HIDE DEF claimed
      <3>2. Finish(claimed, m) \in Run
        BY <1>0, <2>4, FinishType
      <3>3. Finish(claimed, m).inv = i
        BY <2>4, SameInv
      <3>4. Sure(Finish(claimed, m), m, tasks)
        BY <1>0, <1>1, <2>4, SureFinish DEF Fresh
      <3> QED BY <1>0, <2>2, <2>3, <3>1, <3>2, <3>3, <3>4 DEF Surely
    <2>7. CASE m.task # NoTask /\ r.status \notin TerminalStatus
      BY <2>1, <2>2, <2>7, SurelyIdle
    <2> QED BY <2>5, <2>6, <2>7
  <1> QED BY <1>2, <1>3

\* The pointer is led to the investigation itself or to what it is linked to.
PointsItem(w) ==
    \E i \in Known :
        /\ pointer' = [pointer EXCEPT ![meta[i].source] = run[w].target]
        /\ run[w].target \in {i, meta[i].linked} \ {NoInv}

LEMMA PointsSurely ==
  ASSUME Settled, NEW w \in Worker, UpdatePointer(w)
  PROVE  Surely(w) /\ UNCHANGED meta /\ PointsItem(w)
  <1> DEFINE r == run[w]
  <1>0. /\ r \in Run /\ Sited(r, Known) /\ Known \in SUBSET Investigation
        /\ Sure(r, meta[r.inv], tasks) /\ r.pc = "point" /\ UNCHANGED meta
    BY KnownFacts DEF UpdatePointer
  <1>1. r.inv \in Known /\ r.target \in Known /\ r.target # NoInv
    BY <1>0, Absent DEF Sited, Handling, PC, Aims
  <1>2. r.target \in {r.inv, meta[r.inv].linked}
    BY <1>0 DEF Sure, Leads, Aims
  <1>3. PointsItem(w)
    BY <1>1, <1>2 DEF UpdatePointer, PointsItem
  <1> QED BY <1>0, <1>3, SurelyRaised, SurelyIdle DEF UpdatePointer

\* Every step of an invocation.
LEMMA StepSurely ==
  ASSUME Settled, NEW w \in Worker, Sole(w), Step(w)
  PROVE  /\ Surely(w)
         /\ \/ UNCHANGED <<meta, pointer, active, automaticCount>>
            \/ UNCHANGED pointer /\ Soundly(w) /\ UNCHANGED tasks
            \/ UNCHANGED <<active, automaticCount, tasks>> /\ ClaimsItem(w)
            \/ UNCHANGED <<meta, active, automaticCount, tasks>> /\ PointsItem(w)
  <1>1. CASE ReadOnly(w)
    <2>1. UNCHANGED store
      BY <1>1, ReadOnlyStore
    <2>2. UNCHANGED meta
      BY <2>1 DEF store
    <2> QED BY <1>1, <2>1, <2>2, LeaseReadsSurely, TaskReadsSurely DEF ReadOnly, store
  <1>2. CASE ClaimSource(w)
    <2>1. UNCHANGED <<active, automaticCount, tasks>>
      BY <1>2 DEF ClaimSource, provider
    <2> QED BY <1>2, <2>1, ClaimsSurely
  <1>3. CASE UpdatePointer(w)
    <2>1. UNCHANGED <<active, automaticCount, tasks>>
      BY <1>3 DEF UpdatePointer, provider
    <2> QED BY <1>3, <2>1, PointsSurely
  <1>4. CASE Updates(w)
    <2>1. UNCHANGED pointer /\ UNCHANGED tasks
      BY <1>4, UpdateCounters, WritesProvider DEF Updates, Settled
    <2>2. Surely(w) /\ Soundly(w)
      BY <1>4, StartsSurely, TasksSurely, ClosesSurely DEF Updates, Writes
    <2> QED BY <2>1, <2>2
  <1> QED BY <1>1, <1>2, <1>3, <1>4, StepSplit DEF Updates

\* What the provider has ended or linked stays so.
LEMMA EndedStays ==
  ASSUME IInv, [Next]_vars, NEW t \in Task, Ended(tasks[t])
  PROVE  tasks'[t] = tasks[t]
  <1>0. /\ tasks \in [Task -> Status] /\ tasks[t] \notin ActiveStatus /\ tasks[t] # "ABSENT"
    BY ConstantsOK DEF IInv, TypeOK, Ended, TerminalStatus
  <1>1. ASSUME NEW w \in Worker, CreateOk(w) \/ CreateAmbiguous(w)
        PROVE  tasks'[t] = tasks[t]
    BY <1>0, <1>1 DEF CreateOk, CreateAmbiguous, Submitted
  <1>2. ASSUME NEW w \in Worker, CancelTask(w)
        PROVE  tasks'[t] = tasks[t]
    BY <1>0, <1>2 DEF CancelTask
  <1>3. CASE Environment
    BY <1>0, <1>3 DEF Environment, ExternalStart, TaskProgress, LinkTask, NewDay, provider
  <1>4. ASSUME NEW w \in Worker, Step(w)
        PROVE  UNCHANGED tasks \/ CreateOk(w) \/ CreateAmbiguous(w) \/ CancelTask(w)
    BY <1>4 DEF Step, ReadPointed, ClaimSource, NotCovered,
       AcquireLease, LeaseRefused, Diagnose, Defer, Reread, Ambiguous,
       CreateRejected, PersistTask, Release, ReleaseRefused, Recheck,
       Overwrite, Settle, UpdatePointer, Refetch, SummaryFound,
       SummaryMissing, SummaryOverdue, Wait, Reload, GetTask,
       LookupPrimary, ReadPrimary, AdoptPrimary, Expire, FindTask,
       ImportPrimary, Probe, NoteEvent, ProviderError, Recover, provider
  <1>5. ASSUME NEW w \in Worker, Trigger(w)
        PROVE  UNCHANGED tasks
    BY <1>5, TriggerStore DEF provider
  <1> QED BY <1>1, <1>2, <1>3, <1>4, <1>5 DEF Next, Uncut, Crash, vars, provider

LEMMA FinalStays ==
  ASSUME IInv, [Next]_vars, NEW m, NEW st, Ended(st), Final(m, st, tasks)
  PROVE  Final(m, st, tasks')
  BY EndedStays DEF Final

LEMMA SureLasts ==
  ASSUME IInv, [Next]_vars, NEW r, r.pc \in AtTask => r.task \in Task, NEW m,
         Sure(r, m, tasks)
  PROVE  Sure(r, m, tasks')
  <1>1. Claims(r) /\ (~StaleReads => Gives(r, m))
    BY DEF Sure
  <1>2. r.pc \in {"persist", "note"} /\ r.status \in TerminalStatus => tasks'[r.task] = r.status
    <2>1. r.pc \in {"persist", "note"} /\ r.status \in TerminalStatus =>
            r.task \in Task /\ tasks[r.task] = r.status
      BY DEF Sure, Knows, AtTask
    <2> QED BY <2>1, EndedStays DEF Ended
  <1>3. Knows(r, m, tasks')
    BY <1>2 DEF Sure, Knows
  <1>4. Final(m, "LINKED", tasks) => Final(m, "LINKED", tasks')
    BY FinalStays DEF Ended
  <1>5. Leads(r, m, tasks')
    BY <1>4 DEF Sure, Leads
  <1> QED BY <1>1, <1>3, <1>5 DEF Sure

-----------------------------------------------------------------------------
(* Every step preserves the invariant                                      *)

Quiet ==
    /\ UNCHANGED <<meta, pointer, active>>
    /\ automaticCount' \in {automaticCount, 0}

LEMMA NextSurely ==
  ASSUME Settled, NEW w \in Worker, Sole(w), [Next]_vars
  PROVE  /\ Surely(w) \/ UNCHANGED <<meta, run>>
         /\ \/ Quiet
            \/ UNCHANGED pointer /\ \E i \in Known : UpdatesItem(w, i)
            \/ UNCHANGED <<active, automaticCount>> /\ ClaimsItem(w)
            \/ UNCHANGED <<meta, active, automaticCount>> /\ PointsItem(w)
  <1>1. CASE Step(w)
    BY <1>1, StepSurely DEF Soundly, Quiet
  <1>2. CASE Trigger(w)
    BY <1>2, TriggersSurely, TriggerStore DEF Quiet, Settled
  <1>3. CASE Crash(w)
    BY <1>3, SurelyIdle DEF Crash, Quiet, store
  <1>4. CASE Environment
    <2>1. UNCHANGED run
      BY <1>4, EnvironmentType DEF Settled
    <2>2. UNCHANGED meta /\ Quiet
      BY <1>4 DEF Environment, ExternalStart, TaskProgress, LinkTask, NewDay, store, Quiet
    <2> QED BY <2>1, <2>2
  <1>5. CASE UNCHANGED vars
    BY <1>5 DEF vars, store, Quiet
  <1> QED BY <1>1, <1>2, <1>3, <1>4, <1>5 DEF Next, Uncut, Sole

Charged == {i \in Investigation : meta[i].charged}

LEMMA CountersFinite ==
  ASSUME IInv
  PROVE  /\ IsFiniteSet(Leased) /\ IsFiniteSet(Charged)
         /\ Cardinality(Leased) \in Nat /\ Cardinality(Charged) \in Nat
         /\ active \in Nat /\ automaticCount \in Nat
  <1>1. Charged \in SUBSET Investigation
    BY DEF Charged
  <1>2. IsFiniteSet(Charged)
    BY <1>1, ConstantsOK, FS_Subset
  <1> QED BY <1>2, LeasedFinite, FS_CardinalityType

LEMMA CountersKept ==
  ASSUME Settled, IInv', NEW w \in Worker, Sole(w), [Next]_vars
  PROVE  NoLeaseLost' /\ ChargedOnce'
  <1>0. /\ active = Cardinality(Leased) /\ automaticCount <= Cardinality(Charged)
        /\ IsFiniteSet(Leased) /\ IsFiniteSet(Charged)
        /\ Cardinality(Leased) \in Nat /\ Cardinality(Charged) \in Nat
        /\ automaticCount \in Nat /\ IInv /\ meta \in [Investigation -> Meta]
        /\ Known \in SUBSET Investigation
    BY CountersFinite, KnownType DEF Settled, SequentialInv, NoLeaseLost, ChargedOnce,
       Charged, IInv, TypeOK
  <1>1. CASE UNCHANGED meta /\ UNCHANGED active /\ automaticCount' \in {automaticCount, 0}
    <2>1. Leased' = Leased /\ Charged' = Charged
      BY <1>1 DEF Leased, Charged
    <2> QED BY <1>0, <1>1, <2>1 DEF NoLeaseLost, ChargedOnce, Charged
  <1>2. ASSUME NEW i \in Known, UpdatesItem(w, i)
        PROVE  NoLeaseLost' /\ ChargedOnce'
    <2> DEFINE m == meta[i]
               n == meta'[i]
    <2>1. /\ meta' = [meta EXCEPT ![i] = n] /\ Counts(m, n) /\ i \in Investigation
          /\ m \in Meta /\ n \in Meta /\ (m.charged => n.charged)
      BY <1>0, <1>2 DEF UpdatesItem, Updated, Sound
    <2>2. \A j \in Investigation \ {i} : meta'[j] = meta[j]
      BY <1>0, <2>1
    <2>3. NoLeaseLost'
      <3>1. CASE n.lease = m.lease /\ UNCHANGED active
        <4>1. Leased' = Leased
          BY <2>1, <2>2, <3>1 DEF Leased
        <4> QED BY <1>0, <3>1, <4>1 DEF NoLeaseLost
      <3>2. CASE Takes(m, n)
        <4>1. Leased' = Leased \cup {i} /\ i \notin Leased
          BY <2>1, <2>2, <3>2 DEF Leased, Takes
        <4>2. Cardinality(Leased') = Cardinality(Leased) + 1
          BY <1>0, <4>1, FS_AddElement
        <4> QED BY <1>0, <3>2, <4>2 DEF NoLeaseLost, Takes
      <3>3. CASE Returns(m, n)
        <4>1. Leased' = Leased \ {i} /\ i \in Leased
          BY <2>1, <2>2, <3>3 DEF Leased, Returns
        <4>2. Cardinality(Leased') = Cardinality(Leased) - 1
          BY <1>0, <4>1, FS_RemoveElement
        <4> QED BY <1>0, <3>3, <4>2 DEF NoLeaseLost, Returns
      <3> QED BY <2>1, <3>1, <3>2, <3>3 DEF Counts
    <2>4. ChargedOnce'
      <3>1. CASE n.charged = m.charged
        <4>1. Charged' = Charged
          BY <2>1, <2>2, <3>1 DEF Charged
        <4>2. UNCHANGED automaticCount
          BY <2>1, <3>1 DEF Counts, Charges
        <4> QED BY <1>0, <4>1, <4>2 DEF ChargedOnce, Charged
      <3>2. CASE n.charged # m.charged
        <4>0. n.charged /\ ~m.charged
          BY <2>1, <3>2 DEF Meta
        <4>1. Charged' = Charged \cup {i} /\ i \notin Charged
          BY <2>1, <2>2, <4>0 DEF Charged
        <4>2. Cardinality(Charged') = Cardinality(Charged) + 1
          BY <1>0, <4>1, FS_AddElement
        <4>3. automaticCount' = automaticCount \/ automaticCount' = automaticCount + 1
          BY <2>1 DEF Counts, Charges
        <4> QED BY <1>0, <4>2, <4>3 DEF ChargedOnce, Charged
      <3> QED BY <3>1, <3>2
    <2> QED BY <2>3, <2>4
  <1>3. CASE UNCHANGED <<active, automaticCount>> /\ ClaimsItem(w)
    <2>1. Leased' = Leased /\ Charged' = Charged
      BY <1>0, <1>3 DEF ClaimsItem, Put, NoMeta, Leased, Charged
    <2> QED BY <1>0, <1>3, <2>1 DEF NoLeaseLost, ChargedOnce, Charged
  <1> QED BY <1>1, <1>2, <1>3, NextSurely DEF Quiet

\* What holds of an item whatever else happens.
Steady(m, ts) ==
    /\ m.state = "CREATING" => m.lease
    /\ m.linked # NoInv => m.state \in Terminal /\ Final(m, "LINKED", ts)
    /\ ~StaleReads /\ m.lease /\ m.state \in Terminal => Final(m, "FAILED", ts)

LEMMA ItemsKept ==
  ASSUME Settled, NEW w \in Worker, Sole(w), [Next]_vars
  PROVE  CreatingHoldsLease' /\ LinkedIsOver' /\ (~StaleReads => LeasedIsOpen')
  <1>0. /\ IInv /\ meta \in [Investigation -> Meta] /\ Known \in SUBSET Investigation
    BY KnownType DEF Settled, IInv, TypeOK
  <1>1. ASSUME NEW j \in Investigation
        PROVE  Steady(meta[j], tasks)
    BY <1>1 DEF Settled, SequentialInv, CreatingHoldsLease, LinkedIsOver, LeasedIsOpen, Steady
  <1>2. ASSUME NEW m, Steady(m, tasks)
        PROVE  Steady(m, tasks')
    <2>1. Ended("LINKED") /\ Ended("FAILED")
      BY DEF Ended, TerminalStatus
    <2>2. Final(m, "LINKED", tasks) => Final(m, "LINKED", tasks')
      BY <1>0, <2>1, FinalStays
    <2>3. Final(m, "FAILED", tasks) => Final(m, "FAILED", tasks')
      BY <1>0, <2>1, FinalStays
    <2> QED BY <1>2, <2>2, <2>3 DEF Steady
  <1>3. ASSUME NEW j \in Investigation
        PROVE  Steady(meta'[j], tasks)
    <2>1. CASE UNCHANGED meta
      BY <1>1, <2>1
    <2>2. ASSUME NEW i \in Known, UpdatesItem(w, i)
          PROVE  Steady(meta'[j], tasks)
      <3>1. CASE j = i
        BY <2>2, <3>1 DEF UpdatesItem, Sound, Steady
      <3>2. CASE j # i
        <4>1. meta'[j] = meta[j]
          BY <1>0, <2>2, <3>2 DEF UpdatesItem, Updated
        <4> QED BY <1>1, <4>1
      <3> QED BY <3>1, <3>2
    <2>3. CASE ClaimsItem(w)
      <3>1. meta'[j] = meta[j] \/ meta'[j] = run[w].snap
        BY <1>0, <2>3 DEF ClaimsItem, Put
      <3>2. Steady(run[w].snap, tasks)
        BY <2>3 DEF ClaimsItem, Steady
      <3> QED BY <1>1, <3>1, <3>2
    <2> QED BY <2>1, <2>2, <2>3, NextSurely DEF Quiet
  <1>4. \A j \in Investigation : Steady(meta'[j], tasks')
    BY <1>2, <1>3
  <1> QED BY <1>4 DEF Steady, CreatingHoldsLease, LinkedIsOver, LeasedIsOpen

LEMMA PointersKept ==
  ASSUME Settled, NEW w \in Worker, Sole(w), [Next]_vars
  PROVE  PointerFollowsLink'
  <1>0. /\ meta \in [Investigation -> Meta] /\ Known \in SUBSET Investigation
        /\ pointer \in [SourceKey -> Investigation \cup {NoInv}]
        /\ \A j \in Known : /\ meta[j].source \in SourceKey
                            /\ pointer[meta[j].source] # NoInv
                            /\ pointer[meta[j].source] \in {j, meta[j].linked}
        /\ NoInv \notin Investigation
        /\ \A j, k \in Known : meta[j].source = meta[k].source => j = k
    BY KnownType, Absent DEF Settled, SequentialInv, PointerFollowsLink, IInv, TypeOK,
       PointersKnown, Known, OneInvestigationPerSource
  <1>1. SUFFICES ASSUME NEW j \in Investigation, meta'[j].state # "ABSENT"
                 PROVE  pointer'[meta'[j].source] \in {j, meta'[j].linked} \ {NoInv}
    BY DEF PointerFollowsLink, Exists
  <1>2. CASE UNCHANGED <<meta, pointer>>
    <2>1. j \in Known
      BY <1>1, <1>2 DEF Known, Exists
    <2> QED BY <1>0, <1>2, <2>1
  <1>3. ASSUME UNCHANGED pointer, NEW i \in Known, UpdatesItem(w, i)
        PROVE  pointer'[meta'[j].source] \in {j, meta'[j].linked} \ {NoInv}
    <2>1. meta' = [meta EXCEPT ![i] = meta'[i]] /\ Sound(meta[i], meta'[i], tasks)
      BY <1>3 DEF UpdatesItem, Updated
    <2>2. CASE j = i
      BY <1>0, <1>3, <2>1, <2>2 DEF Sound
    <2>3. CASE j # i
      <3>1. meta'[j] = meta[j]
        BY <1>0, <2>1, <2>3
      <3>2. j \in Known
        BY <1>1, <3>1 DEF Known, Exists
      <3> QED BY <1>0, <1>3, <3>1, <3>2
    <2> QED BY <2>2, <2>3
  <1>4. CASE ClaimsItem(w)
    <2>1. PICK i \in Investigation :
            /\ meta' = Put(i, run[w].snap) /\ run[w].snap.source \in SourceKey
            /\ pointer' = [pointer EXCEPT ![run[w].snap.source] = i]
            /\ pointer[run[w].snap.source] = NoInv
      BY <1>4 DEF ClaimsItem, Unclaimed
    <2>2. CASE j = i
      BY <1>0, <2>1, <2>2 DEF Put
    <2>3. CASE j # i
      <3>1. meta'[j] = meta[j]
        BY <1>0, <2>1, <2>3 DEF Put
      <3>2. j \in Known
        BY <1>1, <3>1 DEF Known, Exists
      <3>3. meta[j].source # run[w].snap.source
        BY <1>0, <2>1, <3>2
      <3> QED BY <1>0, <2>1, <3>1, <3>2, <3>3
    <2> QED BY <2>2, <2>3
  <1>5. CASE UNCHANGED meta /\ PointsItem(w)
    <2>1. PICK i \in Known :
            /\ pointer' = [pointer EXCEPT ![meta[i].source] = run[w].target]
            /\ run[w].target \in {i, meta[i].linked} \ {NoInv}
      BY <1>5 DEF PointsItem
    <2>2. j \in Known
      BY <1>1, <1>5 DEF Known, Exists
    <2>3. CASE j = i
      BY <1>0, <1>5, <2>1, <2>2, <2>3
    <2>4. CASE j # i
      BY <1>0, <1>5, <2>1, <2>2, <2>4
    <2> QED BY <2>3, <2>4
  <1> QED BY <1>2, <1>3, <1>4, <1>5, NextSurely DEF Quiet

LEMMA SureNext ==
  ASSUME Settled, NEW w \in Worker, Sole(w), [Next]_vars
  PROVE  \A v \in Worker : Sure(run'[v], meta'[run'[v].inv], tasks')
  <1>0. \A v \in Worker : v = w
    BY DEF Sole
  <1>1. CASE UNCHANGED <<meta, run>>
    <2>1. Sure(run[w], meta[run[w].inv], tasks')
      BY KnownFacts, SureLasts DEF Settled, Sited
    <2> QED BY <1>0, <1>1, <2>1
  <1>2. CASE Surely(w)
    <2>1. PICK q \in Run : Go(w, q) /\ Sure(q, meta'[q.inv], tasks')
      BY <1>2 DEF Surely
    <2>2. run'[w] = Kept(q)
      BY <2>1 DEF Go, Settled, IInv, TypeOK
    <2>3. Kept(q) = Idle \/ (Kept(q).inv = q.inv /\ Sure(Kept(q), meta'[q.inv], tasks'))
      BY <2>1, SureKept
    <2>4. Sure(Idle, meta'[Idle.inv], tasks')
      BY SureIdle
    <2>5. Sure(run'[w], meta'[run'[w].inv], tasks')
      BY <2>2, <2>3, <2>4
    <2> QED BY <1>0, <2>5
  <1> QED BY <1>1, <1>2, NextSurely

LEMMA SequentialNext ==
  ASSUME Settled, IInv', NEW w \in Worker, Sole(w), [Next]_vars
  PROVE  SequentialInv'
  BY CountersKept, ItemsKept, PointersKept, SureNext DEF SequentialInv

LEMMA SequentialInit ==
  ASSUME Init
  PROVE  SequentialInv
  <1>0. IInv /\ \A i \in Investigation : meta[i] = NoMeta
    BY TypedInit DEF Init
  <1>1. Leased = {} /\ Charged = {} /\ Cardinality({}) = 0
    BY <1>0, FS_EmptySet DEF NoMeta, Leased, Charged
  <1>2. NoLeaseLost /\ ChargedOnce
    <2>1. Cardinality(Leased) = 0 /\ Cardinality(Charged) = 0
      BY <1>1
    <2> QED BY <2>1 DEF Init, NoLeaseLost, ChargedOnce, Charged
  <1>3. CreatingHoldsLease /\ PointerFollowsLink /\ LinkedIsOver /\ LeasedIsOpen
    BY <1>0 DEF CreatingHoldsLease, PointerFollowsLink, LinkedIsOver, LeasedIsOpen, Exists,
       NoMeta
  <1>4. \A w \in Worker : Sure(run[w], meta[run[w].inv], tasks)
    BY SureIdle DEF Init
  <1> QED BY <1>2, <1>3, <1>4 DEF SequentialInv

LEMMA SequentialAlways ==
  ASSUME NEW w \in Worker, Sole(w)
  PROVE  Spec => []Settled
  <1>1. Init => SequentialInv
    BY SequentialInit
  <1>2. IInv /\ IInv' /\ OneInvestigationPerSource /\ SequentialInv /\ [Next]_vars =>
          SequentialInv'
    BY SequentialNext DEF Settled
  <1>3. IInv /\ OneInvestigationPerSource /\ SequentialInv => Settled
    BY DEF Settled
  <1> QED BY <1>1, <1>2, <1>3, TypedAlways, SourcesOnce, PTL DEF Spec

\* With one invocation at a time, stopped wherever it may be and whatever stale
\* items it reads, activeCount is the number of leases that META items show: none
\* is counted that no item shows, so capacity can always be given back.
THEOREM LeasesCounted ==
  ASSUME NEW w \in Worker, Sole(w)
  PROVE  Spec => []NoLeaseLost
  <1>1. Settled => NoLeaseLost
    BY DEF Settled, SequentialInv
  <1> QED BY <1>1, SequentialAlways, PTL

\* One at a time, an investigation consumes the daily budget once however often it
\* is deferred, started again and recovered.
THEOREM BudgetConsumedOnce ==
  ASSUME NEW w \in Worker, Sole(w)
  PROVE  Spec => []ChargedOnce
  <1>1. Settled => ChargedOnce
    BY DEF Settled, SequentialInv
  <1> QED BY <1>1, SequentialAlways, PTL

\* One at a time, no investigation is in CREATING without its lease: a sweep that
\* goes on with the provider from there need not ask for one.
THEOREM CreatingIsLeased ==
  ASSUME NEW w \in Worker, Sole(w)
  PROVE  Spec => []CreatingHoldsLease
  <1>1. Settled => CreatingHoldsLease
    BY DEF Settled, SequentialInv
  <1> QED BY <1>1, SequentialAlways, PTL

\* One at a time, the pointer of a source leads to its investigation until that
\* has recorded what it is a duplicate of, and only to that afterwards, although
\* META and pointer are written by two calls between which it may be stopped.
THEOREM PointersFollow ==
  ASSUME NEW w \in Worker, Sole(w)
  PROVE  Spec => []PointerFollowsLink
  <1>1. Settled => PointerFollowsLink
    BY DEF Settled, SequentialInv
  <1> QED BY <1>1, SequentialAlways, PTL

-----------------------------------------------------------------------------
(* The coordinator implements the lifecycle                                *)

LEMMA PhaseOf ==
  ASSUME NEW m \in Meta
  PROVE  /\ m.state = "ABSENT" => Phase(m) = "none"
         /\ m.state \in Terminal => Phase(m) = "closed"
         /\ m.state \in DueStates => Phase(m) = "open"
  BY DEF Phase, Meta, State, DueStates, Terminal, Pending

LEMMA LifecycleStep ==
  ASSUME Settled, IInv', NEW w \in Worker, Sole(w), ~StaleReads, [Next]_vars
  PROVE  [Lifecycle!LifecycleNext]_<<Phases, Leased, active>>
  <1>0. /\ meta \in [Investigation -> Meta] /\ meta' \in [Investigation -> Meta]
        /\ Known \in SUBSET Investigation /\ active \in Nat /\ active = Cardinality(Leased)
    BY KnownType DEF Settled, SequentialInv, NoLeaseLost, IInv, TypeOK
  <1>1. CASE UNCHANGED <<meta, active>>
    BY <1>1 DEF Phases, Leased
  <1>2. ASSUME NEW i \in Known, UpdatesItem(w, i)
        PROVE  \/ UNCHANGED <<Phases, Leased, active>>
               \/ Lifecycle!Take(i) \/ Lifecycle!GiveBack(i)
               \/ Lifecycle!Close(i) \/ Lifecycle!Reopen(i)
    <2> DEFINE m == meta[i]
               n == meta'[i]
    <2>1. /\ meta' = [meta EXCEPT ![i] = n] /\ Counts(m, n) /\ i \in Investigation
          /\ m \in Meta /\ n \in Meta /\ m.state # "ABSENT" /\ n.state # "ABSENT"
      BY <1>0, <1>2 DEF UpdatesItem, Updated, Sound, Known, Exists
    <2>2. \A j \in Investigation \ {i} : meta'[j] = meta[j]
      BY <1>0, <2>1
    <2>3. Phases' = [Phases EXCEPT ![i] = Phase(n)]
      BY <2>1, <2>2 DEF Phases
    <2>4. Phases[i] = Phase(m) /\ Phase(m) \in {"open", "closed"} /\ Phase(n) \in {"open", "closed"}
      BY <2>1, PhaseOf DEF Phases, Meta, State
    <2>5. CASE n.lease = m.lease /\ UNCHANGED active
      <3>1. Leased' = Leased
        BY <2>1, <2>2, <2>5 DEF Leased
      <3>2. CASE Phase(n) = Phase(m)
        <4>1. Phases' = Phases
          BY <2>3, <2>4, <3>2 DEF Phases
        <4> QED BY <2>5, <3>1, <4>1
      <3>3. CASE Phase(n) # Phase(m)
        BY <2>3, <2>4, <2>5, <3>1, <3>3 DEF Lifecycle!Close, Lifecycle!Reopen
      <3> QED BY <3>2, <3>3
    <2>6. CASE Takes(m, n)
      <3>1. Leased' = Leased \cup {i} /\ i \notin Leased
        BY <2>1, <2>2, <2>6 DEF Leased, Takes
      <3>2. Phase(m) = "open" /\ Phase(n) = "open"
        BY <2>1, <2>6, PhaseOf DEF Takes
      <3>3. Phases' = Phases
        BY <2>3, <2>4, <3>2 DEF Phases
      <3> QED BY <2>4, <2>6, <3>1, <3>2, <3>3 DEF Takes, Lifecycle!Take
    <2>7. CASE Returns(m, n)
      <3>1. Leased' = Leased \ {i} /\ i \in Leased
        BY <2>1, <2>2, <2>7 DEF Leased, Returns
      <3>2. Phase(n) = Phase(m) \/ Phase(n) = "closed"
        BY <2>1, <2>4, <2>7, PhaseOf DEF Returns
      <3>3. Phases' \in {Phases, [Phases EXCEPT ![i] = "closed"]}
        BY <2>3, <2>4, <3>2 DEF Phases
      <3> QED BY <2>7, <3>1, <3>3 DEF Returns, Lifecycle!GiveBack
    <2> QED BY <2>1, <2>5, <2>6, <2>7 DEF Counts
  <1>3. CASE UNCHANGED active /\ ClaimsItem(w)
    <2>1. PICK i \in Investigation :
            /\ meta[i] = NoMeta /\ meta' = Put(i, run[w].snap) /\ run[w].snap \in Meta
            /\ run[w].snap.state # "ABSENT" /\ ~run[w].snap.lease
      BY <1>3 DEF ClaimsItem
    <2>2. meta'[i] = run[w].snap /\ \A j \in Investigation \ {i} : meta'[j] = meta[j]
      BY <1>0, <2>1 DEF Put
    <2>3. Leased' = Leased
      BY <2>1, <2>2 DEF Leased, NoMeta
    <2>4. Phases' = [Phases EXCEPT ![i] = Phase(run[w].snap)]
      BY <2>2 DEF Phases
    <2>5. Phases[i] = "none" /\ Phase(run[w].snap) \in {"open", "closed"}
      BY <1>0, <2>1, PhaseOf DEF Phases, Meta, State, NoMeta
    <2>6. Lifecycle!Claim(i)
      BY <1>3, <2>3, <2>4, <2>5 DEF Lifecycle!Claim
    <2> QED BY <2>6 DEF Lifecycle!LifecycleNext
  <1>4. ASSUME NEW i \in Known, UpdatesItem(w, i)
        PROVE  [Lifecycle!LifecycleNext]_<<Phases, Leased, active>>
    <2>1. i \in Investigation
      BY <1>0, <1>4
    <2> QED BY <1>2, <1>4, <2>1 DEF Lifecycle!LifecycleNext
  <1> QED BY <1>1, <1>3, <1>4, NextSurely DEF Quiet

\* One at a time and with consistent reads, every step of the coordinator is one
\* of the lifecycle or leaves it as it is: what is claimed is claimed once,
\* capacity is taken for what is open, at most one unit for each, and goes back
\* as META gives up the lease, be it while the investigation goes on or as it is
\* closed.
THEOREM ImplementsLifecycle ==
  ASSUME NEW w \in Worker, Sole(w), ~StaleReads
  PROVE  Spec => FollowsLifecycle
  <1>1. Init => Lifecycle!LifecycleInit
    <2> SUFFICES ASSUME Init PROVE Lifecycle!LifecycleInit
      OBVIOUS
    <2>1. \A i \in Investigation : meta[i] = NoMeta
      BY DEF Init
    <2>2. Leased = {}
      BY <2>1 DEF NoMeta, Leased
    <2>3. Phase(NoMeta) = "none"
      BY NoMetaType, PhaseOf DEF NoMeta
    <2>4. Phases = [i \in Investigation |-> "none"]
      BY <2>1, <2>3 DEF Phases
    <2> QED BY <2>2, <2>4 DEF Init, Lifecycle!LifecycleInit
  <1>2. Settled /\ IInv' /\ [Next]_vars =>
          [Lifecycle!LifecycleNext]_<<Phases, Leased, active>>
    BY LifecycleStep
  <1> QED BY <1>1, <1>2, SequentialAlways, TypedAlways, PTL
          DEF Spec, FollowsLifecycle, Lifecycle!LifecycleSpec
=============================================================================
