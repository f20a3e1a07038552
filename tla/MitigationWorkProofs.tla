------------------------ MODULE MitigationWorkProofs ------------------------
(***************************************************************************)
(* The state of MitigationWork is well typed, and a mitigation is shown as *)
(* completed only if its summary exists, whatever interleaves.  Where      *)
(* invocations do not overlap, a mitigation that goes on is pursued, the   *)
(* outcome is the one META speaks of, and no older mitigation comes back.  *)
(*                                                                         *)
(* Summaries are never taken back, so it is enough that whoever is about   *)
(* to write COMPLETED has seen one: SeenSummary says so of every           *)
(* invocation, from the read of the journal to the write of META.          *)
(***************************************************************************)
EXTENDS MitigationWork, TLAPS

USE ConstantsOK

\* Where an invocation works on the mitigation its work item names.
AtWork == {"save", "announce", "end", "find", "load", "fetch", "defer", "reload",
           "finish", "drop"}

\* An invocation that is about to write COMPLETED has seen a summary.
SeenSummary(r) ==
    /\ r.pc = "end" => r.goal # "COMPLETED"
    /\ r.pc \in {"reload", "finish"} /\ r.goal = "COMPLETED" =>
         r.work.exec \in summaries
    /\ r.pc = "sync" /\ r.summaryAt # 0 => ownSummary # 0
    /\ r.pc = "persist" => ownSummary # 0

Good(r) ==
    /\ r \in Run
    /\ r.pc \in AtWork => r.work.exec \in Mitigation
    /\ SeenSummary(r)

\* CompletedHasSummary, of any copy of META.
Backed(m) ==
    m.status = "COMPLETED" =>
        \/ m.summary \in summaries
        \/ m.summary = Own /\ ownSummary # 0

Named(k) == k \in Work /\ (k.status # "NONE" => k.exec \in Mitigation)

IInv ==
    /\ TypeOK
    /\ Backed(item)
    /\ \A e \in Mitigation : Named(work[e])
    /\ \A w \in Worker : Good(run[w])

LEMMA Constants ==
  /\ FirstItem \in Item /\ NoWork \in Work /\ Idle \in Run
  /\ 0 \in Time /\ 0 \in Revision /\ 1 \in Time
  BY DEF FirstItem, Item, NoShown, Shown, NoWork, Work, Idle, Run, PC, Time,
         Revision, Status, Execution

\* Every write of META gives an item.
LEMMA WriteTypes ==
  ASSUME NEW m \in Item, NEW snap \in Item, NEW k \in Work, NEW at \in Time,
         NEW rev \in Revision
  PROVE  /\ Announced(m, snap, k) \in Item
         /\ \A status \in Status : Reported(m, snap, k, status) \in Item
         /\ \A goal \in Status : Ended(m, snap, k, goal) \in Item
         /\ Synced(m, snap, rev) \in Item
         /\ Backfilled(m, snap, at) \in Item
  <1>1. k.exec \in Execution \cup {None} /\ k.summary \in Execution \cup {None}
        /\ k.at \in Time /\ k.status \in Status
    BY DEF Work, Execution, Status
  <1>2. ASSUME NEW n \in Item, NEW shown \in Shown
        PROVE  Merged(n, snap, shown) \in Item
    BY <1>2 DEF Merged, Item
  <1>3. ASSUME NEW status \in Status, NEW terminal \in BOOLEAN,
               NEW e \in Execution \cup {None}, NEW s \in Execution \cup {None},
               NEW t \in Time, NEW said \in Status
        PROVE  /\ [m EXCEPT !.status = status, !.terminal = terminal, !.exec = e,
                             !.summary = s, !.at = t] \in Item
               /\ [status |-> said, terminal |-> terminal, at |-> t] \in Shown
    BY <1>3 DEF Item, Shown
  <1>4. Announced(m, snap, k) \in Item
    <2> DEFINE status == IF k.status = "COMPLETED" THEN "FETCHING" ELSE k.status
               n == [m EXCEPT !.status = status, !.terminal = FALSE, !.exec = k.exec,
                              !.summary = k.summary, !.at = k.at]
               shown == [status |-> k.status, terminal |-> FALSE, at |-> k.at]
    <2>1. status \in Status
      BY <1>1 DEF Status
    <2>2. n \in Item /\ shown \in Shown
      <3> HIDE DEF status
      <3> QED BY <1>1, <1>3, <2>1
    <2>3. Announced(m, snap, k) = Merged(n, snap, shown)
      BY DEF Announced
    <2> HIDE DEF n, shown
    <2> QED BY <1>2, <2>2, <2>3
  <1>5. ASSUME NEW status \in Status
        PROVE  Reported(m, snap, k, status) \in Item
    <2> DEFINE terminal == status \in {"FAILED", "CANCELED"}
               n == [m EXCEPT !.status = status, !.terminal = terminal,
                              !.exec = k.exec, !.at = k.at]
               shown == [status |-> status, terminal |-> terminal, at |-> k.at]
    <2>1. terminal \in BOOLEAN
      OBVIOUS
    <2>2. Reported(m, snap, k, status) = Merged(n, snap, shown)
      BY DEF Reported
    <2>3. n \in Item /\ shown \in Shown
      <3> HIDE DEF terminal
      <3> QED BY <1>1, <1>5, <2>1 DEF Item, Shown
    <2> HIDE DEF n, shown
    <2> QED BY <1>2, <2>2, <2>3
  <1>6. ASSUME NEW goal \in Status
        PROVE  Ended(m, snap, k, goal) \in Item
    <2> DEFINE e == IF goal = "COMPLETED" THEN k.exec ELSE m.exec
               s == IF goal = "COMPLETED" THEN k.exec ELSE m.summary
               n == [m EXCEPT !.status = goal, !.terminal = TRUE, !.at = k.at,
                              !.exec = e, !.summary = s]
               shown == [status |-> goal, terminal |-> TRUE, at |-> k.at]
    <2>1. e \in Execution \cup {None} /\ s \in Execution \cup {None}
      BY <1>1 DEF Item
    <2>2. Ended(m, snap, k, goal) = Merged(n, snap, shown)
      BY DEF Ended, Item
    <2>3. n \in Item /\ shown \in Shown
      <3> HIDE DEF e, s
      <3> QED BY <1>1, <1>6, <2>1 DEF Item, Shown
    <2> HIDE DEF n, shown
    <2> QED BY <1>2, <2>2, <2>3
  <1>7. Synced(m, snap, rev) \in Item
    <2>1. snap.shown \in Shown
      BY DEF Item
    <2> HIDE DEF Shown
    <2> QED BY <2>1 DEF Synced, Item
  <1>8. Backfilled(m, snap, at) \in Item
    <2> DEFINE n == [m EXCEPT !.status = "COMPLETED", !.terminal = TRUE,
                              !.exec = Own, !.summary = Own, !.at = at]
               shown == [status |-> "COMPLETED", terminal |-> TRUE, at |-> at]
    <2>1. n \in Item /\ shown \in Shown
      BY <1>3 DEF Execution, Status
    <2>2. Backfilled(m, snap, at) = Merged(n, snap, shown)
      BY DEF Backfilled
    <2> HIDE DEF n, shown
    <2> QED BY <1>2, <2>1, <2>2
  <1> QED BY <1>4, <1>5, <1>6, <1>7, <1>8

-----------------------------------------------------------------------------
(* What a step of an invocation does to its own record *)

Goes(w) == \E r : Good(r) /\ Go(w, r)

LEMMA IdleGood == Good(Idle)
  BY Constants DEF Good, SeenSummary, Idle, AtWork

LEMMA GoGood ==
  ASSUME IInv, NEW w \in Worker, Goes(w), UNCHANGED provider
  PROVE  run' \in [Worker -> Run] /\ (\A v \in Worker : Good(run[v]))'
  <1>1. PICK r : Good(r) /\ Go(w, r)
    BY DEF Goes
  <1> DEFINE q == IF r.pc \in UsesSnap THEN r ELSE [r EXCEPT !.snap = FirstItem]
  <1>2. Good(q)
    BY <1>1, Constants DEF Good, Run, SeenSummary
  <1>3. run' = [run EXCEPT ![w] = q]
    BY <1>1 DEF Go
  <1> HIDE DEF q
  <1>4. run' \in [Worker -> Run] /\ \A v \in Worker : Good(run'[v])
    BY <1>2, <1>3 DEF IInv, TypeOK, Good
  <1> QED BY <1>4 DEF Good, SeenSummary, provider

\* Going on with nothing but another pc, where nothing has to have been seen.
Plain == PC \ {"end", "reload", "finish", "sync", "persist"}

LEMMA EnterGood ==
  ASSUME IInv, NEW w \in Worker, NEW pc \in Plain,
         pc \in AtWork => run[w].pc \in AtWork,
         Enter(w, pc)
  PROVE  Goes(w)
  <1>1. Good([run[w] EXCEPT !.pc = pc])
    BY DEF IInv, Good, Run, SeenSummary, Plain
  <1> QED BY <1>1 DEF Enter, Goes

LEMMA EventStep ==
  ASSUME IInv, NEW w \in Worker,
         \/ \E e \in Event : Deliver(w, e)
         \/ SaveWork(w) \/ Announce(w) \/ Report(w) \/ FindWork(w)
  PROVE  Goes(w)
  <1> DEFINE r == run[w]
  <1>0. Good(r) /\ item \in Item
    BY DEF IInv, TypeOK
  <1>1. ASSUME NEW e \in Event, Deliver(w, e)
        PROVE  Goes(w)
    <2> DEFINE status == Normal(e.status)
               saved == status \in {"IN_PROGRESS", "COMPLETED"}
               k == [exec |-> e.exec, at |-> e.at,
                     status |-> IF saved THEN status ELSE "NONE",
                     summary |-> IF status = "COMPLETED" THEN e.exec ELSE None]
               goal == IF saved THEN "NONE" ELSE status
               q == [Idle EXCEPT !.pc = FirstStep(status), !.work = k,
                                 !.snap = item, !.goal = goal]
    <2>1. Go(w, Idle) \/ Go(w, q)
      BY <1>1 DEF Deliver
    <2>2. k \in Work /\ k.exec \in Mitigation
      BY DEF Event, Work, EventStatus, Normal
    <2>3. /\ goal \in Status /\ goal # "COMPLETED"
          /\ FirstStep(status) \in {"save", "end"}
      BY DEF Event, EventStatus, Normal, Status, FirstStep
    <2>4. Good(q)
      <3> HIDE DEF k, goal, status
      <3> QED BY <1>0, <2>2, <2>3, Constants
              DEF Good, Run, Idle, PC, AtWork, SeenSummary
    <2> HIDE DEF q
    <2> QED BY <2>1, <2>4, IdleGood DEF Goes
  <1>2. CASE SaveWork(w) \/ Announce(w)
    BY <1>2, EnterGood DEF SaveWork, Announce, Plain, PC, AtWork
  <1>3. CASE Report(w)
    <2>1. Good([r EXCEPT !.pc = "find", !.goal = "NONE"])
      BY <1>0, <1>3 DEF Report, Good, Run, PC, Status, AtWork, SeenSummary
    <2> QED BY <1>3, <2>1 DEF Report, Goes
  <1>4. CASE FindWork(w)
    <2> DEFINE k == work[r.work.exec]
               q == [r EXCEPT !.pc = "drop", !.work = k]
    <2>1. ASSUME k.status # "NONE"
          PROVE  Good(q)
      <3>1. k \in Work /\ k.exec \in Mitigation
        BY <1>0, <1>4, <2>1 DEF FindWork, IInv, Named, Good, AtWork
      <3> HIDE DEF k
      <3> QED BY <1>0, <3>1 DEF Good, Run, PC, AtWork, SeenSummary
    <2>2. Go(w, Idle) \/ (k.status # "NONE" /\ Go(w, q))
      BY <1>4 DEF FindWork
    <2> HIDE DEF q
    <2> QED BY <2>1, <2>2, IdleGood DEF Goes
  <1> QED BY <1>1, <1>2, <1>3, <1>4

LEMMA WorkStep ==
  ASSUME IInv, NEW w \in Worker,
         \/ \E e \in Mitigation : Sweep(w, e)
         \/ Load(w) \/ Fetched(w) \/ FetchFailed(w) \/ Defer(w)
         \/ Reload(w) \/ Finish(w) \/ Drop(w)
  PROVE  Goes(w)
  <1> DEFINE r == run[w]
  <1>0. Good(r) /\ item \in Item
    BY DEF IInv, TypeOK
  <1>1. ASSUME NEW e \in Mitigation, Sweep(w, e)
        PROVE  Goes(w)
    <2> DEFINE k == work[e]
               q == [Idle EXCEPT !.pc = "load", !.work = k]
    <2>1. k \in Work /\ k.exec \in Mitigation
      BY <1>1 DEF Sweep, IInv, Named
    <2>2. Good(q)
      <3> HIDE DEF k
      <3> QED BY <2>1, Constants DEF Good, Run, Idle, PC, AtWork, SeenSummary
    <2>3. Go(w, q)
      BY <1>1 DEF Sweep
    <2> HIDE DEF q
    <2> QED BY <2>2, <2>3 DEF Goes
  <1>2. CASE Load(w)
    <2>1. CASE Enter(w, "drop") \/ Enter(w, "fetch")
      BY <1>2, <2>1, EnterGood DEF Load, Plain, PC, AtWork
    <2>2. CASE Go(w, [r EXCEPT !.pc = "reload", !.goal = "UNAVAILABLE"])
      <3>1. Good([r EXCEPT !.pc = "reload", !.goal = "UNAVAILABLE"])
        BY <1>0, <1>2 DEF Load, Good, Run, PC, Status, AtWork, SeenSummary
      <3> QED BY <2>2, <3>1 DEF Goes
    <2> QED BY <1>2, <2>1, <2>2 DEF Load
  <1>3. CASE Fetched(w)
    <2>1. Good([r EXCEPT !.pc = "reload", !.goal = "COMPLETED"])
      BY <1>0, <1>3
         DEF Fetched, Found, Good, Run, PC, Status, AtWork, SeenSummary
    <2> QED BY <1>3, <2>1 DEF Fetched, Goes
  <1>4. CASE FetchFailed(w) \/ Finish(w)
    BY <1>4, EnterGood DEF FetchFailed, Finish, Plain, PC, AtWork
  <1>5. CASE Defer(w) \/ Drop(w)
    BY <1>5, IdleGood DEF Defer, Drop, Goes
  <1>6. CASE Reload(w)
    <2>1. Good([r EXCEPT !.pc = "drop"]) /\ Good([r EXCEPT !.pc = "finish", !.snap = item])
      BY <1>0, <1>6 DEF Reload, Good, Run, PC, AtWork, SeenSummary
    <2> QED BY <1>6, <2>1 DEF Reload, Goes
  <1> QED BY <1>1, <1>2, <1>3, <1>4, <1>5, <1>6

LEMMA SyncStep ==
  ASSUME IInv, NEW w \in Worker,
         StartSync(w) \/ ListJournal(w) \/ Sync(w) \/ Persist(w) \/ Crash(w)
  PROVE  Goes(w)
  <1> DEFINE r == run[w]
  <1>0. Good(r) /\ item \in Item
    BY DEF IInv, TypeOK
  <1>1. CASE StartSync(w)
    <2>1. Good([Idle EXCEPT !.pc = "list", !.snap = item])
      BY <1>0, Constants DEF Good, Run, Idle, PC, AtWork, SeenSummary
    <2> QED BY <1>1, <2>1 DEF StartSync, Goes
  <1>2. ASSUME NEW q \in Run, NEW m \in Item, q.summaryAt # 0 => ownSummary # 0
        PROVE  Good(AfterSync(q, m))
    <2>1. CASE ~Newer(m, q.summaryAt)
      BY <2>1, IdleGood DEF AfterSync
    <2>2. CASE Newer(m, q.summaryAt)
      <3>1. q.summaryAt # 0
        BY <2>2 DEF Newer
      <3>2. Good([q EXCEPT !.pc = "persist", !.snap = m, !.revision = 0])
        BY <1>2, <3>1, Constants DEF Good, Run, PC, AtWork, SeenSummary
      <3> QED BY <2>2, <3>2 DEF AfterSync
    <2> QED BY <2>1, <2>2
  <1>3. CASE ListJournal(w)
    <2> DEFINE q == [r EXCEPT !.revision = revision, !.summaryAt = ownSummary]
    <2>1. q \in Run /\ r.snap \in Item /\ (q.summaryAt # 0 => ownSummary # 0)
      BY <1>0 DEF Good, Run, IInv, TypeOK
    <2>2. Good([q EXCEPT !.pc = "sync"])
      <3> HIDE DEF q
      <3> QED BY <2>1 DEF Good, Run, PC, AtWork, SeenSummary
    <2>3. Go(w, [q EXCEPT !.pc = "sync"]) \/ Go(w, AfterSync(q, r.snap))
      BY <1>3 DEF ListJournal
    <2> HIDE DEF q
    <2>4. Good(AfterSync(q, r.snap))
      BY <1>2, <2>1
    <2> QED BY <2>2, <2>3, <2>4 DEF Goes
  <1>4. CASE Sync(w)
    <2>1. /\ r \in Run /\ r.snap \in Item /\ r.revision \in Revision
          /\ r.summaryAt # 0 => ownSummary # 0
      BY <1>0, <1>4 DEF Sync, Good, Run, SeenSummary
    <2>2. Synced(item, r.snap, r.revision) \in Item
      BY <1>0, <2>1, WriteTypes, Constants
    <2>3. Good(AfterSync(r, item'))
      BY <1>2, <1>4, <2>1, <2>2 DEF Sync
    <2> QED BY <1>4, <2>3 DEF Sync, Goes
  <1>5. CASE Persist(w) \/ Crash(w)
    BY <1>5, IdleGood DEF Persist, Crash, Goes
  <1> QED BY <1>1, <1>3, <1>4, <1>5

-----------------------------------------------------------------------------
(* What it does to the table *)

LEMMA ItemStep ==
  ASSUME IInv, NEW w \in Worker,
         Announce(w) \/ Report(w) \/ Finish(w) \/ Sync(w) \/ Persist(w)
  PROVE  item' \in Item /\ Backed(item')
  <1> DEFINE r == run[w]
  <1>0. /\ Good(r) /\ item \in Item /\ Backed(item)
        /\ r.snap \in Item /\ r.work \in Work /\ r.goal \in Status
        /\ r.revision \in Revision /\ r.summaryAt \in Time
    BY DEF IInv, TypeOK, Good, Run
  <1>1. CASE Announce(w)
    <2>1. item' = Announced(item, r.snap, r.work)
      BY <1>1 DEF Announce
    <2>2. item' \in Item
      BY <1>0, <2>1, WriteTypes, Constants
    <2>3. item'.status # "COMPLETED"
      BY <1>0, <2>1 DEF Announced, Merged, Item
    <2> QED BY <2>2, <2>3 DEF Backed
  <1>2. CASE Report(w)
    <2>1. item' = Reported(item, r.snap, r.work, r.goal) /\ r.goal # "COMPLETED"
      BY <1>0, <1>2 DEF Report, Good, SeenSummary
    <2>2. item' \in Item
      BY <1>0, <2>1, WriteTypes, Constants
    <2>3. item'.status = r.goal
      BY <1>0, <2>1 DEF Reported, Merged, Item
    <2> QED BY <2>1, <2>2, <2>3 DEF Backed
  <1>3. CASE Finish(w)
    <2>1. /\ item' = Ended(item, r.snap, r.work, r.goal)
          /\ r.goal = "COMPLETED" => r.work.exec \in summaries
      BY <1>0, <1>3 DEF Finish, Good, SeenSummary
    <2>2. item' \in Item
      BY <1>0, <2>1, WriteTypes, Constants
    <2>3. /\ item'.status = r.goal
          /\ r.goal = "COMPLETED" => item'.summary = r.work.exec
      BY <1>0, <2>1 DEF Ended, Merged, Item
    <2> QED BY <2>1, <2>2, <2>3 DEF Backed
  <1>4. CASE Sync(w)
    <2>1. item' = Synced(item, r.snap, r.revision)
      BY <1>4 DEF Sync
    <2>2. item' \in Item
      BY <1>0, <2>1, WriteTypes, Constants
    <2>3. item'.status = item.status /\ item'.summary = item.summary
      BY <1>0, <2>1 DEF Synced, Item
    <2> QED BY <1>0, <2>2, <2>3 DEF Backed
  <1>5. CASE Persist(w)
    <2>1. item' = Backfilled(item, r.snap, r.summaryAt) /\ ownSummary # 0
      BY <1>0, <1>5 DEF Persist, Good, SeenSummary
    <2>2. item' \in Item
      BY <1>0, <2>1, WriteTypes, Constants
    <2>3. item'.summary = Own
      BY <1>0, <2>1 DEF Backfilled, Merged, Item
    <2> QED BY <2>1, <2>2, <2>3 DEF Backed
  <1> QED BY <1>1, <1>2, <1>3, <1>4, <1>5

LEMMA WorkItemStep ==
  ASSUME IInv, NEW w \in Worker, SaveWork(w) \/ Defer(w) \/ Drop(w)
  PROVE  work' \in [Mitigation -> Work] /\ \A e \in Mitigation : Named(work'[e])
  <1> DEFINE k == run[w].work
  <1>1. k \in Work /\ k.exec \in Mitigation
    BY DEF IInv, Good, Run, SaveWork, Defer, Drop, AtWork
  <1>2. Named(k) /\ Named(NoWork)
    BY <1>1, Constants DEF Named, NoWork
  <1>3. \/ work' = work
        \/ work' = [work EXCEPT ![k.exec] = k]
        \/ work' = [work EXCEPT ![k.exec] = NoWork]
    BY DEF SaveWork, Defer, Drop
  <1> HIDE DEF k
  <1> QED BY <1>1, <1>2, <1>3 DEF IInv, TypeOK, Named

-----------------------------------------------------------------------------
(* The invariant *)

Invocation(w) ==
    \/ \E e \in Event : Deliver(w, e)
    \/ \E e \in Mitigation : Sweep(w, e)
    \/ StartSync(w)
    \/ Step(w)
    \/ Crash(w)

LEMMA InvocationKeeps ==
  ASSUME IInv, NEW w \in Worker, Invocation(w)
  PROVE  IInv'
  <1>1. Goes(w)
    BY EventStep, WorkStep, SyncStep DEF Invocation, Step
  <1>2. UNCHANGED provider
    BY DEF Invocation, Step, Deliver, Sweep, StartSync, Crash, SaveWork, Announce,
           Report, FindWork, Load, Fetched, FetchFailed, Defer, Reload, Finish,
           Drop, ListJournal, Sync, Persist
  <1>3. item' \in Item /\ Backed(item')
    <2>1. CASE item' = item
      BY <2>1 DEF IInv, TypeOK
    <2>2. CASE Announce(w) \/ Report(w) \/ Finish(w) \/ Sync(w) \/ Persist(w)
      BY <2>2, ItemStep
    <2> QED BY <2>1, <2>2
            DEF Invocation, Step, Deliver, Sweep, StartSync, Crash, SaveWork,
                FindWork, Load, Fetched, FetchFailed, Defer, Reload, Drop,
                ListJournal, table
  <1>4. work' \in [Mitigation -> Work] /\ \A e \in Mitigation : Named(work'[e])
    <2>1. CASE work' = work
      BY <2>1 DEF IInv, TypeOK
    <2>2. CASE SaveWork(w) \/ Defer(w) \/ Drop(w)
      BY <2>2, WorkItemStep
    <2> QED BY <2>1, <2>2
            DEF Invocation, Step, Deliver, Sweep, StartSync, Crash, Announce,
                Report, FindWork, Load, Fetched, FetchFailed, Reload, Finish,
                ListJournal, Sync, Persist, table
  <1>5. run' \in [Worker -> Run] /\ (\A v \in Worker : Good(run[v]))'
    BY <1>1, <1>2, GoGood
  <1>6. Backed(item)'
    BY <1>2, <1>3 DEF Backed, provider
  <1>7. TypeOK'
    BY <1>2, <1>3, <1>4, <1>5 DEF IInv, TypeOK, provider
  <1> QED BY <1>4, <1>5, <1>6, <1>7 DEF IInv, Named

Provider ==
    \/ \E e \in Mitigation, status \in EventStatus : Progress(e, status)
    \/ \E e \in Mitigation : WriteSummary(e)
    \/ WriteJournal

LEMMA ProviderKeeps ==
  ASSUME IInv, Provider
  PROVE  IInv'
  <1>1. /\ UNCHANGED <<table, run>>
        /\ summaries \subseteq summaries'
        /\ ownSummary # 0 => ownSummary' # 0
    BY DEF Provider, Progress, WriteSummary, WriteJournal, table
  <1>2. TypeOK'
    <2>1. ASSUME NEW e \in Mitigation, NEW status \in EventStatus, Progress(e, status)
          PROVE  TypeOK'
      <3>1. clock' \in Time
        BY <2>1 DEF Progress, IInv, TypeOK, Time
      <3>2. [exec |-> e, status |-> status, at |-> clock'] \in Event
        BY <3>1 DEF Event
      <3> QED BY <2>1, <3>1, <3>2 DEF Progress, IInv, TypeOK, table
    <2>2. ASSUME NEW e \in Mitigation, WriteSummary(e)
          PROVE  TypeOK'
      BY <2>2 DEF WriteSummary, IInv, TypeOK, table
    <2>3. CASE WriteJournal
      <3>1. revision' \in Revision /\ ownSummary' \in Time
        BY <2>3 DEF WriteJournal, IInv, TypeOK, Revision
      <3> QED BY <2>3, <3>1 DEF WriteJournal, IInv, TypeOK, table
    <2> QED BY <2>1, <2>2, <2>3 DEF Provider
  <1>3. Backed(item)'
    BY <1>1 DEF IInv, Backed, table
  <1>4. (\A w \in Worker : Good(run[w]))'
    BY <1>1 DEF IInv, Good, SeenSummary
  <1> QED BY <1>1, <1>2, <1>3, <1>4 DEF IInv, Named, table

LEMMA Inductive == IInv /\ [Next]_vars => IInv'
  <1> SUFFICES ASSUME IInv, [Next]_vars
               PROVE  IInv'
    OBVIOUS
  <1>1. CASE \E w \in Worker : Invocation(w)
    BY <1>1, InvocationKeeps
  <1>2. CASE Provider
    BY <1>2, ProviderKeeps
  <1>3. CASE UNCHANGED vars
    BY <1>3 DEF vars, table, provider, IInv, TypeOK, Backed, Named, Good, SeenSummary
  <1> QED BY <1>1, <1>2, <1>3 DEF Next, Uncut, Invocation, Provider

LEMMA Initially == Init => IInv
  <1> SUFFICES ASSUME Init
               PROVE  IInv
    OBVIOUS
  <1>1. TypeOK
    BY Constants DEF Init, TypeOK, Time
  <1>2. Backed(item)
    BY DEF Init, Backed, FirstItem
  <1>3. Named(NoWork)
    BY Constants DEF Named, NoWork
  <1> QED BY <1>1, <1>2, <1>3, IdleGood DEF Init, IInv

LEMMA Always == Spec => []IInv
  BY Initially, Inductive, PTL DEF Spec

\* The table, the provider and what every invocation holds are well typed.
THEOREM MitigationTyped == Spec => []TypeOK
  <1>1. IInv => TypeOK
    BY DEF IInv
  <1> QED BY <1>1, Always, PTL

\* Whatever handlers, sweeps and refreshes interleave and wherever they stop,
\* META never says COMPLETED of a mitigation whose summary nobody has read.
THEOREM CompletedIsBacked == Spec => []CompletedHasSummary
  <1>1. IInv => CompletedHasSummary
    BY DEF IInv, Backed, CompletedHasSummary
  <1> QED BY <1>1, Always, PTL

-----------------------------------------------------------------------------
(***************************************************************************)
(* One invocation at a time.  What an invocation holds is then true of the *)
(* table: its copy of META is META, an event it lets through is not        *)
(* overtaken, and its work item is the one that was saved.  It may stop    *)
(* anywhere: SequentialInv asks nothing of an invocation that is idle.     *)
(***************************************************************************)
Sole(w) == Worker = {w}

Going(m) == m.status # "NONE" /\ ~m.terminal

\* OutcomeAgrees, of any copy of META.
Agrees(m) ==
    /\ m.root = m.revision
    /\ m.shown.terminal = m.terminal
    /\ m.shown.at = m.at
    /\ m.shown.status = IF m.status = "FETCHING" THEN "COMPLETED" ELSE m.status

\* A mitigation that goes on has a work item at least as new as META.
Kept(m, works) ==
    Going(m) =>
        /\ m.exec \in Mitigation
        /\ works[m.exec].status # "NONE"
        /\ works[m.exec].at >= m.at

\* The copy of META is META, and what is about to be written is news to it.
Fresh(r, m) ==
    /\ r.pc \in UsesSnap => r.snap = m
    /\ r.pc \in {"save", "announce", "end"} => ~Overtaken(m, r.work.at)
    /\ r.pc = "finish" => ~Stale(m, r.work)
    /\ r.pc = "persist" => Newer(m, r.summaryAt)

\* Only an event writes FAILED or CANCELED, only a fetch a result or its lack.
Aimed(r) ==
    /\ r.pc = "end" => r.goal \in {"FAILED", "CANCELED"}
    /\ r.pc \in {"reload", "finish"} => r.goal \in {"COMPLETED", "UNAVAILABLE"}

\* A work item is saved before META speaks of it, and is dropped only once
\* META is done with it or newer.
Holds(r, m, works) ==
    /\ r.pc \in {"save", "announce", "load", "fetch", "defer"} => r.work.status # "NONE"
    /\ r.pc = "announce" => works[r.work.exec] = r.work
    /\ r.pc = "find" => m.terminal
    /\ r.pc = "drop" /\ Going(m) /\ m.exec = r.work.exec => m.at > r.work.at

Sure(r, m, works) == Fresh(r, m) /\ Aimed(r) /\ Holds(r, m, works)

SequentialInv ==
    /\ Agrees(item)
    /\ Kept(item, work)
    /\ \A w \in Worker : Sure(run[w], item, work)

\* What NeverOlder says of a step from META m to META n.
Forward(m, n) ==
    /\ n.at >= m.at
    /\ m.terminal /\ n.status # m.status => n.at > m.at \/ n.status = "COMPLETED"

\* What each step of the invocation comes to.
Moves(w) == \E r \in Run : Sure(r, item', work') /\ Go(w, r)

Surely(w) ==
    /\ Moves(w)
    /\ Agrees(item') /\ Kept(item', work')
    /\ Forward(item, item')

LEMMA ItemFields ==
  ASSUME NEW m \in Item
  PROVE  /\ m.at \in Nat /\ m.terminal \in BOOLEAN /\ m.status \in Status
         /\ Forward(m, m)
  BY DEF Item, Time, Forward

\* Each write of META, where the copy it merges into is META itself.
LEMMA WritesAgree ==
  ASSUME NEW m \in Item, Agrees(m), NEW k \in Work, NEW at \in Time,
         NEW rev \in Revision
  PROVE  /\ LET n == Announced(m, m, k)
            IN  /\ Agrees(n) /\ n.at = k.at /\ n.exec = k.exec /\ ~n.terminal
                /\ n.status = IF k.status = "COMPLETED" THEN "FETCHING" ELSE k.status
         /\ \A status \in {"FAILED", "CANCELED"} :
              LET n == Reported(m, m, k, status)
              IN  Agrees(n) /\ n.at = k.at /\ n.terminal /\ n.status = status
         /\ \A goal \in {"COMPLETED", "UNAVAILABLE"} :
              LET n == Ended(m, m, k, goal)
              IN  Agrees(n) /\ n.at = k.at /\ n.terminal /\ n.status = goal
         /\ LET n == Synced(m, m, rev)
            IN  /\ Agrees(n) /\ n.at = m.at /\ n.exec = m.exec
                /\ n.terminal = m.terminal /\ n.status = m.status
         /\ LET n == Backfilled(m, m, at)
            IN  Agrees(n) /\ n.at = at /\ n.terminal /\ n.status = "COMPLETED"
  <1>1. k.status # "FETCHING"
    BY DEF Work
  <1>2. LET n == Announced(m, m, k)
        IN  /\ Agrees(n) /\ n.at = k.at /\ n.exec = k.exec /\ ~n.terminal
            /\ n.status = IF k.status = "COMPLETED" THEN "FETCHING" ELSE k.status
    BY <1>1 DEF Announced, Merged, Agrees, Item
  <1>3. ASSUME NEW status \in {"FAILED", "CANCELED"}
        PROVE  LET n == Reported(m, m, k, status)
               IN  Agrees(n) /\ n.at = k.at /\ n.terminal /\ n.status = status
    BY <1>3 DEF Reported, Merged, Agrees, Item
  <1>4. ASSUME NEW goal \in {"COMPLETED", "UNAVAILABLE"}
        PROVE  LET n == Ended(m, m, k, goal)
               IN  Agrees(n) /\ n.at = k.at /\ n.terminal /\ n.status = goal
    BY <1>4 DEF Ended, Merged, Agrees, Item
  <1>5. LET n == Synced(m, m, rev)
        IN  /\ Agrees(n) /\ n.at = m.at /\ n.exec = m.exec
            /\ n.terminal = m.terminal /\ n.status = m.status
    BY DEF Synced, Agrees, Item
  <1>6. LET n == Backfilled(m, m, at)
        IN  Agrees(n) /\ n.at = at /\ n.terminal /\ n.status = "COMPLETED"
    BY DEF Backfilled, Merged, Agrees, Item
  <1> QED BY <1>2, <1>3, <1>4, <1>5, <1>6

LEMMA SureIdle ==
  ASSUME NEW m, NEW works
  PROVE  Idle \in Run /\ Sure(Idle, m, works)
  BY Constants DEF Sure, Fresh, Aimed, Holds, Idle, UsesSnap

\* What Go leaves out of the record is nothing it is sure of.
LEMMA MovesSure ==
  ASSUME IInv, NEW w \in Worker, Moves(w)
  PROVE  Sure(run'[w], item', work')
  <1>1. PICK r \in Run : Sure(r, item', work') /\ Go(w, r)
    BY DEF Moves
  <1> DEFINE q == IF r.pc \in UsesSnap THEN r ELSE [r EXCEPT !.snap = FirstItem]
  <1>2. /\ q.pc = r.pc /\ q.work = r.work /\ q.goal = r.goal
        /\ q.summaryAt = r.summaryAt
        /\ q.pc \in UsesSnap => q.snap = r.snap
    BY DEF Run
  <1>3. run'[w] = q
    BY <1>1 DEF Go, IInv, TypeOK
  <1> HIDE DEF q
  <1>4. Sure(q, item', work')
    BY <1>1, <1>2 DEF Sure, Fresh, Aimed, Holds
  <1> QED BY <1>3, <1>4

LEMMA ReadOnly ==
  ASSUME IInv, SequentialInv, NEW w \in Worker, UNCHANGED table,
         NEW r \in Run, Sure(r, item, work), Go(w, r)
  PROVE  Surely(w)
  <1>1. item' = item /\ work' = work
    BY DEF table
  <1>2. Forward(item, item)
    BY ItemFields DEF IInv, TypeOK
  <1> QED BY <1>1, <1>2 DEF Surely, Moves, SequentialInv

\* An event that META is not past is handled with META as it is.
LEMMA DeliverSure ==
  ASSUME IInv, SequentialInv, NEW w \in Worker, NEW e \in Event, Deliver(w, e)
  PROVE  Surely(w)
  <1> DEFINE status == Normal(e.status)
             saved == status \in {"IN_PROGRESS", "COMPLETED"}
             k == [exec |-> e.exec, at |-> e.at,
                   status |-> IF saved THEN status ELSE "NONE",
                   summary |-> IF status = "COMPLETED" THEN e.exec ELSE None]
             goal == IF saved THEN "NONE" ELSE status
             q == [Idle EXCEPT !.pc = FirstStep(status), !.work = k,
                               !.snap = item, !.goal = goal]
  <1>1. /\ Go(w, IF Overtaken(item, e.at) THEN Idle ELSE q)
        /\ UNCHANGED table
    BY DEF Deliver
  <1>2. CASE Overtaken(item, e.at)
    <2>1. Go(w, Idle)
      BY <1>1, <1>2
    <2> QED BY <1>1, <2>1, SureIdle, ReadOnly
  <1>3. CASE ~Overtaken(item, e.at)
    <2>1. k \in Work /\ k.at = e.at
      BY DEF Event, Work, EventStatus, Normal
    <2>2. /\ goal \in Status
          /\ \/ FirstStep(status) = "save" /\ k.status # "NONE"
             \/ FirstStep(status) = "end" /\ goal \in {"FAILED", "CANCELED"}
      BY DEF Event, EventStatus, Normal, Status, FirstStep
    <2>3. Go(w, q)
      BY <1>1, <1>3
    <2> HIDE DEF k, goal, status
    <2>4. /\ q.pc = FirstStep(status) /\ q.work = k /\ q.snap = item /\ q.goal = goal
          /\ q \in Run
      BY <2>1, <2>2, Constants DEF Idle, Run, PC, IInv, TypeOK
    <2> HIDE DEF q
    <2>5. Sure(q, item, work)
      BY <1>3, <2>1, <2>2, <2>4 DEF Sure, Fresh, Aimed, Holds
    <2> QED BY <1>1, <2>3, <2>4, <2>5, ReadOnly
  <1> QED BY <1>2, <1>3

\* What the sweep takes up was saved.
LEMMA SweepSure ==
  ASSUME IInv, SequentialInv, NEW w \in Worker, NEW e \in Mitigation, Sweep(w, e)
  PROVE  Surely(w)
  <1> DEFINE q == [Idle EXCEPT !.pc = "load", !.work = work[e]]
  <1>1. Go(w, q) /\ UNCHANGED table /\ work[e].status # "NONE" /\ work[e] \in Work
    BY DEF Sweep, IInv, TypeOK
  <1>2. q.pc = "load" /\ q.work = work[e] /\ q \in Run
    BY <1>1, Constants DEF Idle, Run, PC
  <1> HIDE DEF q
  <1>3. Sure(q, item, work)
    BY <1>1, <1>2 DEF Sure, Fresh, Aimed, Holds, UsesSnap
  <1> QED BY <1>1, <1>2, <1>3, ReadOnly

\* The work item of a mitigation that ended is dropped.
LEMMA FindWorkSure ==
  ASSUME IInv, SequentialInv, NEW w \in Worker, FindWork(w)
  PROVE  Surely(w)
  <1> DEFINE r == run[w]
             k == work[r.work.exec]
             q == [r EXCEPT !.pc = "drop", !.work = k]
  <1>1. /\ Go(w, IF k.status = "NONE" THEN Idle ELSE q)
        /\ UNCHANGED table /\ r.pc = "find" /\ r \in Run /\ k \in Work /\ item.terminal
    BY DEF FindWork, IInv, TypeOK, Good, AtWork, SequentialInv, Sure, Holds
  <1>2. CASE k.status = "NONE"
    <2>1. Go(w, Idle)
      BY <1>1, <1>2
    <2> QED BY <1>1, <2>1, SureIdle, ReadOnly
  <1>3. CASE k.status # "NONE"
    <2>1. Go(w, q)
      BY <1>1, <1>3
    <2> HIDE DEF k
    <2>2. q.pc = "drop" /\ q \in Run
      BY <1>1 DEF Run, PC
    <2> HIDE DEF q
    <2>3. Sure(q, item, work)
      BY <1>1, <2>2 DEF Sure, Fresh, Aimed, Holds, Going, UsesSnap
    <2> QED BY <1>1, <2>1, <2>2, <2>3, ReadOnly
  <1> QED BY <1>2, <1>3

\* What META is past is dropped; nothing else is decided before the reload.
LEMMA FetchSure ==
  ASSUME IInv, SequentialInv, NEW w \in Worker,
         Load(w) \/ Fetched(w) \/ FetchFailed(w) \/ Reload(w)
  PROVE  Surely(w)
  <1> DEFINE r == run[w]
  <1>1. /\ UNCHANGED table /\ r \in Run /\ Sure(r, item, work)
        /\ item \in Item /\ r.work \in Work
    BY DEF Load, Fetched, FetchFailed, Reload, IInv, TypeOK, SequentialInv, Run
  <1>2. ASSUME Stale(item, r.work), Go(w, [r EXCEPT !.pc = "drop"])
        PROVE  Surely(w)
    <2> DEFINE q == [r EXCEPT !.pc = "drop"]
    <2>1. q.pc = "drop" /\ q.work = r.work /\ q \in Run
      BY <1>1 DEF Run, PC
    <2>2. Going(item) /\ item.exec = r.work.exec => item.at > r.work.at
      BY <1>2 DEF Going, Stale
    <2>3. Go(w, q)
      BY <1>2
    <2> HIDE DEF q
    <2>4. Sure(q, item, work)
      BY <2>1, <2>2 DEF Sure, Fresh, Aimed, Holds, UsesSnap
    <2> QED BY <1>1, <2>1, <2>3, <2>4, ReadOnly
  <1>3. ASSUME NEW pc \in {"fetch", "defer"}, r.pc \in {"load", "fetch"}, Enter(w, pc)
        PROVE  Surely(w)
    <2> DEFINE q == [r EXCEPT !.pc = pc]
    <2>1. q.pc = pc /\ q.work = r.work /\ q \in Run
      BY <1>1 DEF Run, PC
    <2>2. Go(w, q)
      BY <1>3 DEF Enter
    <2> HIDE DEF q
    <2>3. Sure(q, item, work)
      BY <1>1, <1>3, <2>1 DEF Sure, Fresh, Aimed, Holds, UsesSnap
    <2> QED BY <1>1, <2>1, <2>2, <2>3, ReadOnly
  <1>4. ASSUME NEW goal \in {"COMPLETED", "UNAVAILABLE"},
               Go(w, [r EXCEPT !.pc = "reload", !.goal = goal])
        PROVE  Surely(w)
    <2> DEFINE q == [r EXCEPT !.pc = "reload", !.goal = goal]
    <2>1. q.pc = "reload" /\ q.goal = goal /\ q \in Run
      BY <1>1 DEF Run, PC, Status
    <2>2. Go(w, q)
      BY <1>4
    <2> HIDE DEF q
    <2>3. Sure(q, item, work)
      BY <2>1 DEF Sure, Fresh, Aimed, Holds, UsesSnap
    <2> QED BY <1>1, <2>1, <2>2, <2>3, ReadOnly
  <1>5. CASE Load(w)
    BY <1>2, <1>3, <1>4, <1>5 DEF Load, Enter
  <1>6. CASE Fetched(w)
    BY <1>4, <1>6 DEF Fetched
  <1>7. CASE FetchFailed(w)
    BY <1>3, <1>7 DEF FetchFailed
  <1>8. CASE Reload(w)
    <2>1. CASE Stale(item, r.work)
      BY <1>2, <1>8, <2>1 DEF Reload
    <2>2. CASE ~Stale(item, r.work)
      <3> DEFINE q == [r EXCEPT !.pc = "finish", !.snap = item]
      <3>1. Go(w, q)
        BY <1>8, <2>2 DEF Reload
      <3>2. /\ q.pc = "finish" /\ q.snap = item /\ q.work = r.work /\ q.goal = r.goal
            /\ q \in Run
        BY <1>1 DEF Run, PC
      <3> HIDE DEF q
      <3>3. r.goal \in {"COMPLETED", "UNAVAILABLE"}
        BY <1>1, <1>8 DEF Reload, Sure, Aimed
      <3>4. Sure(q, item, work)
        BY <2>2, <3>2, <3>3 DEF Sure, Fresh, Aimed, Holds
      <3> QED BY <1>1, <3>1, <3>2, <3>4, ReadOnly
    <2> QED BY <2>1, <2>2
  <1> QED BY <1>5, <1>6, <1>7, <1>8

\* The work item is saved as it will be announced.
LEMMA SaveWorkSure ==
  ASSUME IInv, SequentialInv, NEW w \in Worker, SaveWork(w)
  PROVE  Surely(w)
  <1> DEFINE r == run[w]
             k == r.work
             q == [r EXCEPT !.pc = "announce"]
  <1>1. /\ item' = item /\ work' = [work EXCEPT ![k.exec] = k]
        /\ r.pc = "save" /\ Go(w, q)
        /\ r \in Run /\ Sure(r, item, work) /\ item \in Item /\ k \in Work
        /\ k.exec \in Mitigation /\ work \in [Mitigation -> Work]
    BY DEF SaveWork, Enter, IInv, TypeOK, Good, AtWork, SequentialInv, Run
  <1>2. /\ r.snap = item /\ ~Overtaken(item, k.at) /\ k.status # "NONE"
        /\ work'[k.exec] = k
    BY <1>1 DEF Sure, Fresh, Holds, UsesSnap
  <1>3. item.at <= k.at
    BY <1>1, <1>2, ItemFields DEF Overtaken, Work, Time
  <1>4. q.pc = "announce" /\ q.work = k /\ q.snap = r.snap /\ q \in Run
    BY <1>1 DEF Run, PC
  <1>5. Kept(item, work')
    <2>1. CASE item.exec = k.exec
      BY <1>1, <1>2, <1>3, <2>1 DEF Kept
    <2>2. CASE item.exec # k.exec
      BY <1>1, <2>2 DEF Kept, SequentialInv
    <2> QED BY <2>1, <2>2
  <1> HIDE DEF q, k
  <1>6. Sure(q, item, work')
    BY <1>2, <1>4 DEF Sure, Fresh, Aimed, Holds
  <1> QED BY <1>1, <1>4, <1>5, <1>6, ItemFields DEF Surely, Moves, SequentialInv

\* META then shows a mitigation whose work item is there.
LEMMA AnnounceSure ==
  ASSUME IInv, SequentialInv, NEW w \in Worker, Announce(w)
  PROVE  Surely(w)
  <1> DEFINE r == run[w]
             k == r.work
             q == [r EXCEPT !.pc = "load"]
  <1>1. /\ item' = Announced(item, r.snap, k) /\ work' = work
        /\ r.pc = "announce" /\ Go(w, q)
        /\ r \in Run /\ Sure(r, item, work) /\ item \in Item /\ k \in Work
        /\ k.exec \in Mitigation /\ Agrees(item)
    BY DEF Announce, Enter, IInv, TypeOK, Good, AtWork, SequentialInv, Run
  <1>2. /\ r.snap = item /\ ~Overtaken(item, k.at) /\ k.status # "NONE"
        /\ work[k.exec] = k
    BY <1>1 DEF Sure, Fresh, Holds, UsesSnap
  <1>3. q.pc = "load" /\ q.work = k /\ q \in Run
    BY <1>1 DEF Run, PC
  <1>4. Agrees(item') /\ item'.at = k.at /\ item'.exec = k.exec
    BY <1>1, <1>2, WritesAgree, Constants
  <1>5. Kept(item', work')
    BY <1>1, <1>2, <1>4 DEF Kept, Work, Time
  <1>6. Forward(item, item')
    BY <1>1, <1>2, <1>4, ItemFields DEF Forward, Overtaken, Work, Time
  <1> HIDE DEF q, k
  <1>7. Sure(q, item', work')
    BY <1>2, <1>3 DEF Sure, Fresh, Aimed, Holds, UsesSnap
  <1> QED BY <1>1, <1>3, <1>4, <1>5, <1>6, <1>7 DEF Surely, Moves

\* META then shows a mitigation that failed; nothing has to go on.
LEMMA ReportSure ==
  ASSUME IInv, SequentialInv, NEW w \in Worker, Report(w)
  PROVE  Surely(w)
  <1> DEFINE r == run[w]
             k == r.work
             q == [r EXCEPT !.pc = "find", !.goal = "NONE"]
  <1>1. /\ item' = Reported(item, r.snap, k, r.goal)
        /\ r.pc = "end" /\ Go(w, q)
        /\ r \in Run /\ Sure(r, item, work) /\ item \in Item /\ k \in Work
        /\ Agrees(item)
    BY DEF Report, IInv, TypeOK, SequentialInv, Run
  <1>2. /\ r.snap = item /\ ~Overtaken(item, k.at)
        /\ r.goal \in {"FAILED", "CANCELED"}
    BY <1>1 DEF Sure, Fresh, Aimed, UsesSnap
  <1>3. q.pc = "find" /\ q \in Run
    BY <1>1 DEF Run, PC, Status
  <1>4. Agrees(item') /\ item'.at = k.at /\ item'.terminal
    BY <1>1, <1>2, WritesAgree, Constants
  <1>5. Forward(item, item')
    BY <1>1, <1>2, <1>4, ItemFields DEF Forward, Overtaken, Work, Time
  <1> HIDE DEF q, k
  <1>6. Sure(q, item', work')
    BY <1>3, <1>4 DEF Sure, Fresh, Aimed, Holds, UsesSnap
  <1> QED BY <1>1, <1>3, <1>4, <1>5, <1>6 DEF Surely, Moves, Kept, Going

\* META then shows the result, or that there is none to come.
LEMMA FinishSure ==
  ASSUME IInv, SequentialInv, NEW w \in Worker, Finish(w)
  PROVE  Surely(w)
  <1> DEFINE r == run[w]
             k == r.work
             q == [r EXCEPT !.pc = "drop"]
  <1>1. /\ item' = Ended(item, r.snap, k, r.goal)
        /\ r.pc = "finish" /\ Go(w, q)
        /\ r \in Run /\ Sure(r, item, work) /\ item \in Item /\ k \in Work
        /\ Agrees(item)
    BY DEF Finish, Enter, IInv, TypeOK, SequentialInv, Run
  <1>2. /\ r.snap = item /\ ~Stale(item, k)
        /\ r.goal \in {"COMPLETED", "UNAVAILABLE"}
    BY <1>1 DEF Sure, Fresh, Aimed, UsesSnap
  <1>3. q.pc = "drop" /\ q \in Run
    BY <1>1 DEF Run, PC
  <1>4. Agrees(item') /\ item'.at = k.at /\ item'.terminal
    BY <1>1, <1>2, WritesAgree, Constants
  <1>5. Forward(item, item')
    BY <1>1, <1>2, <1>4, ItemFields DEF Forward, Stale, Work, Time
  <1> HIDE DEF q, k
  <1>6. Sure(q, item', work')
    BY <1>3, <1>4 DEF Sure, Fresh, Aimed, Holds, Going, UsesSnap
  <1> QED BY <1>1, <1>3, <1>4, <1>5, <1>6 DEF Surely, Moves, Kept, Going

\* A work item is put back as it was, or is no longer what META waits for.
LEMMA SettleSure ==
  ASSUME IInv, SequentialInv, NEW w \in Worker, Defer(w) \/ Drop(w)
  PROVE  Surely(w)
  <1> DEFINE r == run[w]
             k == r.work
  <1>1. /\ item' = item /\ Go(w, Idle) /\ item \in Item /\ k \in Work
        /\ k.exec \in Mitigation /\ work \in [Mitigation -> Work]
        /\ Sure(r, item, work) /\ Kept(item, work)
    BY DEF Defer, Drop, IInv, TypeOK, Good, AtWork, SequentialInv, Run
  <1>2. CASE ~Unchanged(k)
    <2>1. work' = work
      BY <1>2 DEF Defer, Drop
    <2> QED BY <1>1, <2>1, SureIdle, ItemFields DEF Surely, Moves, SequentialInv
  <1>3. ASSUME Unchanged(k), Defer(w)
        PROVE  Kept(item, work')
    <2>1. work' = [work EXCEPT ![k.exec] = k] /\ k.status # "NONE"
      BY <1>1, <1>3 DEF Defer, Sure, Holds
    <2>2. k.at = work[k.exec].at
      BY <1>3 DEF Unchanged
    <2> HIDE DEF k
    <2> QED BY <1>1, <2>1, <2>2 DEF Kept
  <1>4. ASSUME Unchanged(k), Drop(w)
        PROVE  Kept(item, work')
    <2>1. /\ work' = [work EXCEPT ![k.exec] = NoWork]
          /\ Going(item) /\ item.exec = k.exec => item.at > k.at
      BY <1>1, <1>4 DEF Drop, Sure, Holds
    <2>2. k.at = work[k.exec].at /\ k.at \in Nat /\ item.at \in Nat
      BY <1>1, <1>4 DEF Unchanged, Work, Item, Time
    <2> HIDE DEF k
    <2>3. Going(item) => item.exec # k.exec
      BY <1>1, <2>1, <2>2 DEF Kept
    <2> QED BY <1>1, <2>1, <2>3 DEF Kept
  <1>5. CASE Unchanged(k)
    <2>1. Kept(item, work')
      BY <1>3, <1>4, <1>5
    <2> QED BY <1>1, <2>1, SureIdle, ItemFields DEF Surely, Moves, SequentialInv
  <1> QED BY <1>2, <1>5

\* A listed summary is written only if it is news to META.
LEMMA SyncSure ==
  ASSUME IInv, SequentialInv, NEW w \in Worker,
         StartSync(w) \/ ListJournal(w) \/ Sync(w) \/ Persist(w) \/ Crash(w)
  PROVE  Surely(w)
  <1> DEFINE r == run[w]
  <1>1. /\ r \in Run /\ Sure(r, item, work) /\ item \in Item /\ Agrees(item)
        /\ Kept(item, work) /\ revision \in Revision /\ ownSummary \in Time
        /\ r.revision \in Revision /\ r.summaryAt \in Time
    BY DEF IInv, TypeOK, SequentialInv, Run
  <1>2. ASSUME NEW q \in Run, NEW m \in Item, NEW works
        PROVE  AfterSync(q, m) \in Run /\ Sure(AfterSync(q, m), m, works)
    <2> DEFINE p == [q EXCEPT !.pc = "persist", !.snap = m, !.revision = 0]
    <2>1. AfterSync(q, m) = IF Newer(m, q.summaryAt) THEN p ELSE Idle
      BY DEF AfterSync
    <2>2. /\ p.pc = "persist" /\ p.snap = m /\ p.summaryAt = q.summaryAt
          /\ p \in Run
      BY <1>2, Constants DEF Run, PC
    <2> HIDE DEF p
    <2>3. Newer(m, q.summaryAt) => Sure(p, m, works)
      BY <2>2 DEF Sure, Fresh, Aimed, Holds
    <2> QED BY <2>1, <2>2, <2>3, SureIdle
  <1>3. CASE StartSync(w)
    <2> DEFINE q == [Idle EXCEPT !.pc = "list", !.snap = item]
    <2>1. Go(w, q) /\ UNCHANGED table
      BY <1>3 DEF StartSync
    <2>2. q.pc = "list" /\ q.snap = item /\ q \in Run
      BY <1>1, Constants DEF Idle, Run, PC
    <2> HIDE DEF q
    <2>3. Sure(q, item, work)
      BY <2>2 DEF Sure, Fresh, Aimed, Holds
    <2> QED BY <2>1, <2>2, <2>3, ReadOnly
  <1>4. CASE ListJournal(w)
    <2> DEFINE p == [r EXCEPT !.revision = revision, !.summaryAt = ownSummary]
               q == [p EXCEPT !.pc = "sync"]
    <2>1. r.snap = item
      BY <1>1, <1>4 DEF ListJournal, Sure, Fresh, UsesSnap
    <2>2. p \in Run /\ p.snap = r.snap
      BY <1>1 DEF Run
    <2>3. Go(w, q) \/ Go(w, AfterSync(p, item))
      BY <1>4, <2>1 DEF ListJournal
    <2> HIDE DEF p
    <2>4. q.pc = "sync" /\ q.snap = item /\ q \in Run
      BY <2>1, <2>2 DEF Run, PC
    <2> HIDE DEF q
    <2>5. Sure(q, item, work)
      BY <2>4 DEF Sure, Fresh, Aimed, Holds
    <2>6. AfterSync(p, item) \in Run /\ Sure(AfterSync(p, item), item, work)
      BY <1>1, <1>2, <2>2
    <2>7. UNCHANGED table
      BY <1>4 DEF ListJournal
    <2> QED BY <2>3, <2>4, <2>5, <2>6, <2>7, ReadOnly
  <1>5. CASE Sync(w)
    <2>1. /\ item' = Synced(item, item, r.revision) /\ work' = work
          /\ Go(w, AfterSync(r, item'))
      BY <1>1, <1>5 DEF Sync, Sure, Fresh, UsesSnap
    <2>2. /\ Agrees(item') /\ item'.at = item.at /\ item'.exec = item.exec
          /\ item'.terminal = item.terminal /\ item'.status = item.status
      BY <1>1, <2>1, WritesAgree, Constants DEF Work
    <2>3. item' \in Item
      BY <1>1, <2>1, WriteTypes, Constants
    <2>4. Kept(item', work')
      BY <1>1, <2>1, <2>2 DEF Kept, Going
    <2>5. Forward(item, item')
      BY <1>1, <2>2, ItemFields DEF Forward
    <2>6. AfterSync(r, item') \in Run /\ Sure(AfterSync(r, item'), item', work')
      BY <1>1, <1>2, <2>3
    <2> QED BY <2>1, <2>2, <2>4, <2>5, <2>6 DEF Surely, Moves
  <1>6. CASE Persist(w)
    <2>1. /\ item' = Backfilled(item, item, r.summaryAt) /\ work' = work
          /\ Go(w, Idle) /\ Newer(item, r.summaryAt)
      BY <1>1, <1>6 DEF Persist, Sure, Fresh, UsesSnap
    <2>2. /\ Agrees(item') /\ item'.at = r.summaryAt /\ item'.terminal
          /\ item'.status = "COMPLETED"
      BY <1>1, <2>1, WritesAgree, Constants
    <2>3. Forward(item, item')
      BY <1>1, <2>1, <2>2, ItemFields DEF Forward, Newer, Time
    <2> QED BY <2>1, <2>2, <2>3, SureIdle DEF Surely, Moves, Kept, Going
  <1>7. CASE Crash(w)
    BY <1>7, SureIdle, ReadOnly DEF Crash
  <1> QED BY <1>3, <1>4, <1>5, <1>6, <1>7

-----------------------------------------------------------------------------
(* The invariant of one invocation at a time *)

LEMMA InvocationSurely ==
  ASSUME IInv, SequentialInv, NEW w \in Worker, Invocation(w)
  PROVE  Surely(w)
  BY DeliverSure, SweepSure, FindWorkSure, FetchSure, SaveWorkSure, AnnounceSure,
     ReportSure, FinishSure, SettleSure, SyncSure
     DEF Invocation, Step

\* META and its work items change in the hands of an invocation only.
LEMMA StepForward ==
  ASSUME IInv, SequentialInv, [Next]_vars
  PROVE  Forward(item, item')
  <1>1. CASE \E w \in Worker : Invocation(w)
    BY <1>1, InvocationSurely DEF Surely
  <1>2. CASE Provider \/ UNCHANGED vars
    <2>1. item' = item
      BY <1>2 DEF Provider, Progress, WriteSummary, WriteJournal, vars, table
    <2> QED BY <2>1, ItemFields DEF IInv, TypeOK
  <1> QED BY <1>1, <1>2 DEF Next, Uncut, Invocation, Provider

LEMMA SequentialStep ==
  ASSUME NEW w \in Worker, Sole(w), IInv, SequentialInv, [Next]_vars
  PROVE  SequentialInv'
  <1>1. CASE Invocation(w)
    <2>1. Surely(w)
      BY <1>1, InvocationSurely
    <2>2. Sure(run'[w], item', work')
      BY <2>1, MovesSure DEF Surely
    <2> QED BY <2>1, <2>2 DEF Surely, SequentialInv, Sole
  <1>2. CASE Provider \/ UNCHANGED vars
    <2>1. item' = item /\ work' = work /\ run' = run
      BY <1>2 DEF Provider, Progress, WriteSummary, WriteJournal, vars, table
    <2> QED BY <2>1 DEF SequentialInv
  <1> QED BY <1>1, <1>2 DEF Next, Uncut, Invocation, Provider, Sole

LEMMA SequentialAlways ==
  ASSUME NEW w \in Worker, Sole(w)
  PROVE  Spec => [](IInv /\ SequentialInv)
  <1>1. Init => SequentialInv
    <2>1. Agrees(FirstItem) /\ ~Going(FirstItem)
      BY DEF FirstItem, NoShown, Agrees, Going
    <2> QED BY <2>1, SureIdle DEF Init, SequentialInv, Kept
  <1>2. IInv /\ SequentialInv /\ [Next]_vars => SequentialInv'
    BY SequentialStep
  <1> QED BY <1>1, <1>2, Initially, Inductive, PTL DEF Spec

\* Where invocations do not overlap, a mitigation that META shows as going on
\* has a work item for the sweep, wherever an invocation stopped.
THEOREM OngoingIsPursued ==
  ASSUME NEW w \in Worker, Sole(w)
  PROVE  Spec => []Pursued
  <1>1. SequentialInv => Pursued
    BY DEF SequentialInv, Kept, Going, Pursued
  <1> QED BY <1>1, SequentialAlways, PTL

\* Where invocations do not overlap, the outcome is of the mitigation and of
\* the journal revision the other attributes of META name.
THEOREM OutcomesAgree ==
  ASSUME NEW w \in Worker, Sole(w)
  PROVE  Spec => []OutcomeAgrees
  <1>1. SequentialInv => OutcomeAgrees
    BY DEF SequentialInv, Agrees, OutcomeAgrees
  <1> QED BY <1>1, SequentialAlways, PTL

\* Where invocations do not overlap, late, early and repeated events and a
\* summary found afterwards never replace a newer mitigation by an older one.
THEOREM MitigationsGoForward ==
  ASSUME NEW w \in Worker, Sole(w)
  PROVE  Spec => NeverOlder
  <1>1. IInv /\ SequentialInv /\ [Next]_vars =>
          [ /\ item'.at >= item.at
            /\ item.terminal /\ item'.status # item.status =>
                 item'.at > item.at \/ item'.status = "COMPLETED" ]_vars
    BY StepForward DEF Forward
  <1> QED BY <1>1, SequentialAlways, PTL DEF Spec, NeverOlder
=============================================================================
