-------------------------- MODULE ReportRunProofs ---------------------------
(***************************************************************************)
(* What the report workers keep to, for any number of reports, sections,   *)
(* templates and faults.                                                   *)
(***************************************************************************)
EXTENDS ReportRun, FiniteSetTheorems, TLAPS

-----------------------------------------------------------------------------
(* The invariant                                                           *)

Ended == {"complete", "error", "skipped"}

\* Which worker goes where.
Sited(r) ==
    /\ worker[r].at \in {"begin", "batch", "pool", "final"} => ~IsEdit(r)
    /\ worker[r].at \in {"agent", "revise"} => IsEdit(r)

\* What the phases may be: nothing runs but the batch in the pool, and no
\* section of that batch is left behind.
PhaseFits(r) ==
    LET w == worker[r] IN
    /\ w.at \in {"shell", "anchor", "mark", "begin", "agent"} =>
           \A s \in Section : w.phase[s] = "new"
    /\ w.at \in {"batch", "pool", "final"} => \A s \in Section : w.phase[s] # "anew"
    /\ w.at \in {"batch", "final"} => \A s \in Section : w.phase[s] # "running"
    /\ w.at = "pool" => \A s \in Section :
           /\ s \in w.batch => w.phase[s] # "new"
           /\ w.phase[s] = "running" => s \in w.batch

\* What a section needs is behind it; a section that could run is in the
\* batch, or waits for one that is.
Ordered(r) ==
    LET w == worker[r] IN
    /\ w.at \in {"batch", "pool"} => \A s \in Section :
           w.phase[s] \in {"running", "complete"} /\ template.needs[s] # None
               => w.phase[template.needs[s]] = "complete"
    /\ w.at \in {"batch", "pool"} => \A s \in w.batch :
           template.needs[s] # None => w.phase[template.needs[s]] \in Ended
    /\ w.at \in {"batch", "pool"} => \A s \in Section :
           /\ w.phase[s] = "new"
           /\ template.needs[s] # None => w.phase[template.needs[s]] \in Ended
           => s \in w.batch \/ template.needs[s] \in w.batch

\* At the end, what has not run needs something that has not run.
RestIsStuck(r) ==
    worker[r].at = "final" => \A s \in Section :
        worker[r].phase[s] = "new" =>
            template.needs[s] \in Section /\ worker[r].phase[template.needs[s]] = "new"

\* The row has not ended before its worker does.
RowWaits(r) ==
    LET w == worker[r] IN
    /\ w.at \in {"new", "shell"} => row[r].status = "none"
    /\ w.at \in {"anchor", "mark", "begin", "agent"} => row[r].status \in {"none", "pending"}
    /\ w.at \in Alive \ {"idle"} => row[r].status \notin {"complete", "error"}
    /\ w.at = "shell" => w.record.status = "pending"

Done(x) ==
    \A s \in Section : /\ x.part[s].status # "pending"
                       /\ x.part[s].status = "unlisted" => s \in Circular

\* An edit starts from a report that is done, and its row has the content.
EditKept(r) ==
    IsEdit(r) =>
        /\ Done(worker[r].parent)
        /\ worker[r].record.part = worker[r].parent.part
        /\ worker[r].at \in Alive \ {"shell"} /\ row[r].status # "none" =>
               \A s \in Section : worker[r].parent.part[s].text # NoReport
                                      => row[r].part[s].text # NoReport

RowDone(r) == row[r].status = "complete" => Done(row[r])

Good(r) ==
    /\ Sited(r) /\ PhaseFits(r) /\ Ordered(r) /\ RestIsStuck(r)
    /\ RowWaits(r) /\ EditKept(r) /\ RowDone(r)

\* A worker that counts as alone is, and its row is fresh.
AloneHolds ==
    \A r \in Report : Busy(r) /\ worker[r].alone =>
        /\ Others(r) = {}
        /\ Started(r) => activity.status = "running" /\ activity.fresh

IInv == TypeOK /\ (\A r \in Report : Good(r)) /\ AloneHolds

-----------------------------------------------------------------------------
(* How a worker moves                                                      *)

\* Others stay where they are.
OthersStay(r) == \A q \in Report \ {r} : worker'[q] = worker[q]

Spots == {"new", "over", "lost"} \cup Alive

\* Only fields named in the action change.
Lands(r, at, record, batch, phase) ==
    /\ worker' \in [Report -> Worker] /\ OthersStay(r)
    /\ worker'[r].at = at /\ worker'[r].record = record
    /\ worker'[r].parent = worker[r].parent
    /\ worker'[r].batch = batch /\ worker'[r].phase = phase

LEMMA Land ==
    ASSUME worker \in [Report -> Worker], NEW r \in Report, NEW l \in Worker,
           worker' = [worker EXCEPT ![r] = l], l.parent = worker[r].parent
    PROVE  Lands(r, l.at, l.record, l.batch, l.phase) /\ worker'[r] = l
BY DEF Lands, OthersStay

LEMMA Fields ==
    ASSUME worker \in [Report -> Worker], NEW r \in Report
    PROVE  /\ worker[r] \in Worker
           /\ worker[r].at \in Spots /\ worker[r].record \in Row /\ worker[r].parent \in Row
           /\ worker[r].batch \in SUBSET Section /\ worker[r].phase \in [Section -> Phase]
           /\ worker[r].alone \in BOOLEAN
<1>1. worker[r] \in Worker
  OBVIOUS
<1> QED
  BY <1>1 DEF Worker, Spots

LEMMA ToLands ==
    ASSUME worker \in [Report -> Worker], NEW r \in Report, NEW at \in Spots, To(r, at)
    PROVE  /\ Lands(r, at, worker[r].record, worker[r].batch, worker[r].phase)
           /\ worker'[r].alone = worker[r].alone
<1> DEFINE l == [worker[r] EXCEPT !.at = at]
<1>1. worker[r] \in Worker
  OBVIOUS
<1>2. worker' = [worker EXCEPT ![r] = l]
  BY DEF To
<1>3. /\ l \in Worker /\ l.at = at /\ l.record = worker[r].record /\ l.parent = worker[r].parent
      /\ l.batch = worker[r].batch /\ l.phase = worker[r].phase /\ l.alone = worker[r].alone
  BY <1>1 DEF Worker, Spots
<1> HIDE DEF l
<1>4. Lands(r, l.at, l.record, l.batch, l.phase) /\ worker'[r] = l
  BY <1>2, <1>3, Land
<1> QED
  BY <1>3, <1>4

LEMMA StartLands ==
    ASSUME worker \in [Report -> Worker], NEW r \in Report, StartWorker(r)
    PROVE  /\ Lands(r, IF IsEdit(r) THEN "agent" ELSE "begin",
                    worker[r].record, worker[r].batch, worker[r].phase)
           /\ worker'[r].alone => worker[r].alone /\ faults' = faults
<1> DEFINE at == IF IsEdit(r) THEN "agent" ELSE "begin"
           alone == worker[r].alone /\ faults' = faults
           l == [worker[r] EXCEPT !.at = at, !.alone = alone]
<1>1. worker[r] \in Worker
  OBVIOUS
<1>2. worker' = [worker EXCEPT ![r] = l]
  BY DEF StartWorker
<1>3. at \in Spots
  BY DEF Spots, Alive
<1>4. alone \in BOOLEAN
  OBVIOUS
<1> HIDE DEF at, alone
<1>5. /\ l \in Worker /\ l.at = at /\ l.record = worker[r].record /\ l.parent = worker[r].parent
      /\ l.batch = worker[r].batch /\ l.phase = worker[r].phase /\ l.alone = alone
  BY <1>1, <1>3, <1>4 DEF Worker, Spots
<1> HIDE DEF l
<1>6. Lands(r, l.at, l.record, l.batch, l.phase) /\ worker'[r] = l
  BY <1>2, <1>5, Land
<1>7. worker'[r].alone = alone
  BY <1>5, <1>6
<1> QED
  BY <1>5, <1>6, <1>7 DEF at, alone

LEMMA PhaseLands ==
    ASSUME worker \in [Report -> Worker], NEW r \in Report, NEW s \in Section, NEW p \in Phase,
           worker' = [worker EXCEPT ![r].phase[s] = p]
    PROVE  /\ Lands(r, worker[r].at, worker[r].record, worker[r].batch,
                    [worker[r].phase EXCEPT ![s] = p])
           /\ worker'[r].alone = worker[r].alone
<1> DEFINE phase == [worker[r].phase EXCEPT ![s] = p]
           l == [worker[r] EXCEPT !.phase = phase]
<1>1. worker[r] \in Worker
  OBVIOUS
<1>2. worker' = [worker EXCEPT ![r] = l]
  OBVIOUS
<1>3. phase \in [Section -> Phase]
  BY <1>1 DEF Worker
<1> HIDE DEF phase
<1>4. /\ l \in Worker /\ l.at = worker[r].at /\ l.record = worker[r].record
      /\ l.parent = worker[r].parent
      /\ l.batch = worker[r].batch /\ l.phase = phase /\ l.alone = worker[r].alone
  BY <1>1, <1>3 DEF Worker
<1> HIDE DEF l
<1>5. Lands(r, l.at, l.record, l.batch, l.phase) /\ worker'[r] = l
  BY <1>2, <1>4, Land
<1> QED
  BY <1>4, <1>5 DEF phase

LEMMA BeginLands ==
    ASSUME worker \in [Report -> Worker], NEW r \in Report, Begin(r)
    PROVE  /\ Lands(r, "batch", [worker[r].record EXCEPT !.status = "in_progress"],
                    FirstBatch, worker[r].phase)
           /\ worker'[r].alone = worker[r].alone
<1> DEFINE record == [worker[r].record EXCEPT !.status = "in_progress"]
           l == [worker[r] EXCEPT !.at = "batch", !.record = record, !.batch = FirstBatch]
<1>1. worker[r] \in Worker
  OBVIOUS
<1>2. worker' = [worker EXCEPT ![r] = l]
  BY DEF Begin
<1>3. record \in Row
  BY <1>1 DEF Worker, Row
<1>4. FirstBatch \in SUBSET Section
  BY DEF FirstBatch
<1> HIDE DEF record
<1>5. /\ l \in Worker /\ l.at = "batch" /\ l.record = record /\ l.parent = worker[r].parent
      /\ l.batch = FirstBatch /\ l.phase = worker[r].phase /\ l.alone = worker[r].alone
  BY <1>1, <1>3, <1>4 DEF Worker, Alive
<1> HIDE DEF l
<1>6. Lands(r, l.at, l.record, l.batch, l.phase) /\ worker'[r] = l
  BY <1>2, <1>5, Land
<1> QED
  BY <1>5, <1>6 DEF record

\* The phases when a batch has been given to the pool.
Pooled(r) == [s \in Section |->
    IF s \in worker[r].batch /\ worker[r].phase[s] = "new" THEN "running" ELSE worker[r].phase[s]]

LEMMA SubmitLands ==
    ASSUME worker \in [Report -> Worker], NEW r \in Report, Submit(r), worker[r].batch # {}
    PROVE  /\ Lands(r, "pool", worker[r].record, worker[r].batch, Pooled(r))
           /\ worker'[r].alone => worker[r].alone /\ faults' = faults
<1> DEFINE alone == worker[r].alone /\ faults' = faults
           l == [worker[r] EXCEPT !.at = "pool", !.phase = Pooled(r), !.alone = alone]
<1>1. worker[r] \in Worker
  OBVIOUS
<1>2. worker' = [worker EXCEPT ![r] = l]
  BY DEF Submit, Pooled
<1>3. Pooled(r) \in [Section -> Phase]
  BY <1>1 DEF Pooled, Worker, Phase
<1>4. alone \in BOOLEAN
  OBVIOUS
<1> HIDE DEF alone
<1>5. /\ l \in Worker /\ l.at = "pool" /\ l.record = worker[r].record
      /\ l.parent = worker[r].parent
      /\ l.batch = worker[r].batch /\ l.phase = Pooled(r) /\ l.alone = alone
  BY <1>1, <1>3, <1>4 DEF Worker, Alive
<1> HIDE DEF l
<1>6. Lands(r, l.at, l.record, l.batch, l.phase) /\ worker'[r] = l
  BY <1>2, <1>5, Land
<1>7. worker'[r].alone = alone
  BY <1>5, <1>6
<1> QED
  BY <1>5, <1>6, <1>7 DEF alone

LEMMA NextLands ==
    ASSUME worker \in [Report -> Worker], NEW r \in Report, NextBatch(r)
    PROVE  /\ Lands(r, "batch", worker[r].record, BatchAfter(worker[r].batch), worker[r].phase)
           /\ worker'[r].alone = worker[r].alone
<1> DEFINE batch == BatchAfter(worker[r].batch)
           l == [worker[r] EXCEPT !.at = "batch", !.batch = batch]
<1>1. worker[r] \in Worker
  OBVIOUS
<1>2. worker' = [worker EXCEPT ![r] = l]
  BY DEF NextBatch
<1>3. batch \in SUBSET Section
  BY DEF BatchAfter
<1> HIDE DEF batch
<1>4. /\ l \in Worker /\ l.at = "batch" /\ l.record = worker[r].record
      /\ l.parent = worker[r].parent
      /\ l.batch = batch /\ l.phase = worker[r].phase /\ l.alone = worker[r].alone
  BY <1>1, <1>3 DEF Worker, Alive
<1> HIDE DEF l
<1>5. Lands(r, l.at, l.record, l.batch, l.phase) /\ worker'[r] = l
  BY <1>2, <1>4, Land
<1> QED
  BY <1>4, <1>5 DEF batch

LEMMA ReviseLands ==
    ASSUME worker \in [Report -> Worker], NEW r \in Report, Revise(r)
    PROVE  /\ \E at \in {"failure", "revise"}, phase \in [Section -> Phase] :
                  Lands(r, at, worker[r].record, worker[r].batch, phase)
           /\ worker'[r].alone = worker[r].alone
<1>1. worker[r] \in Worker
  OBVIOUS
<1>2. CASE To(r, "failure")
  BY <1>1, <1>2, ToLands DEF Spots, Alive, Worker
<1>3. ASSUME NEW new \in SUBSET Section,
             worker' = [worker EXCEPT ![r].at = "revise",
                ![r].phase = [s \in Section |-> IF s \in new THEN "anew" ELSE "new"]]
      PROVE  /\ \E phase \in [Section -> Phase] :
                    Lands(r, "revise", worker[r].record, worker[r].batch, phase)
             /\ worker'[r].alone = worker[r].alone
  <2> DEFINE phase == [s \in Section |-> IF s \in new THEN "anew" ELSE "new"]
             l == [worker[r] EXCEPT !.at = "revise", !.phase = phase]
  <2>1. worker' = [worker EXCEPT ![r] = l]
    BY <1>3
  <2>2. phase \in [Section -> Phase]
    BY DEF Phase
  <2> HIDE DEF phase
  <2>3. /\ l \in Worker /\ l.at = "revise" /\ l.record = worker[r].record
        /\ l.parent = worker[r].parent
        /\ l.batch = worker[r].batch /\ l.phase = phase /\ l.alone = worker[r].alone
    BY <1>1, <2>2 DEF Worker, Alive
  <2> HIDE DEF l
  <2>4. Lands(r, l.at, l.record, l.batch, l.phase) /\ worker'[r] = l
    BY <2>1, <2>3, Land
  <2> QED
    BY <2>2, <2>3, <2>4
<1> QED
  BY <1>2, <1>3 DEF Revise

LEMMA FailedLands ==
    ASSUME worker \in [Report -> Worker], NEW r \in Report, MarkFailed(r)
    PROVE  /\ Lands(r, "rescue", worker[r].record, worker[r].batch, worker[r].phase)
           /\ worker'[r].alone = FALSE
<1> DEFINE l == [worker[r] EXCEPT !.at = "rescue", !.alone = FALSE]
<1>1. worker[r] \in Worker
  OBVIOUS
<1>2. worker' = [worker EXCEPT ![r] = l]
  BY DEF MarkFailed
<1>3. /\ l \in Worker /\ l.at = "rescue" /\ l.record = worker[r].record
      /\ l.parent = worker[r].parent
      /\ l.batch = worker[r].batch /\ l.phase = worker[r].phase /\ l.alone = FALSE
  BY <1>1 DEF Worker, Alive
<1> HIDE DEF l
<1>4. Lands(r, l.at, l.record, l.batch, l.phase) /\ worker'[r] = l
  BY <1>2, <1>3, Land
<1> QED
  BY <1>3, <1>4

LEMMA NoRowTyped ==
    ASSUME ReportAssumption
    PROVE  NoRow \in Row /\ NoRow.status = "none" /\ NoRow.parent = NoReport
<1>1. Cardinality(Section) \in Nat
  BY FS_CardinalityType DEF ReportAssumption
<1>2. 0 \in 0..Cardinality(Section)
  BY <1>1, SMT
<1>3. [s \in Section |-> Pending] \in [Section -> Part]
  BY DEF Pending, Part, Status
<1> QED
  BY <1>2, <1>3 DEF NoRow, Row

LEMMA IdleTyped ==
    ASSUME ReportAssumption
    PROVE  /\ Idle \in Worker /\ Idle.at = "new" /\ Idle.record = NoRow
           /\ \A at \in Spots : /\ [Idle EXCEPT !.at = at] \in Worker
                                /\ [Idle EXCEPT !.at = at].at = at
                                /\ [Idle EXCEPT !.at = at].record = NoRow
<1>1. [s \in Section |-> "new"] \in [Section -> Phase]
  BY DEF Phase
<1>2. Idle \in Worker
  BY <1>1, NoRowTyped DEF Idle, Worker
<1>3. Idle.at = "new" /\ Idle.record = NoRow
  BY DEF Idle
<1> QED
  BY <1>2, <1>3 DEF Worker, Spots

LEMMA EndLands ==
    ASSUME ReportAssumption, worker \in [Report -> Worker], NEW r \in Report, EndWorker(r)
    PROVE  /\ worker' \in [Report -> Worker] /\ OthersStay(r)
           /\ worker'[r].at = "over" /\ worker'[r].record = NoRow
<1> DEFINE l == [Idle EXCEPT !.at = "over"]
<1>1. worker' = [worker EXCEPT ![r] = l]
  BY DEF EndWorker
<1>2. l \in Worker /\ l.at = "over" /\ l.record = NoRow
  BY IdleTyped DEF Spots
<1> HIDE DEF l
<1> QED
  BY <1>1, <1>2 DEF OthersStay

LEMMA EnterLands ==
    ASSUME ReportAssumption, worker \in [Report -> Worker], NEW r \in Report,
           NEW record \in Row, NEW parent \in Row, Enter(r, record, parent)
    PROVE  /\ worker' \in [Report -> Worker]
           /\ worker'[r].at = "shell" /\ worker'[r].record = record
           /\ worker'[r].parent = parent /\ worker'[r].batch = {}
           /\ worker'[r].phase = [s \in Section |-> "new"]
           /\ worker'[r].alone => Others(r) = {}
           /\ \A q \in Report \ {r} :
                  /\ worker'[q].at = worker[q].at /\ worker'[q].record = worker[q].record
                  /\ worker'[q].parent = worker[q].parent
                  /\ worker'[q].batch = worker[q].batch /\ worker'[q].phase = worker[q].phase
                  /\ worker'[q].alone => ~Busy(q)
<1> DEFINE alone == Others(r) = {}
           l == [Idle EXCEPT !.at = "shell", !.record = record, !.parent = parent,
                             !.alone = alone]
           m(q) == [worker[q] EXCEPT !.alone = @ /\ ~Busy(q)]
<1>1. worker' = [q \in Report |-> IF q = r THEN l ELSE m(q)]
  BY DEF Enter
<1>2. alone \in BOOLEAN
  OBVIOUS
<1>3. /\ l \in Worker /\ l.at = "shell" /\ l.record = record /\ l.parent = parent
      /\ l.batch = {} /\ l.phase = [s \in Section |-> "new"] /\ l.alone = alone
  <2> HIDE DEF alone
  <2>1. Idle \in Worker
    BY IdleTyped
  <2>2. "shell" \in Spots
    BY DEF Spots, Alive
  <2>3. l \in Worker
    BY <1>2, <2>1, <2>2 DEF Worker, Spots
  <2>4. /\ l.at = "shell" /\ l.record = record /\ l.parent = parent
        /\ l.batch = {} /\ l.phase = [s \in Section |-> "new"] /\ l.alone = alone
    BY DEF Idle
  <2> QED
    BY <2>3, <2>4
<1>4. ASSUME NEW q \in Report
      PROVE  /\ m(q) \in Worker /\ m(q).at = worker[q].at /\ m(q).record = worker[q].record
             /\ m(q).parent = worker[q].parent /\ m(q).batch = worker[q].batch
             /\ m(q).phase = worker[q].phase /\ (m(q).alone => ~Busy(q))
  <2> DEFINE b == worker[q].alone /\ ~Busy(q)
  <2>1. worker[q] \in Worker /\ m(q) = [worker[q] EXCEPT !.alone = b]
    OBVIOUS
  <2>2. b \in BOOLEAN /\ (b => ~Busy(q))
    OBVIOUS
  <2> HIDE DEF b, m
  <2>3. m(q) \in Worker /\ m(q).alone = b
    BY <2>1, <2>2 DEF Worker
  <2>4. /\ m(q).at = worker[q].at /\ m(q).record = worker[q].record
        /\ m(q).parent = worker[q].parent /\ m(q).batch = worker[q].batch
        /\ m(q).phase = worker[q].phase
    BY <2>1 DEF Worker
  <2> QED
    BY <2>2, <2>3, <2>4
<1> HIDE DEF l, m
<1>5. worker' \in [Report -> Worker]
  BY <1>1, <1>3, <1>4
<1>6. worker'[r] = l /\ \A q \in Report \ {r} : worker'[q] = m(q)
  BY <1>1
<1>7. \A q \in Report \ {r} :
        /\ worker'[q].at = worker[q].at /\ worker'[q].record = worker[q].record
        /\ worker'[q].parent = worker[q].parent
        /\ worker'[q].batch = worker[q].batch /\ worker'[q].phase = worker[q].phase
        /\ worker'[q].alone => ~Busy(q)
  BY <1>4, <1>6
<1>8. /\ worker'[r].at = "shell" /\ worker'[r].record = record
      /\ worker'[r].parent = parent /\ worker'[r].batch = {}
      /\ worker'[r].phase = [s \in Section |-> "new"]
      /\ worker'[r].alone => Others(r) = {}
  BY <1>3, <1>6 DEF alone
<1> QED
  BY <1>5, <1>7, <1>8

LEMMA CrashLands ==
    ASSUME ReportAssumption, worker \in [Report -> Worker], Crash
    PROVE  /\ worker' \in [Report -> Worker]
           /\ \A r \in Report :
                  \/ worker'[r].at = "lost" /\ worker'[r].record = NoRow
                  \/ worker'[r] = worker[r] /\ ~Busy(r)
<1> DEFINE l == [Idle EXCEPT !.at = "lost"]
<1>1. worker' = [r \in Report |-> IF Busy(r) THEN l ELSE worker[r]]
  BY DEF Crash
<1>2. l \in Worker /\ l.at = "lost" /\ l.record = NoRow
  BY IdleTyped DEF Spots
<1> HIDE DEF l
<1> QED
  BY <1>1, <1>2

-----------------------------------------------------------------------------
(* How a row is written                                                    *)

RowsStay(r) == \A q \in Report \ {r} : row'[q] = row[q]

LEMMA FaultCounts ==
    ASSUME ReportAssumption, TypeOK, Fails \/ UNCHANGED faults PROVE faults' \in 0..MaxFaults
BY SMT DEF ReportAssumption, TypeOK, Fails

LEMMA Saves ==
    ASSUME ReportAssumption, TypeOK, NEW r \in Report, NEW record \in Row, Save(r, record)
    PROVE  /\ row' \in [Report -> Row] /\ RowsStay(r)
           /\ row'[r] = record \/ row'[r] = row[r]
           /\ faults' \in 0..MaxFaults
<1>1. faults' \in 0..MaxFaults
  BY FaultCounts DEF Save, Works
<1>2. row \in [Report -> Row]
  BY DEF TypeOK
<1> QED
  BY <1>1, <1>2 DEF Save, RowsStay

\* A section that is written is in a row that exists and goes on.
Updated(r, s, part) ==
    \/ row'[r] = row[r]
    \/ /\ row[r].status # "none" /\ row'[r].status = "in_progress"
       /\ row'[r].part = [row[r].part EXCEPT ![s] = part]

LEMMA Updates ==
    ASSUME ReportAssumption, TypeOK, NEW r \in Report, NEW s \in Section, NEW part \in Part,
           NEW count \in 0..Cardinality(Section), Update(r, s, part, count)
    PROVE  /\ row' \in [Report -> Row] /\ RowsStay(r) /\ Updated(r, s, part)
           /\ faults' \in 0..MaxFaults
<1>1. faults' \in 0..MaxFaults
  BY FaultCounts DEF Update, Works
<1>2. row \in [Report -> Row] /\ row[r] \in Row
  BY DEF TypeOK
<1>3. CASE UNCHANGED row
  BY <1>1, <1>2, <1>3 DEF RowsStay, Updated
<1>4. CASE /\ row[r].status # "none"
           /\ row' = [row EXCEPT ![r].part[s] = part, ![r].count = count,
                                 ![r].status = "in_progress"]
  <2> DEFINE parts == [row[r].part EXCEPT ![s] = part]
             l == [row[r] EXCEPT !.part = parts, !.count = count, !.status = "in_progress"]
  <2>1. row' = [row EXCEPT ![r] = l]
    BY <1>4
  <2>2. parts \in [Section -> Part]
    BY <1>2 DEF Row
  <2> HIDE DEF parts
  <2>3. l \in Row /\ l.part = parts /\ l.status = "in_progress"
    BY <1>2, <2>2 DEF Row
  <2> HIDE DEF l
  <2>4. row' \in [Report -> Row] /\ RowsStay(r) /\ row'[r] = l
    BY <1>2, <2>1, <2>3 DEF RowsStay
  <2> QED
    BY <1>1, <1>4, <2>3, <2>4 DEF Updated, parts
<1> QED
  BY <1>3, <1>4 DEF Update

\* Counting one section more stays within their number.
LEMMA Counts ==
    ASSUME ReportAssumption, NEW w, NEW s \in Section, s \notin Recorded(w)
    PROVE  Cardinality(Recorded(w)) + 1 \in 0..Cardinality(Section)
<1>1. IsFiniteSet(Section) /\ Recorded(w) \cup {s} \subseteq Section
  BY DEF ReportAssumption, Recorded
<1>2. IsFiniteSet(Recorded(w)) /\ IsFiniteSet(Recorded(w) \cup {s})
  BY <1>1, FS_Subset
<1>3. Cardinality(Recorded(w) \cup {s}) <= Cardinality(Section)
  BY <1>1, FS_Subset
<1>4. Cardinality(Recorded(w) \cup {s}) = Cardinality(Recorded(w)) + 1
  BY <1>2, FS_AddElement
<1>5. Cardinality(Recorded(w)) \in Nat /\ Cardinality(Section) \in Nat
  BY <1>1, <1>2, FS_CardinalityType
<1> QED
  BY <1>3, <1>4, <1>5, SMT

-----------------------------------------------------------------------------
(* What an action keeps of the reports it is not about                     *)

LEMMA Needs ==
    ASSUME ReportAssumption, TypeOK, NEW s \in Section
    PROVE  template.needs[s] \in Section \cup {None} /\ None \notin Section
BY DEF ReportAssumption, TypeOK

LEMMA GoodStays ==
    ASSUME NEW q \in Report, Good(q), UNCHANGED template,
           worker'[q].at = worker[q].at, worker'[q].record = worker[q].record,
           worker'[q].parent = worker[q].parent, worker'[q].batch = worker[q].batch,
           worker'[q].phase = worker[q].phase,
           row'[q] = row[q] \/ row'[q].status = "none"
    PROVE  Good(q)'
<1>1. IsEdit(q)' = IsEdit(q) /\ Circular' = Circular
  BY DEF IsEdit, Circular
<1>2. Sited(q)' /\ PhaseFits(q)' /\ Ordered(q)' /\ RestIsStuck(q)'
  BY <1>1 DEF Good, Sited, PhaseFits, Ordered, RestIsStuck
<1>3. RowWaits(q)' /\ RowDone(q)'
  BY <1>1 DEF Good, RowWaits, RowDone, Done
<1>4. EditKept(q)'
  BY <1>1 DEF Good, EditKept, Done
<1> QED
  BY <1>2, <1>3, <1>4 DEF Good

\* A worker that is over, or lost, has no obligations left.
LEMMA GoodAtRest ==
    ASSUME NEW q \in Report, Good(q), UNCHANGED template, row'[q] = row[q],
           worker'[q].at \in {"over", "lost"}, worker'[q].record.parent = NoReport
    PROVE  Good(q)'
<1>1. Circular' = Circular /\ ~IsEdit(q)'
  BY DEF IsEdit, Circular
<1>2. RowDone(q)'
  BY <1>1 DEF Good, RowDone, Done
<1> QED
  BY <1>1, <1>2 DEF Good, Sited, PhaseFits, Ordered, RestIsStuck, RowWaits, EditKept, Alive

\* The other reports after a step of r's worker.
LEMMA OthersGood ==
    ASSUME NEW r \in Report, \A q \in Report : Good(q), UNCHANGED template,
           OthersStay(r), RowsStay(r), Good(r)'
    PROVE  \A q \in Report : Good(q)'
<1> SUFFICES ASSUME NEW q \in Report, q # r PROVE Good(q)'
  OBVIOUS
<1>1. worker'[q] = worker[q] /\ row'[q] = row[q]
  BY DEF OthersStay, RowsStay
<1> QED
  BY <1>1, GoodStays

-----------------------------------------------------------------------------
(* The request                                                             *)

Typed == TypeOK /\ \A r \in Report : Good(r)

\* What a step of r's worker has to be shown to do.
Kept(r) == TypeOK' /\ OthersStay(r) /\ RowsStay(r) /\ Good(r)' /\ UNCHANGED template

LEMMA ShellKeeps ==
    ASSUME ReportAssumption, Typed, NEW r \in Report, SaveShell(r) PROVE Kept(r)
<1>1. TypeOK /\ Good(r) /\ worker \in [Report -> Worker]
  BY DEF Typed, TypeOK
<1>2. worker[r].record \in Row
  BY <1>1, Fields
<1>3. Lands(r, "anchor", worker[r].record, worker[r].batch, worker[r].phase)
  BY <1>1, ToLands DEF SaveShell, Spots, Alive
<1>4. /\ row' \in [Report -> Row] /\ RowsStay(r) /\ faults' \in 0..MaxFaults
      /\ row'[r] = worker[r].record \/ row'[r] = row[r]
  BY <1>1, <1>2, Saves DEF SaveShell
<1>5. TypeOK'
  BY <1>1, <1>3, <1>4 DEF SaveShell, TypeOK, Lands, ActivityTypeOK
<1>6. worker[r].at = "shell" /\ UNCHANGED template
  BY DEF SaveShell
<1>7. IsEdit(r)' = IsEdit(r) /\ Circular' = Circular
  BY <1>3, <1>6 DEF IsEdit, Circular, Lands
<1>8. Sited(r)' /\ PhaseFits(r)' /\ Ordered(r)' /\ RestIsStuck(r)'
  BY <1>1, <1>3, <1>6 DEF Good, Sited, PhaseFits, Ordered, RestIsStuck, Lands
<1>9. row'[r].status \in {"none", "pending"}
  BY <1>1, <1>4, <1>6 DEF Good, RowWaits
<1>10. RowWaits(r)' /\ RowDone(r)'
  BY <1>3, <1>9 DEF RowWaits, RowDone, Lands, Alive
<1>11. EditKept(r)'
  BY <1>1, <1>3, <1>4, <1>6, <1>7 DEF Good, EditKept, Done, RowWaits, Lands
<1> QED
  BY <1>3, <1>4, <1>5, <1>6, <1>8, <1>10, <1>11 DEF Kept, Good, Lands

LEMMA AnchorKeeps ==
    ASSUME ReportAssumption, Typed, NEW r \in Report, SaveAnchor(r) PROVE Kept(r)
<1>1. TypeOK /\ Good(r) /\ worker \in [Report -> Worker]
  BY DEF Typed, TypeOK
<1>2. Lands(r, "mark", worker[r].record, worker[r].batch, worker[r].phase)
  BY <1>1, ToLands DEF SaveAnchor, Spots, Alive
<1>3. faults' \in 0..MaxFaults
  BY <1>1, FaultCounts DEF SaveAnchor, Works
<1>4. worker[r].at = "anchor" /\ UNCHANGED <<template, row>>
  BY DEF SaveAnchor
<1>5. TypeOK'
  BY <1>1, <1>2, <1>3 DEF SaveAnchor, TypeOK, Lands, ActivityTypeOK
<1>6. IsEdit(r)' = IsEdit(r) /\ Circular' = Circular
  BY <1>2, <1>4 DEF IsEdit, Circular, Lands
<1>7. Sited(r)' /\ PhaseFits(r)' /\ Ordered(r)' /\ RestIsStuck(r)'
  BY <1>1, <1>2, <1>4 DEF Good, Sited, PhaseFits, Ordered, RestIsStuck, Lands
<1>8. RowWaits(r)' /\ RowDone(r)'
  BY <1>1, <1>2, <1>4, <1>6 DEF Good, RowWaits, RowDone, Done, Lands, Alive
<1>9. EditKept(r)'
  BY <1>1, <1>2, <1>4, <1>6 DEF Good, EditKept, Done, Lands, Alive
<1> QED
  BY <1>2, <1>4, <1>5, <1>7, <1>8, <1>9 DEF Kept, Good, Lands, RowsStay

LEMMA ActivityTyped ==
    ASSUME TypeOK, NEW r \in Report,
           \/ MarkRunning(r) \/ UpdateStep \/ MarkIdle \/ MarkError \/ GoStale
           \/ UNCHANGED activity
    PROVE  ActivityTypeOK'
<1>1. activity \in [status : {"absent", "running", "idle", "error"},
                    run : Report \cup {NoReport}, fresh : BOOLEAN]
  BY DEF TypeOK, ActivityTypeOK, ActivityRow
<1>2. CASE MarkRunning(r)
  BY <1>2 DEF MarkRunning, ActivityTypeOK, ActivityRow
<1>3. CASE UpdateStep
  <2> DEFINE fresh == activity.fresh \/ activity.status = "running"
  <2>1. activity' = [activity EXCEPT !.fresh = fresh] /\ fresh \in BOOLEAN
    BY <1>3 DEF UpdateStep
  <2> HIDE DEF fresh
  <2> QED
    BY <1>1, <2>1 DEF ActivityTypeOK, ActivityRow
<1>4. CASE MarkIdle
  BY <1>1, <1>4 DEF MarkIdle, ActivityTypeOK, ActivityRow
<1>5. CASE MarkError
  BY <1>1, <1>5 DEF MarkError, ActivityTypeOK, ActivityRow
<1>6. CASE GoStale
  BY <1>1, <1>6 DEF GoStale, ActivityTypeOK, ActivityRow
<1>7. CASE UNCHANGED activity
  BY <1>1, <1>7 DEF ActivityTypeOK, ActivityRow
<1> QED
  BY <1>2, <1>3, <1>4, <1>5, <1>6, <1>7

LEMMA StartKeeps ==
    ASSUME ReportAssumption, Typed, NEW r \in Report, StartWorker(r) PROVE Kept(r)
<1>1. TypeOK /\ Good(r) /\ worker \in [Report -> Worker]
  BY DEF Typed, TypeOK
<1> DEFINE at == IF IsEdit(r) THEN "agent" ELSE "begin"
<1>2. Lands(r, at, worker[r].record, worker[r].batch, worker[r].phase)
  BY <1>1, StartLands
<1>3. faults' \in 0..MaxFaults
  BY <1>1, FaultCounts DEF StartWorker, Noted, Works
<1>4. worker[r].at = "mark" /\ UNCHANGED <<template, row, marked>>
  BY DEF StartWorker
<1>5. ActivityTypeOK'
  BY <1>1, ActivityTyped DEF StartWorker, Noted
<1>6. TypeOK'
  BY <1>1, <1>2, <1>3, <1>4, <1>5 DEF TypeOK, Lands
<1>7. IsEdit(r)' = IsEdit(r) /\ Circular' = Circular
  BY <1>2, <1>4 DEF IsEdit, Circular, Lands
<1>8. Sited(r)' /\ PhaseFits(r)' /\ Ordered(r)' /\ RestIsStuck(r)'
  BY <1>1, <1>2, <1>4, <1>7 DEF Good, Sited, PhaseFits, Ordered, RestIsStuck, Lands
<1>9. RowWaits(r)' /\ RowDone(r)'
  BY <1>1, <1>2, <1>4, <1>7 DEF Good, RowWaits, RowDone, Done, Lands, Alive
<1>10. EditKept(r)'
  BY <1>1, <1>2, <1>4, <1>7 DEF Good, EditKept, Done, Lands, Alive
<1> QED
  BY <1>2, <1>4, <1>6, <1>8, <1>9, <1>10 DEF Kept, Good, Lands, RowsStay

-----------------------------------------------------------------------------
(* The worker of a template                                                *)

LEMMA BeginKeeps ==
    ASSUME ReportAssumption, Typed, NEW r \in Report, Begin(r) PROVE Kept(r)
<1>1. TypeOK /\ Good(r) /\ worker \in [Report -> Worker]
  BY DEF Typed, TypeOK
<1> DEFINE record == [worker[r].record EXCEPT !.status = "in_progress"]
<1>2. worker[r].record \in Row
  BY <1>1, Fields
<1>3. /\ record \in Row /\ record.status = "in_progress"
      /\ record.parent = worker[r].record.parent
  BY <1>2 DEF Row
<1>4. Save(r, record)
  BY DEF Begin
<1>5. Lands(r, "batch", record, FirstBatch, worker[r].phase)
  BY <1>1, BeginLands
<1> HIDE DEF record
<1>6. /\ row' \in [Report -> Row] /\ RowsStay(r) /\ faults' \in 0..MaxFaults
      /\ row'[r] = record \/ row'[r] = row[r]
  BY <1>1, <1>3, <1>4, Saves
<1>7. worker[r].at = "begin" /\ UNCHANGED <<template, marked, activity>>
  BY DEF Begin
<1>8. TypeOK'
  BY <1>1, <1>5, <1>6, <1>7 DEF TypeOK, Lands, ActivityTypeOK
<1>9. ~IsEdit(r)'
  BY <1>1, <1>3, <1>5, <1>7 DEF Good, Sited, IsEdit, Lands
<1>10. \A s \in Section : worker[r].phase[s] = "new"
  BY <1>1, <1>7 DEF Good, PhaseFits
<1>11. Ordered(r)'
  <2>1. \A s \in FirstBatch : template.needs[s] = None
    BY DEF FirstBatch
  <2>2. \A s \in Section : template.needs[s] # None => worker[r].phase[template.needs[s]] = "new"
    BY <1>1, <1>10, Needs
  <2>3. \A s \in Section : template.needs[s] = None => s \in FirstBatch
    BY DEF FirstBatch
  <2> QED
    BY <1>5, <1>7, <1>10, <2>1, <2>2, <2>3 DEF Ordered, Lands, Ended
<1>12. Sited(r)' /\ PhaseFits(r)' /\ RestIsStuck(r)' /\ EditKept(r)'
  BY <1>5, <1>9, <1>10 DEF Sited, PhaseFits, RestIsStuck, EditKept, Lands
<1>13. RowWaits(r)' /\ RowDone(r)'
  BY <1>1, <1>3, <1>5, <1>6, <1>7 DEF Good, RowWaits, RowDone, Lands, Alive
<1> QED
  BY <1>5, <1>6, <1>7, <1>8, <1>11, <1>12, <1>13 DEF Kept, Good, Lands

\* What the row may become while the sections of a template run.
LEMMA RunningRow ==
    ASSUME NEW r \in Report, Good(r), worker[r].at \in {"batch", "pool"},
           worker'[r].at \in {"batch", "pool"}, worker'[r].record = worker[r].record,
           row'[r] = row[r] \/ row'[r].status = "in_progress"
    PROVE  RowWaits(r)' /\ RowDone(r)' /\ EditKept(r)' /\ Sited(r)'
<1>1. ~IsEdit(r) /\ ~IsEdit(r)' /\ row[r].status \notin {"complete", "error"}
  BY DEF Good, Sited, IsEdit, RowWaits, Alive
<1> QED
  BY <1>1 DEF RowWaits, RowDone, EditKept, Sited

LEMMA SkipKeeps ==
    ASSUME ReportAssumption, Typed, NEW r \in Report, NEW s \in Section, Skip(r, s)
    PROVE  Kept(r)
<1>1. TypeOK /\ Good(r) /\ worker \in [Report -> Worker]
  BY DEF Typed, TypeOK
<1> DEFINE phase == [worker[r].phase EXCEPT ![s] = "skipped"]
           part == [status |-> "skipped", text |-> NoReport]
           count == Cardinality(Recorded(worker[r])) + 1
<1>2. Lands(r, worker[r].at, worker[r].record, worker[r].batch, phase)
  BY <1>1, PhaseLands DEF Skip, Phase
<1>3. /\ worker[r].at = "batch" /\ s \in worker[r].batch /\ worker[r].phase[s] = "new"
      /\ UNCHANGED <<template, marked, activity>>
  BY DEF Skip, ToSkip
<1>4. worker[r].phase \in [Section -> Phase]
  BY <1>1, Fields
<1>5. phase[s] = "skipped" /\ \A t \in Section : t # s => phase[t] = worker[r].phase[t]
  BY <1>4
<1>6. count \in 0..Cardinality(Section) /\ part \in Part
  BY <1>3, Counts DEF Recorded, Part, Status
<1>7. Update(r, s, part, count)
  BY DEF Skip
<1> HIDE DEF phase, part, count
<1>8. /\ row' \in [Report -> Row] /\ RowsStay(r) /\ faults' \in 0..MaxFaults
      /\ row'[r] = row[r] \/ row'[r].status = "in_progress"
  BY <1>1, <1>6, <1>7, Updates DEF Updated
<1>9. TypeOK'
  BY <1>1, <1>2, <1>3, <1>8 DEF TypeOK, Lands, ActivityTypeOK
<1>10. PhaseFits(r)' /\ RestIsStuck(r)'
  BY <1>1, <1>2, <1>3, <1>5 DEF Good, PhaseFits, RestIsStuck, Lands
<1>11. Ordered(r)'
  <2> DEFINE w == worker[r]
  <2>1. \A t \in Section : template.needs[t] # None => template.needs[t] \in Section
    BY <1>1, Needs
  <2>2. \A t \in Section :
            phase[t] \in {"running", "complete"} /\ template.needs[t] # None
                => phase[template.needs[t]] = "complete"
    BY <1>1, <1>3, <1>5, <2>1 DEF Good, Ordered
  <2>3. \A t \in w.batch : template.needs[t] # None => phase[template.needs[t]] \in Ended
    BY <1>1, <1>3, <1>5, <2>1, Fields DEF Good, Ordered, Ended
  <2>4. \A t \in Section :
            /\ phase[t] = "new"
            /\ template.needs[t] # None => phase[template.needs[t]] \in Ended
            => t \in w.batch \/ template.needs[t] \in w.batch
    BY <1>1, <1>3, <1>5, <2>1 DEF Good, Ordered
  <2> QED
    BY <1>2, <1>3, <2>2, <2>3, <2>4 DEF Ordered, Lands
<1>12. RowWaits(r)' /\ RowDone(r)' /\ EditKept(r)' /\ Sited(r)'
  BY <1>1, <1>2, <1>3, <1>8, RunningRow DEF Lands
<1> QED
  BY <1>2, <1>3, <1>8, <1>9, <1>10, <1>11, <1>12 DEF Kept, Good, Lands

LEMMA SubmitKeeps ==
    ASSUME ReportAssumption, Typed, NEW r \in Report, Submit(r) PROVE Kept(r)
<1>1. TypeOK /\ Good(r) /\ worker \in [Report -> Worker]
  BY DEF Typed, TypeOK
<1>2. /\ worker[r].at = "batch" /\ ToSkip(r) = {} /\ UNCHANGED <<template, row, marked>>
      /\ faults' \in 0..MaxFaults
  BY <1>1, FaultCounts DEF Submit, Noted, Works
<1>3. ActivityTypeOK'
  BY <1>1, ActivityTyped DEF Submit, Noted
<1>4. worker[r].phase \in [Section -> Phase] /\ worker[r].batch \in SUBSET Section
  BY <1>1, Fields
<1>5. CASE worker[r].batch = {}
  <2>1. Lands(r, "final", worker[r].record, worker[r].batch, worker[r].phase)
    BY <1>1, <1>5, ToLands DEF Submit, Spots, Alive
  <2>2. TypeOK'
    BY <1>1, <1>2, <1>3, <2>1 DEF TypeOK, Lands
  <2>3. IsEdit(r)' = IsEdit(r) /\ Circular' = Circular /\ ~IsEdit(r)
    BY <1>1, <1>2, <2>1 DEF IsEdit, Circular, Lands, Good, Sited
  <2>4. Sited(r)' /\ PhaseFits(r)' /\ Ordered(r)'
    BY <1>1, <1>2, <2>1, <2>3 DEF Good, Sited, PhaseFits, Ordered, Lands
  <2>5. RestIsStuck(r)'
    <3>1. ASSUME NEW s \in Section, worker[r].phase[s] = "new"
          PROVE  template.needs[s] \in Section /\ worker[r].phase[template.needs[s]] = "new"
      <4>1. template.needs[s] # None /\ worker[r].phase[template.needs[s]] \notin Ended
        BY <1>1, <1>2, <1>5, <3>1 DEF Good, Ordered
      <4>2. template.needs[s] \in Section
        BY <1>1, <4>1, Needs
      <4>3. worker[r].phase[template.needs[s]] \in Phase \ {"anew", "running"}
        BY <1>1, <1>2, <1>4, <4>2 DEF Good, PhaseFits
      <4> QED
        BY <4>1, <4>2, <4>3 DEF Phase, Ended
    <3> QED
      BY <1>2, <2>1, <3>1 DEF RestIsStuck, Lands
  <2>6. RowWaits(r)' /\ RowDone(r)' /\ EditKept(r)'
    BY <1>1, <1>2, <2>1, <2>3 DEF Good, RowWaits, RowDone, Done, EditKept, Lands, Alive
  <2> QED
    BY <1>2, <2>1, <2>2, <2>4, <2>5, <2>6 DEF Kept, Good, Lands, RowsStay
<1>6. CASE worker[r].batch # {}
  <2>1. Lands(r, "pool", worker[r].record, worker[r].batch, Pooled(r))
    BY <1>1, <1>6, SubmitLands
  <2>2. TypeOK'
    BY <1>1, <1>2, <1>3, <2>1 DEF TypeOK, Lands
  <2>3. RowWaits(r)' /\ RowDone(r)' /\ EditKept(r)' /\ Sited(r)'
    BY <1>1, <1>2, <2>1, RunningRow DEF Lands
  <2>4. \A s \in Section :
            /\ \/ Pooled(r)[s] = worker[r].phase[s]
               \/ /\ s \in worker[r].batch /\ worker[r].phase[s] = "new"
                  /\ Pooled(r)[s] = "running"
            /\ Pooled(r)[s] = "new" => worker[r].phase[s] = "new" /\ s \notin worker[r].batch
    BY DEF Pooled
  <2>5. PhaseFits(r)' /\ RestIsStuck(r)'
    BY <1>1, <1>2, <1>4, <2>1, <2>4 DEF Good, PhaseFits, RestIsStuck, Lands
  <2>6. Ordered(r)'
    <3>1. \A s \in Section : template.needs[s] # None => template.needs[s] \in Section
      BY <1>1, Needs
    <3>2. \A s \in Section : worker[r].phase[s] \in Ended => Pooled(r)[s] = worker[r].phase[s]
      BY <2>4 DEF Ended
    <3>3. \A s \in Section : Pooled(r)[s] \in Ended => worker[r].phase[s] \in Ended
      BY <2>4 DEF Ended
    <3>4. \A s \in Section :
              Pooled(r)[s] \in {"running", "complete"} /\ template.needs[s] # None
                  => Pooled(r)[template.needs[s]] = "complete"
      <4> SUFFICES ASSUME NEW s \in Section, template.needs[s] # None,
                          Pooled(r)[s] \in {"running", "complete"}
                   PROVE  Pooled(r)[template.needs[s]] = "complete"
        OBVIOUS
      <4>1. CASE Pooled(r)[s] = worker[r].phase[s]
        BY <1>1, <1>2, <3>1, <3>2, <4>1 DEF Good, Ordered, Ended
      <4>2. CASE s \in worker[r].batch /\ worker[r].phase[s] = "new"
        <5>1. worker[r].phase[template.needs[s]] \in Ended
          BY <1>1, <1>2, <4>2 DEF Good, Ordered
        <5>2. ~Blocked(worker[r], s)
          BY <1>2, <4>2 DEF ToSkip
        <5> QED
          BY <3>1, <3>2, <5>1, <5>2 DEF Blocked, Ended
      <4> QED
        BY <2>4, <4>1, <4>2
    <3>5. \A s \in worker[r].batch :
              template.needs[s] # None => Pooled(r)[template.needs[s]] \in Ended
      BY <1>1, <1>2, <1>4, <3>1, <3>2 DEF Good, Ordered
    <3>6. \A s \in Section :
              /\ Pooled(r)[s] = "new"
              /\ template.needs[s] # None => Pooled(r)[template.needs[s]] \in Ended
              => s \in worker[r].batch \/ template.needs[s] \in worker[r].batch
      BY <1>1, <1>2, <2>4, <3>1, <3>3 DEF Good, Ordered
    <3> QED
      BY <1>2, <2>1, <3>4, <3>5, <3>6 DEF Ordered, Lands
  <2> QED
    BY <1>2, <2>1, <2>2, <2>3, <2>5, <2>6 DEF Kept, Good, Lands, RowsStay
<1> QED
  BY <1>5, <1>6

LEMMA CollectKeeps ==
    ASSUME ReportAssumption, Typed, NEW r \in Report, NEW s \in Section, Collect(r, s)
    PROVE  Kept(r)
<1>1. TypeOK /\ Good(r) /\ worker \in [Report -> Worker]
  BY DEF Typed, TypeOK
<1>2. PICK result \in {"complete", "error"} :
          /\ worker' = [worker EXCEPT ![r].phase[s] = result]
          /\ Update(r, s, [status |-> result,
                           text |-> IF result = "complete" THEN r ELSE NoReport],
                    Cardinality(Recorded(worker[r])) + 1)
  BY DEF Collect
<1> DEFINE phase == [worker[r].phase EXCEPT ![s] = result]
           part == [status |-> result, text |-> IF result = "complete" THEN r ELSE NoReport]
           count == Cardinality(Recorded(worker[r])) + 1
<1>3. Lands(r, worker[r].at, worker[r].record, worker[r].batch, phase)
  BY <1>1, <1>2, PhaseLands DEF Phase
<1>4. /\ worker[r].at = "pool" /\ worker[r].phase[s] = "running"
      /\ UNCHANGED <<template, marked, activity>>
  BY DEF Collect
<1>5. worker[r].phase \in [Section -> Phase]
  BY <1>1, Fields
<1>6. phase[s] = result /\ \A t \in Section : t # s => phase[t] = worker[r].phase[t]
  BY <1>5
<1>7. count \in 0..Cardinality(Section) /\ part \in Part
  BY <1>4, Counts DEF Recorded, Part, Status
<1>8. Update(r, s, part, count)
  BY <1>2
<1> HIDE DEF phase, part, count
<1>9. /\ row' \in [Report -> Row] /\ RowsStay(r) /\ faults' \in 0..MaxFaults
      /\ row'[r] = row[r] \/ row'[r].status = "in_progress"
  BY <1>1, <1>7, <1>8, Updates DEF Updated
<1>10. TypeOK'
  BY <1>1, <1>3, <1>4, <1>9 DEF TypeOK, Lands, ActivityTypeOK
<1>11. PhaseFits(r)' /\ RestIsStuck(r)'
  BY <1>1, <1>3, <1>4, <1>6 DEF Good, PhaseFits, RestIsStuck, Lands
<1>12. Ordered(r)'
  <2> DEFINE w == worker[r]
  <2>1. \A t \in Section : template.needs[t] # None => template.needs[t] \in Section
    BY <1>1, Needs
  <2>2. \A t \in Section :
            phase[t] \in {"running", "complete"} /\ template.needs[t] # None
                => phase[template.needs[t]] = "complete"
    BY <1>1, <1>4, <1>6, <2>1 DEF Good, Ordered
  <2>3. \A t \in w.batch : template.needs[t] # None => phase[template.needs[t]] \in Ended
    BY <1>1, <1>4, <1>5, <1>6, <2>1, Fields DEF Good, Ordered, Ended
  <2>4. \A t \in Section :
            /\ phase[t] = "new"
            /\ template.needs[t] # None => phase[template.needs[t]] \in Ended
            => t \in w.batch \/ template.needs[t] \in w.batch
    <3> SUFFICES ASSUME NEW t \in Section, phase[t] = "new",
                        template.needs[t] # None => phase[template.needs[t]] \in Ended
                 PROVE  t \in w.batch \/ template.needs[t] \in w.batch
      OBVIOUS
    <3>1. CASE template.needs[t] = s
      BY <1>1, <1>4, <3>1 DEF Good, PhaseFits
    <3>2. CASE template.needs[t] # s
      BY <1>1, <1>4, <1>6, <2>1, <3>2 DEF Good, Ordered
    <3> QED
      BY <3>1, <3>2
  <2> QED
    BY <1>3, <1>4, <2>2, <2>3, <2>4 DEF Ordered, Lands
<1>13. RowWaits(r)' /\ RowDone(r)' /\ EditKept(r)' /\ Sited(r)'
  BY <1>1, <1>3, <1>4, <1>9, RunningRow DEF Lands
<1> QED
  BY <1>3, <1>4, <1>9, <1>10, <1>11, <1>12, <1>13 DEF Kept, Good, Lands

LEMMA NextBatchKeeps ==
    ASSUME ReportAssumption, Typed, NEW r \in Report, NextBatch(r) PROVE Kept(r)
<1>1. TypeOK /\ Good(r) /\ worker \in [Report -> Worker]
  BY DEF Typed, TypeOK
<1> DEFINE batch == BatchAfter(worker[r].batch)
<1>2. Lands(r, "batch", worker[r].record, batch, worker[r].phase)
  BY <1>1, NextLands
<1>3. /\ worker[r].at = "pool" /\ UNCHANGED <<template, row, marked, activity, faults>>
      /\ \A s \in Section : worker[r].phase[s] # "running"
  BY DEF NextBatch
<1>4. \A s \in Section : s \in batch <=> template.needs[s] \in worker[r].batch
  BY DEF BatchAfter
<1>5. batch \subseteq Section /\ worker[r].batch \subseteq Section
      /\ worker[r].phase \in [Section -> Phase]
  BY <1>1, Fields DEF BatchAfter
<1> HIDE DEF batch
<1>6. TypeOK'
  BY <1>1, <1>2, <1>3 DEF TypeOK, Lands, ActivityTypeOK
<1>7. PhaseFits(r)' /\ RestIsStuck(r)'
  BY <1>1, <1>2, <1>3 DEF Good, PhaseFits, RestIsStuck, Lands
<1>8. \A s \in worker[r].batch : worker[r].phase[s] \in Ended
  BY <1>1, <1>3, <1>5 DEF Good, PhaseFits, Phase, Ended
<1>9. Ordered(r)'
  <2>1. \A s \in Section :
            worker[r].phase[s] \in {"running", "complete"} /\ template.needs[s] # None
                => worker[r].phase[template.needs[s]] = "complete"
    BY <1>1, <1>3 DEF Good, Ordered
  <2>2. \A s \in batch : worker[r].phase[template.needs[s]] \in Ended
    BY <1>4, <1>5, <1>8
  <2>3. \A s \in Section :
            /\ worker[r].phase[s] = "new"
            /\ template.needs[s] # None => worker[r].phase[template.needs[s]] \in Ended
            => s \in batch
    BY <1>1, <1>3, <1>4 DEF Good, Ordered, PhaseFits
  <2> QED
    BY <1>2, <1>3, <2>1, <2>2, <2>3 DEF Ordered, Lands
<1>10. RowWaits(r)' /\ RowDone(r)' /\ EditKept(r)' /\ Sited(r)'
  BY <1>1, <1>2, <1>3, RunningRow DEF Lands
<1> QED
  BY <1>2, <1>3, <1>6, <1>7, <1>9, <1>10 DEF Kept, Good, Lands, RowsStay

\* A step to failure, with nothing written.
LEMMA FailureKeeps ==
    ASSUME ReportAssumption, Typed, NEW r \in Report, NEW at \in {"failure", "rescue"},
           worker[r].at \in Alive \ {"shell", "idle"},
           Lands(r, at, worker[r].record, worker[r].batch, worker'[r].phase),
           ActivityTypeOK', faults' \in 0..MaxFaults, UNCHANGED <<template, row, marked>>
    PROVE  Kept(r)
<1>1. TypeOK /\ Good(r)
  BY DEF Typed
<1>2. IsEdit(r)' = IsEdit(r) /\ Circular' = Circular
  BY DEF IsEdit, Circular, Lands
<1>3. TypeOK'
  BY <1>1 DEF TypeOK, Lands
<1>4. Sited(r)' /\ PhaseFits(r)' /\ Ordered(r)' /\ RestIsStuck(r)'
  BY DEF Sited, PhaseFits, Ordered, RestIsStuck, Lands
<1>5. RowWaits(r)' /\ RowDone(r)'
  BY <1>1, <1>2 DEF Good, RowWaits, RowDone, Done, Lands
<1>6. EditKept(r)'
  BY <1>1, <1>2 DEF Good, EditKept, Done, Lands
<1> QED
  BY <1>3, <1>4, <1>5, <1>6 DEF Kept, Good, Lands, RowsStay

LEMMA GiveUpKeeps ==
    ASSUME ReportAssumption, Typed, NEW r \in Report, NEW s \in Section, GiveUp(r, s)
    PROVE  Kept(r)
<1>1. TypeOK
  BY DEF Typed
<1>2. Lands(r, "failure", worker[r].record, worker[r].batch, worker'[r].phase)
  BY <1>1, ToLands DEF GiveUp, Spots, Alive, TypeOK, Lands
<1>3. worker[r].at = "pool" /\ UNCHANGED <<template, row, marked, activity, faults>>
  BY DEF GiveUp
<1>4. ActivityTypeOK' /\ faults' \in 0..MaxFaults
  BY <1>1, <1>3 DEF TypeOK, ActivityTypeOK
<1> QED
  BY <1>2, <1>3, <1>4, FailureKeeps DEF Alive

LEMMA ConcludeKeeps ==
    ASSUME ReportAssumption, Typed, NEW r \in Report, Conclude(r) PROVE Kept(r)
<1>1. TypeOK /\ Good(r) /\ worker \in [Report -> Worker]
  BY DEF Typed, TypeOK
<1> DEFINE record == [worker[r].record EXCEPT !.status = FinalStatus(r), !.part = Results(r),
                                              !.count = Cardinality(Section)]
<1>2. worker[r].at = "final" /\ UNCHANGED <<template, marked, activity>>
  BY DEF Conclude
<1>3. Lands(r, "idle", worker[r].record, worker[r].batch, worker[r].phase)
  BY <1>1, ToLands DEF Conclude, Spots, Alive
<1>4. /\ worker[r].record \in Row /\ worker[r].phase \in [Section -> Phase]
      /\ FinalStatus(r) \in {"complete", "error"} /\ Cardinality(Section) \in 0..Cardinality(Section)
  <2>1. Cardinality(Section) \in Nat
    BY FS_CardinalityType DEF ReportAssumption
  <2> QED
    BY <1>1, <2>1, Fields, SMT DEF FinalStatus
<1>5. \A s \in Section :
          /\ Results(r)[s] \in Part /\ Results(r)[s].status # "pending"
          /\ Results(r)[s].status = "unlisted" => worker[r].phase[s] = "new"
  <2> SUFFICES ASSUME NEW s \in Section
               PROVE  /\ Results(r)[s] \in Part /\ Results(r)[s].status # "pending"
                      /\ Results(r)[s].status = "unlisted" => worker[r].phase[s] = "new"
    OBVIOUS
  <2>1. worker[r].phase[s] \in {"new", "complete", "error", "skipped"}
    BY <1>1, <1>2, <1>4 DEF Good, PhaseFits, Phase
  <2>2. CASE worker[r].phase[s] = "complete"
    BY <2>2 DEF Results, Part, Status
  <2>3. CASE worker[r].phase[s] \in {"error", "skipped"}
    BY <2>3 DEF Results, Part, Status
  <2>4. CASE worker[r].phase[s] = "new"
    BY <2>4 DEF Results, Part, Status
  <2> QED
    BY <2>1, <2>2, <2>3, <2>4
<1>6. Results(r) \in [Section -> Part]
  BY <1>5 DEF Results
<1>7. record \in Row /\ record.status = FinalStatus(r) /\ record.part = Results(r)
  BY <1>4, <1>6 DEF Row
<1>8. Save(r, record)
  BY DEF Conclude
<1> HIDE DEF record
<1>9. /\ row' \in [Report -> Row] /\ RowsStay(r) /\ faults' \in 0..MaxFaults
      /\ row'[r] = record \/ row'[r] = row[r]
  BY <1>1, <1>7, <1>8, Saves
<1>10. TypeOK'
  BY <1>1, <1>2, <1>3, <1>9 DEF TypeOK, Lands, ActivityTypeOK
<1>11. ~IsEdit(r)' /\ Circular' = Circular
  BY <1>1, <1>2, <1>3 DEF Good, Sited, IsEdit, Circular, Lands
<1>12. Done(record)
  <2> DEFINE C == {s \in Section : worker[r].phase[s] = "new"}
  <2>1. \A s \in C : template.needs[s] \in C
    BY <1>1, <1>2 DEF Good, RestIsStuck
  <2>2. C \subseteq Circular
    BY <2>1 DEF Circular
  <2> QED
    BY <1>5, <1>7, <2>2 DEF Done
<1>13. RowDone(r)'
  <2>1. row[r].status # "complete"
    BY <1>1, <1>2 DEF Good, RowWaits, Alive
  <2>2. row'[r].status = "complete" => row'[r] = record
    BY <1>9, <2>1
  <2> QED
    BY <1>11, <1>12, <2>2 DEF RowDone, Done
<1>14. Sited(r)' /\ PhaseFits(r)' /\ Ordered(r)' /\ RestIsStuck(r)' /\ EditKept(r)' /\ RowWaits(r)'
  BY <1>3, <1>11 DEF Sited, PhaseFits, Ordered, RestIsStuck, EditKept, RowWaits, Lands, Alive
<1> QED
  BY <1>2, <1>3, <1>9, <1>10, <1>13, <1>14 DEF Kept, Good, Lands

-----------------------------------------------------------------------------
(* The worker of an edit                                                   *)

LEMMA ReviseKeeps ==
    ASSUME ReportAssumption, Typed, NEW r \in Report, Revise(r) PROVE Kept(r)
<1>1. TypeOK /\ Good(r) /\ worker \in [Report -> Worker]
  BY DEF Typed, TypeOK
<1>2. worker[r].at = "agent" /\ UNCHANGED <<template, row, marked, activity, faults>>
  BY DEF Revise
<1>3. ActivityTypeOK' /\ faults' \in 0..MaxFaults
  BY <1>1, <1>2 DEF TypeOK, ActivityTypeOK
<1>4. PICK at \in {"failure", "revise"}, phase \in [Section -> Phase] :
          Lands(r, at, worker[r].record, worker[r].batch, phase)
  BY <1>1, ReviseLands
<1>5. CASE at = "failure"
  <2>1. Lands(r, "failure", worker[r].record, worker[r].batch, worker'[r].phase)
    BY <1>4, <1>5 DEF Lands
  <2> QED
    BY <1>2, <1>3, <2>1, FailureKeeps DEF Alive
<1>6. CASE at = "revise"
  <2>1. IsEdit(r)' = IsEdit(r) /\ Circular' = Circular /\ IsEdit(r)
    BY <1>1, <1>2, <1>4 DEF IsEdit, Circular, Lands, Good, Sited
  <2>2. TypeOK'
    BY <1>1, <1>2, <1>3, <1>4 DEF TypeOK, Lands
  <2>3. Sited(r)' /\ PhaseFits(r)' /\ Ordered(r)' /\ RestIsStuck(r)'
    BY <1>4, <1>6, <2>1 DEF Sited, PhaseFits, Ordered, RestIsStuck, Lands
  <2>4. RowWaits(r)' /\ RowDone(r)'
    BY <1>1, <1>2, <1>4, <1>6, <2>1 DEF Good, RowWaits, RowDone, Done, Lands, Alive
  <2>5. EditKept(r)'
    BY <1>1, <1>2, <1>4, <1>6, <2>1 DEF Good, EditKept, Done, Lands, Alive
  <2> QED
    BY <1>2, <1>4, <2>2, <2>3, <2>4, <2>5 DEF Kept, Good, Lands, RowsStay
<1> QED
  BY <1>5, <1>6

\* A section of an edit has what the agent wrote or what the parent has.
LEMMA RevisedFits ==
    ASSUME worker \in [Report -> Worker], NEW r \in Report, NEW s \in Section
    PROVE  /\ Revised(r, s) \in Part
           /\ worker[r].parent.part[s].text # NoReport => Revised(r, s).text # NoReport
           /\ \/ Revised(r, s) = worker[r].parent.part[s]
              \/ Revised(r, s).status = "complete"
<1>1. worker[r].parent.part[s] \in Part
  BY Fields DEF Row
<1>2. r # NoReport
  BY SMT DEF Report, NoReport
<1>3. /\ [status |-> "complete", text |-> r] \in Part
      /\ [status |-> "complete", text |-> r].text = r
      /\ [status |-> "complete", text |-> r].status = "complete"
  BY DEF Part, Status
<1> QED
  BY <1>1, <1>2, <1>3 DEF Revised

LEMMA ReviseSectionKeeps ==
    ASSUME ReportAssumption, Typed, NEW r \in Report, NEW s \in Section, ReviseSection(r, s)
    PROVE  Kept(r)
<1>1. TypeOK /\ Good(r) /\ worker \in [Report -> Worker]
  BY DEF Typed, TypeOK
<1>2. /\ worker[r].at = "revise" /\ worker[r].phase[s] \in {"new", "anew"}
      /\ UNCHANGED <<template, marked, activity>>
  BY DEF ReviseSection, Unwritten
<1> DEFINE p == IF worker[r].phase[s] = "anew" THEN "complete" ELSE "skipped"
           count == Cardinality(Recorded(worker[r])) + 1
<1>3. p \in Phase /\ worker' = [worker EXCEPT ![r].phase[s] = p]
  BY DEF ReviseSection, Phase
<1>4. count \in 0..Cardinality(Section)
  BY <1>2, Counts DEF Recorded
<1>5. Update(r, s, Revised(r, s), count)
  BY DEF ReviseSection
<1> HIDE DEF p, count
<1>6. Lands(r, "revise", worker[r].record, worker[r].batch, worker'[r].phase)
  BY <1>1, <1>2, <1>3, PhaseLands DEF Lands
<1>7. row' \in [Report -> Row] /\ RowsStay(r) /\ Updated(r, s, Revised(r, s))
      /\ faults' \in 0..MaxFaults
  BY <1>1, <1>4, <1>5, Updates, RevisedFits
<1>8. TypeOK'
  BY <1>1, <1>2, <1>6, <1>7 DEF TypeOK, Lands, ActivityTypeOK
<1>9. IsEdit(r)' = IsEdit(r) /\ Circular' = Circular /\ IsEdit(r)
  BY <1>1, <1>2, <1>6 DEF IsEdit, Circular, Lands, Good, Sited
<1>10. Sited(r)' /\ PhaseFits(r)' /\ Ordered(r)' /\ RestIsStuck(r)'
  BY <1>6, <1>9 DEF Sited, PhaseFits, Ordered, RestIsStuck, Lands
<1>11. RowWaits(r)' /\ RowDone(r)'
  BY <1>1, <1>2, <1>6, <1>7, <1>9 DEF Good, RowWaits, RowDone, Lands, Alive, Updated
<1>12. EditKept(r)'
  <2>1. row[r].part \in [Section -> Part]
    BY <1>1 DEF TypeOK, Row
  <2>2. ASSUME row'[r].status # "none", NEW t \in Section,
               worker[r].parent.part[t].text # NoReport
        PROVE  row'[r].part[t].text # NoReport
    <3>1. row[r].status # "none"
      BY <1>7, <2>2 DEF Updated
    <3>2. row[r].part[t].text # NoReport
      BY <1>1, <1>2, <1>9, <2>2, <3>1 DEF Good, EditKept, Alive
    <3>3. CASE row'[r] = row[r]
      BY <3>2, <3>3
    <3>4. CASE row'[r].part = [row[r].part EXCEPT ![s] = Revised(r, s)]
      BY <1>1, <2>1, <2>2, <3>2, <3>4, RevisedFits
    <3> QED
      BY <1>7, <3>3, <3>4 DEF Updated
  <2> QED
    BY <1>1, <1>6, <1>9, <2>2 DEF Good, EditKept, Done, Lands
<1> QED
  BY <1>2, <1>6, <1>7, <1>8, <1>10, <1>11, <1>12 DEF Kept, Good, Lands

LEMMA ConcludeEditKeeps ==
    ASSUME ReportAssumption, Typed, NEW r \in Report, ConcludeEdit(r) PROVE Kept(r)
<1>1. TypeOK /\ Good(r) /\ worker \in [Report -> Worker]
  BY DEF Typed, TypeOK
<1> DEFINE parts == [s \in Section |-> Revised(r, s)]
           record == [worker[r].record EXCEPT !.status = "complete", !.part = parts,
                          !.count = Cardinality(Recorded(worker[r]))]
<1>2. worker[r].at = "revise" /\ UNCHANGED <<template, marked, activity>>
  BY DEF ConcludeEdit
<1>3. Lands(r, "idle", worker[r].record, worker[r].batch, worker[r].phase)
  BY <1>1, ToLands DEF ConcludeEdit, Spots, Alive
<1>4. worker[r].record \in Row
  BY <1>1, Fields
<1>5. parts \in [Section -> Part] /\ \A s \in Section : parts[s] = Revised(r, s)
  BY <1>1, RevisedFits
<1>6. Cardinality(Recorded(worker[r])) \in 0..Cardinality(Section)
  <2>1. IsFiniteSet(Section) /\ Recorded(worker[r]) \subseteq Section
    BY DEF Recorded, ReportAssumption
  <2>2. /\ Cardinality(Recorded(worker[r])) <= Cardinality(Section)
        /\ Cardinality(Recorded(worker[r])) \in Nat /\ Cardinality(Section) \in Nat
    BY <2>1, FS_Subset, FS_CardinalityType
  <2> QED
    BY <2>2, SMT
<1>7. Save(r, record)
  BY DEF ConcludeEdit
<1> HIDE DEF parts
<1>8. record \in Row /\ record.status = "complete" /\ record.part = parts
  BY <1>4, <1>5, <1>6 DEF Row
<1> HIDE DEF record
<1>9. /\ row' \in [Report -> Row] /\ RowsStay(r) /\ faults' \in 0..MaxFaults
      /\ row'[r] = record \/ row'[r] = row[r]
  BY <1>1, <1>7, <1>8, Saves
<1>10. TypeOK'
  BY <1>1, <1>2, <1>3, <1>9 DEF TypeOK, Lands, ActivityTypeOK
<1>11. IsEdit(r)' = IsEdit(r) /\ Circular' = Circular /\ IsEdit(r)
  BY <1>1, <1>2, <1>3 DEF IsEdit, Circular, Lands, Good, Sited
<1>12. Done(record)
  <2>1. Done(worker[r].parent)
    BY <1>1, <1>11 DEF Good, EditKept
  <2> QED
    BY <1>1, <1>5, <1>8, <2>1, RevisedFits DEF Done
<1>13. RowDone(r)'
  <2>1. row[r].status # "complete"
    BY <1>1, <1>2 DEF Good, RowWaits, Alive
  <2>2. row'[r].status = "complete" => row'[r] = record
    BY <1>9, <2>1
  <2> QED
    BY <1>11, <1>12, <2>2 DEF RowDone, Done
<1>14. EditKept(r)'
  <2>1. ASSUME row'[r].status # "none", NEW t \in Section,
               worker[r].parent.part[t].text # NoReport
        PROVE  row'[r].part[t].text # NoReport
    <3>1. CASE row'[r] = row[r]
      BY <1>1, <1>2, <1>11, <2>1, <3>1 DEF Good, EditKept, Alive
    <3>2. CASE row'[r] = record
      BY <1>1, <1>5, <1>8, <2>1, <3>2, RevisedFits
    <3> QED
      BY <1>9, <3>1, <3>2
  <2> QED
    BY <1>1, <1>3, <1>11, <2>1 DEF Good, EditKept, Done, Lands
<1>15. Sited(r)' /\ PhaseFits(r)' /\ Ordered(r)' /\ RestIsStuck(r)' /\ RowWaits(r)'
  BY <1>3 DEF Sited, PhaseFits, Ordered, RestIsStuck, RowWaits, Lands, Alive
<1> QED
  BY <1>2, <1>3, <1>9, <1>10, <1>13, <1>14, <1>15 DEF Kept, Good, Lands

-----------------------------------------------------------------------------
(* The ends                                                                *)

LEMMA MarkFailedKeeps ==
    ASSUME ReportAssumption, Typed, NEW r \in Report, MarkFailed(r) PROVE Kept(r)
<1>1. TypeOK
  BY DEF Typed
<1>2. Lands(r, "rescue", worker[r].record, worker[r].batch, worker'[r].phase)
  BY <1>1, FailedLands DEF TypeOK, Lands
<1>3. worker[r].at = "failure" /\ UNCHANGED <<template, row, marked>>
  BY DEF MarkFailed
<1>4. ActivityTypeOK' /\ faults' \in 0..MaxFaults
  BY <1>1, ActivityTyped, FaultCounts DEF MarkFailed, Noted, Works
<1> QED
  BY <1>2, <1>3, <1>4, FailureKeeps DEF Alive

LEMMA SaveFailedKeeps ==
    ASSUME ReportAssumption, Typed, NEW r \in Report, SaveFailed(r) PROVE Kept(r)
<1>1. TypeOK /\ Good(r) /\ worker \in [Report -> Worker]
  BY DEF Typed, TypeOK
<1> DEFINE record == [worker[r].record EXCEPT !.status = "error"]
<1>2. worker[r].at = "rescue" /\ UNCHANGED <<template, marked, activity>>
  BY DEF SaveFailed
<1>3. Lands(r, "idle", worker[r].record, worker[r].batch, worker[r].phase)
  BY <1>1, ToLands DEF SaveFailed, Spots, Alive
<1>4. worker[r].record \in Row
  BY <1>1, Fields
<1>5. record \in Row /\ record.status = "error" /\ record.part = worker[r].record.part
  BY <1>4 DEF Row
<1>6. Save(r, record)
  BY DEF SaveFailed
<1> HIDE DEF record
<1>7. /\ row' \in [Report -> Row] /\ RowsStay(r) /\ faults' \in 0..MaxFaults
      /\ row'[r] = record \/ row'[r] = row[r]
  BY <1>1, <1>5, <1>6, Saves
<1>8. TypeOK'
  BY <1>1, <1>2, <1>3, <1>7 DEF TypeOK, Lands, ActivityTypeOK
<1>9. IsEdit(r)' = IsEdit(r) /\ Circular' = Circular
  BY <1>2, <1>3 DEF IsEdit, Circular, Lands
<1>10. RowDone(r)'
  BY <1>1, <1>2, <1>5, <1>7 DEF Good, RowWaits, RowDone, Alive
<1>11. EditKept(r)'
  BY <1>1, <1>2, <1>3, <1>5, <1>7, <1>9 DEF Good, EditKept, Done, Lands, Alive
<1>12. Sited(r)' /\ PhaseFits(r)' /\ Ordered(r)' /\ RestIsStuck(r)' /\ RowWaits(r)'
  BY <1>3 DEF Sited, PhaseFits, Ordered, RestIsStuck, RowWaits, Lands, Alive
<1> QED
  BY <1>2, <1>3, <1>7, <1>8, <1>10, <1>11, <1>12 DEF Kept, Good, Lands

LEMMA EndKeeps ==
    ASSUME ReportAssumption, Typed, NEW r \in Report, EndWorker(r) PROVE Kept(r)
<1>1. TypeOK /\ Good(r) /\ worker \in [Report -> Worker]
  BY DEF Typed, TypeOK
<1>2. UNCHANGED <<template, row, marked>>
  BY DEF EndWorker
<1>3. /\ worker' \in [Report -> Worker] /\ OthersStay(r)
      /\ worker'[r].at = "over" /\ worker'[r].record = NoRow
  BY <1>1, EndLands
<1>4. ActivityTypeOK' /\ faults' \in 0..MaxFaults
  BY <1>1, ActivityTyped, FaultCounts DEF EndWorker, Noted, Works
<1>5. TypeOK'
  BY <1>1, <1>2, <1>3, <1>4 DEF TypeOK
<1>6. Good(r)'
  BY <1>1, <1>2, <1>3, NoRowTyped, GoodAtRest
<1> QED
  BY <1>2, <1>3, <1>5, <1>6 DEF Kept, RowsStay

-----------------------------------------------------------------------------
(* Every action                                                            *)

LEMMA StepKeeps ==
    ASSUME ReportAssumption, Typed, NEW r \in Report, Step(r) PROVE Kept(r)
<1>1. CASE Kickoff(r)
  BY <1>1, ShellKeeps, AnchorKeeps, StartKeeps DEF Kickoff
<1>2. CASE Sections(r)
  BY <1>2, BeginKeeps, SubmitKeeps, NextBatchKeeps, ConcludeKeeps, SkipKeeps, CollectKeeps,
     GiveUpKeeps DEF Sections
<1>3. CASE Edit(r)
  BY <1>3, ReviseKeeps, ConcludeEditKeeps, ReviseSectionKeeps DEF Edit
<1>4. CASE Ending(r)
  BY <1>4, MarkFailedKeeps, SaveFailedKeeps, EndKeeps DEF Ending
<1> QED
  BY <1>1, <1>2, <1>3, <1>4 DEF Step

LEMMA EnterKeeps ==
    ASSUME ReportAssumption, Typed, NEW r \in Report, worker[r].at = "new",
           NEW record \in Row, NEW parent \in Row, Enter(r, record, parent),
           record.status = "pending",
           record.parent # NoReport => Done(parent) /\ record.part = parent.part,
           UNCHANGED <<template, row, marked, activity, faults>>
    PROVE  Typed'
<1>1. TypeOK /\ Good(r) /\ worker \in [Report -> Worker]
  BY DEF Typed, TypeOK
<1>2. /\ worker' \in [Report -> Worker]
      /\ worker'[r].at = "shell" /\ worker'[r].record = record
      /\ worker'[r].parent = parent /\ worker'[r].batch = {}
      /\ worker'[r].phase = [s \in Section |-> "new"]
      /\ \A q \in Report \ {r} :
             /\ worker'[q].at = worker[q].at /\ worker'[q].record = worker[q].record
             /\ worker'[q].parent = worker[q].parent
             /\ worker'[q].batch = worker[q].batch /\ worker'[q].phase = worker[q].phase
  BY <1>1, EnterLands
<1>3. TypeOK'
  BY <1>1, <1>2 DEF TypeOK, ActivityTypeOK
<1>4. Circular' = Circular /\ (IsEdit(r)' => record.parent # NoReport)
  BY <1>2 DEF Circular, IsEdit
<1>5. row'[r].status = "none"
  BY <1>1 DEF Good, RowWaits
<1>6. Sited(r)' /\ PhaseFits(r)' /\ Ordered(r)' /\ RestIsStuck(r)'
  BY <1>2 DEF Sited, PhaseFits, Ordered, RestIsStuck
<1>7. RowWaits(r)' /\ RowDone(r)'
  BY <1>2, <1>5 DEF RowWaits, RowDone
<1>8. EditKept(r)'
  BY <1>2, <1>4 DEF EditKept, Done
<1>9. Good(r)'
  BY <1>6, <1>7, <1>8 DEF Good
<1>10. ASSUME NEW q \in Report, q # r PROVE Good(q)'
  <2>1. Good(q)
    BY DEF Typed
  <2>2. row'[q] = row[q]
    OBVIOUS
  <2> QED
    BY <1>2, <1>10, <2>1, <2>2, GoodStays
<1> QED
  BY <1>3, <1>9, <1>10 DEF Typed

LEMMA EditTyped ==
    ASSUME ReportAssumption, NEW p \in Report, row[p] \in Row
    PROVE  EditRecord(p) \in Row /\ EditRecord(p).status = "pending"
           /\ EditRecord(p).part = row[p].part
<1>1. row[p].version + 1 \in Nat
  BY SMT DEF Row
<1>2. 0 \in 0..Cardinality(Section)
  BY FS_CardinalityType, SMT DEF ReportAssumption
<1> DEFINE version == row[p].version + 1
           count == 0
<1> HIDE DEF version, count
<1>3. EditRecord(p) = [row[p] EXCEPT !.status = "pending", !.count = count, !.parent = p,
                                     !.version = version]
  BY DEF EditRecord, version, count
<1>4. version \in Nat /\ count \in 0..Cardinality(Section)
  BY <1>1, <1>2 DEF version, count
<1> QED
  BY <1>3, <1>4 DEF Row

LEMMA RequestKeeps ==
    ASSUME ReportAssumption, Typed, NEW r \in Report, Request(r) PROVE Typed'
<1>1. TypeOK
  BY DEF Typed
<1>2. CASE RequestReport(r)
  <2> DEFINE record == [NoRow EXCEPT !.status = "pending"]
  <2>1. record \in Row /\ record.status = "pending" /\ record.parent = NoReport
    BY NoRowTyped DEF Row
  <2>2. /\ Enter(r, record, NoRow) /\ worker[r].at = "new"
        /\ UNCHANGED <<template, row, marked, activity, faults>>
    BY <1>2 DEF RequestReport
  <2> HIDE DEF record
  <2> QED
    BY <2>1, <2>2, NoRowTyped, EnterKeeps
<1>3. CASE RequestEdit(r)
  <2>1. PICK p \in Report : row[p].status = "complete" /\ Enter(r, EditRecord(p), row[p])
    BY <1>3 DEF RequestEdit
  <2>2. row[p] \in Row
    BY <1>1 DEF TypeOK
  <2>3. EditRecord(p) \in Row /\ EditRecord(p).status = "pending"
        /\ EditRecord(p).part = row[p].part
    BY <2>2, EditTyped
  <2>4. Done(row[p])
    BY <2>1 DEF Typed, Good, RowDone
  <2>5. worker[r].at = "new" /\ UNCHANGED <<template, row, marked, activity, faults>>
    BY <1>3 DEF RequestEdit
  <2> QED
    BY <2>1, <2>2, <2>3, <2>4, <2>5, EnterKeeps
<1> QED
  BY <1>2, <1>3 DEF Request

LEMMA AroundKeeps ==
    ASSUME ReportAssumption, Typed,
           (\E r \in Report : Heartbeat(r) \/ Delete(r)) \/ Aging \/ Crash \/ UNCHANGED vars
    PROVE  Typed'
<1>1. TypeOK /\ worker \in [Report -> Worker] /\ row \in [Report -> Row]
  BY DEF Typed, TypeOK
<1>2. CASE UNCHANGED <<template, row, worker, marked>> /\ ActivityTypeOK' /\ UNCHANGED faults
  <2>1. TypeOK'
    BY <1>1, <1>2 DEF TypeOK
  <2>2. \A q \in Report : Good(q)'
    BY <1>2, GoodStays DEF Typed
  <2> QED
    BY <2>1, <2>2 DEF Typed
<1>3. ASSUME NEW r \in Report, Heartbeat(r) PROVE Typed'
  <2>1. ActivityTypeOK'
    BY <1>1, <1>3, ActivityTyped DEF Heartbeat
  <2> QED
    BY <1>2, <1>3, <2>1 DEF Heartbeat
<1>4. ASSUME NEW r \in Report, Delete(r) PROVE Typed'
  <2>1. UNCHANGED <<template, worker, marked, activity>> /\ row' = [row EXCEPT ![r] = NoRow]
    BY <1>4 DEF Delete
  <2>2. faults' \in 0..MaxFaults
    BY <1>1, <1>4, FaultCounts DEF Delete
  <2>3. TypeOK'
    BY <1>1, <2>1, <2>2, NoRowTyped DEF TypeOK, ActivityTypeOK
  <2>4. ASSUME NEW q \in Report PROVE Good(q)'
    <3>1. row'[q] = row[q] \/ row'[q].status = "none"
      BY <1>1, <2>1, NoRowTyped
    <3> QED
      BY <2>1, <3>1, GoodStays DEF Typed
  <2> QED
    BY <2>3, <2>4 DEF Typed
<1>5. ASSUME Aging PROVE Typed'
  <2>1. ActivityTypeOK'
    <3>1. CASE Report # {}
      BY <1>1, <1>5, <3>1, ActivityTyped DEF Aging
    <3>2. CASE Report = {}
      BY <1>1, <1>5 DEF Aging, GoStale, TypeOK, ActivityTypeOK, ActivityRow
    <3> QED
      BY <3>1, <3>2
  <2> QED
    BY <1>2, <1>5, <2>1 DEF Aging
<1>6. ASSUME Crash PROVE Typed'
  <2>1. UNCHANGED <<template, row, marked, activity>> /\ faults' \in 0..MaxFaults
    BY <1>1, <1>6, FaultCounts DEF Crash
  <2>2. /\ worker' \in [Report -> Worker]
        /\ \A r \in Report :
               \/ worker'[r].at = "lost" /\ worker'[r].record = NoRow
               \/ worker'[r] = worker[r] /\ ~Busy(r)
    BY <1>1, <1>6, CrashLands
  <2>3. TypeOK'
    BY <1>1, <2>1, <2>2 DEF TypeOK, ActivityTypeOK
  <2>4. ASSUME NEW q \in Report PROVE Good(q)'
    <3>1. CASE worker'[q].at = "lost" /\ worker'[q].record = NoRow
      BY <2>1, <3>1, NoRowTyped, GoodAtRest DEF Typed
    <3>2. CASE worker'[q] = worker[q]
      BY <2>1, <3>2, GoodStays DEF Typed
    <3> QED
      BY <2>2, <3>1, <3>2
  <2> QED
    BY <2>3, <2>4 DEF Typed
<1>7. ASSUME UNCHANGED vars PROVE Typed'
  <2>1. ActivityTypeOK'
    BY <1>1, <1>7 DEF vars, TypeOK, ActivityTypeOK
  <2> QED
    BY <1>2, <1>7, <2>1 DEF vars
<1> QED
  BY <1>3, <1>4, <1>5, <1>6, <1>7

LEMMA NextKeeps ==
    ASSUME ReportAssumption, Typed, [Next]_vars PROVE Typed'
<1>1. ASSUME NEW r \in Report, Step(r) PROVE Typed'
  <2>1. Kept(r)
    BY <1>1, StepKeeps
  <2>2. \A q \in Report : Good(q)'
    BY <2>1, OthersGood DEF Kept, Typed
  <2> QED
    BY <2>1, <2>2 DEF Kept, Typed
<1> QED
  BY <1>1, RequestKeeps, AroundKeeps DEF Next

LEMMA InitTyped ==
    ASSUME ReportAssumption, Init PROVE Typed
<1>1. /\ \A r \in Report : worker[r] = Idle /\ row[r] = NoRow
      /\ worker = [r \in Report |-> Idle] /\ row = [r \in Report |-> NoRow]
  BY DEF Init
<1>2. 0 \in 0..MaxFaults
  BY SMT DEF ReportAssumption
<1>3. TypeOK
  BY <1>1, <1>2, IdleTyped, NoRowTyped
     DEF Init, TypeOK, ActivityInit, ActivityTypeOK, ActivityRow
<1>4. ASSUME NEW r \in Report PROVE Good(r)
  <2>1. worker[r].at = "new" /\ ~IsEdit(r) /\ row[r].status = "none"
    BY <1>1, IdleTyped, NoRowTyped DEF IsEdit
  <2> QED
    BY <2>1 DEF Good, Sited, PhaseFits, Ordered, RestIsStuck, RowWaits, EditKept, RowDone, Alive
<1> QED
  BY <1>3, <1>4 DEF Typed

-----------------------------------------------------------------------------
(* A worker that is alone                                                  *)

Fresh == activity.status = "running" /\ activity.fresh

\* A step of a worker that is not alone after it, or that starts it, or that
\* leaves a fresh row fresh.
LEMMA AloneKept ==
    ASSUME TypeOK, AloneHolds, NEW r \in Report, Busy(r), OthersStay(r),
           Busy(r)' /\ worker'[r].alone =>
               /\ worker[r].alone
               /\ Started(r)' => \/ MarkRunning(r)
                                 \/ Started(r) /\ (UpdateStep \/ UNCHANGED activity)
    PROVE  AloneHolds'
<1> SUFFICES ASSUME NEW q \in Report, Busy(q)', worker'[q].alone
             PROVE  Others(q)' = {} /\ (Started(q)' => Fresh')
  BY DEF AloneHolds, Fresh
<1>1. q = r
  BY DEF AloneHolds, OthersStay, Busy, Others
<1>2. Others(r) = {} /\ Others(r)' = {}
  BY <1>1 DEF AloneHolds, OthersStay, Busy, Others
<1>3. ASSUME Started(r)' PROVE Fresh'
  <2>1. activity \in [status : {"absent", "running", "idle", "error"},
                      run : Report \cup {NoReport}, fresh : BOOLEAN]
    BY DEF TypeOK, ActivityTypeOK, ActivityRow
  <2>2. CASE MarkRunning(r)
    BY <2>2 DEF MarkRunning, Fresh
  <2>3. CASE Started(r) /\ UNCHANGED activity
    BY <1>1, <2>3 DEF AloneHolds, Fresh
  <2>4. CASE Started(r) /\ UpdateStep
    <3>1. Fresh
      BY <1>1, <2>4 DEF AloneHolds, Fresh
    <3> DEFINE fresh == activity.fresh \/ activity.status = "running"
    <3>2. activity' = [activity EXCEPT !.fresh = fresh] /\ fresh
      BY <2>4, <3>1 DEF UpdateStep, Fresh
    <3> HIDE DEF fresh
    <3> QED
      BY <2>1, <3>1, <3>2 DEF Fresh
  <2> QED
    BY <1>1, <1>3, <2>2, <2>3, <2>4
<1> QED
  BY <1>1, <1>2, <1>3

LEMMA NotedWorks ==
    ASSUME NEW write, Noted(write), faults' = faults, TypeOK, ReportAssumption PROVE write
<1>1. faults \in Nat
  BY SMT DEF TypeOK, ReportAssumption
<1>2. ~Fails
  BY <1>1, SMT DEF Fails
<1> QED
  BY <1>2 DEF Noted

LEMMA StepAlone ==
    ASSUME ReportAssumption, Typed, AloneHolds, NEW r \in Report, Step(r) PROVE AloneHolds'
<1>1. TypeOK /\ worker \in [Report -> Worker]
  BY DEF Typed, TypeOK
<1>2. OthersStay(r)
  BY StepKeeps DEF Kept
\* Actions that leave the row of the activity and the worker's place in it.
<1>3. ASSUME Busy(r), UNCHANGED activity, worker'[r].alone = worker[r].alone,
             Started(r)' => Started(r)
      PROVE  AloneHolds'
  BY <1>1, <1>2, <1>3, AloneKept
<1>4. CASE Kickoff(r)
  <2>1. CASE SaveShell(r)
    <3>1. worker'[r].at = "anchor" /\ worker'[r].alone = worker[r].alone
      BY <1>1, <2>1, ToLands DEF SaveShell, Lands, Spots, Alive
    <3> QED
      BY <1>3, <2>1, <3>1 DEF SaveShell, Busy, Started, Alive
  <2>2. CASE SaveAnchor(r)
    <3>1. worker'[r].at = "mark" /\ worker'[r].alone = worker[r].alone
      BY <1>1, <2>2, ToLands DEF SaveAnchor, Lands, Spots, Alive
    <3> QED
      BY <1>3, <2>2, <3>1 DEF SaveAnchor, Busy, Started, Alive
  <2>3. CASE StartWorker(r)
    <3>1. worker'[r].alone => worker[r].alone /\ faults' = faults
      BY <1>1, <2>3, StartLands
    <3>2. Noted(MarkRunning(r)) /\ Busy(r)
      BY <2>3 DEF StartWorker, Busy, Alive
    <3>3. worker'[r].alone => MarkRunning(r)
      BY <1>1, <3>1, <3>2, NotedWorks
    <3> QED
      BY <1>1, <1>2, <3>1, <3>2, <3>3, AloneKept
  <2> QED
    BY <1>4, <2>1, <2>2, <2>3 DEF Kickoff
<1>5. CASE Sections(r)
  <2>1. CASE Begin(r)
    <3>1. worker'[r].alone = worker[r].alone
      BY <1>1, <2>1, BeginLands
    <3> QED
      BY <1>3, <2>1, <3>1 DEF Begin, Busy, Started, Alive
  <2>2. CASE Submit(r)
    <3>1. Busy(r) /\ Started(r)
      BY <2>2 DEF Submit, Busy, Started, Alive
    <3>2. CASE worker[r].batch = {}
      <4>1. worker'[r].alone = worker[r].alone /\ UNCHANGED activity
        BY <1>1, <2>2, <3>2, ToLands DEF Submit, Spots, Alive
      <4> QED
        BY <1>3, <3>1, <4>1
    <3>3. CASE worker[r].batch # {}
      <4>1. worker'[r].alone => worker[r].alone /\ faults' = faults
        BY <1>1, <2>2, <3>3, SubmitLands
      <4>2. Noted(UpdateStep)
        BY <2>2, <3>3 DEF Submit
      <4>3. worker'[r].alone => UpdateStep
        BY <1>1, <4>1, <4>2, NotedWorks
      <4> QED
        BY <1>1, <1>2, <3>1, <4>1, <4>3, AloneKept
    <3> QED
      BY <3>2, <3>3
  <2>3. CASE NextBatch(r)
    <3>1. worker'[r].alone = worker[r].alone
      BY <1>1, <2>3, NextLands
    <3> QED
      BY <1>3, <2>3, <3>1 DEF NextBatch, Busy, Started, Alive
  <2>4. CASE Conclude(r)
    <3>1. worker'[r].alone = worker[r].alone
      BY <1>1, <2>4, ToLands DEF Conclude, Spots, Alive
    <3> QED
      BY <1>3, <2>4, <3>1 DEF Conclude, Busy, Started, Alive
  <2>5. ASSUME NEW s \in Section, Skip(r, s) PROVE AloneHolds'
    <3>1. worker'[r].alone = worker[r].alone
      BY <1>1, <2>5, PhaseLands DEF Skip, Phase
    <3> QED
      BY <1>3, <2>5, <3>1 DEF Skip, Busy, Started, Alive
  <2>6. ASSUME NEW s \in Section, Collect(r, s) PROVE AloneHolds'
    <3>1. worker'[r].alone = worker[r].alone
      BY <1>1, <2>6, PhaseLands DEF Collect, Phase
    <3> QED
      BY <1>3, <2>6, <3>1 DEF Collect, Busy, Started, Alive
  <2>7. ASSUME NEW s \in Section, GiveUp(r, s) PROVE AloneHolds'
    <3>1. worker'[r].alone = worker[r].alone
      BY <1>1, <2>7, ToLands DEF GiveUp, Spots, Alive
    <3> QED
      BY <1>3, <2>7, <3>1 DEF GiveUp, Busy, Started, Alive
  <2> QED
    BY <1>5, <2>1, <2>2, <2>3, <2>4, <2>5, <2>6, <2>7 DEF Sections
<1>6. CASE Edit(r)
  <2>1. CASE Revise(r)
    <3>1. worker'[r].alone = worker[r].alone
      BY <1>1, <2>1, ReviseLands
    <3> QED
      BY <1>3, <2>1, <3>1 DEF Revise, Busy, Started, Alive
  <2>2. CASE ConcludeEdit(r)
    <3>1. worker'[r].alone = worker[r].alone
      BY <1>1, <2>2, ToLands DEF ConcludeEdit, Spots, Alive
    <3> QED
      BY <1>3, <2>2, <3>1 DEF ConcludeEdit, Busy, Started, Alive
  <2>3. ASSUME NEW s \in Section, ReviseSection(r, s) PROVE AloneHolds'
    <3> DEFINE p == IF worker[r].phase[s] = "anew" THEN "complete" ELSE "skipped"
    <3>1. p \in Phase /\ worker' = [worker EXCEPT ![r].phase[s] = p]
      BY <2>3 DEF ReviseSection, Phase
    <3> HIDE DEF p
    <3>2. worker'[r].alone = worker[r].alone
      BY <1>1, <3>1, PhaseLands
    <3> QED
      BY <1>3, <2>3, <3>2 DEF ReviseSection, Busy, Started, Alive
  <2> QED
    BY <1>6, <2>1, <2>2, <2>3 DEF Edit
<1>7. CASE Ending(r)
  <2>1. CASE MarkFailed(r)
    <3>1. worker'[r].alone = FALSE /\ Busy(r)
      BY <1>1, <2>1, FailedLands DEF MarkFailed, Busy, Alive
    <3> QED
      BY <1>1, <1>2, <3>1, AloneKept
  <2>2. CASE SaveFailed(r)
    <3>1. worker'[r].alone = worker[r].alone
      BY <1>1, <2>2, ToLands DEF SaveFailed, Spots, Alive
    <3> QED
      BY <1>3, <2>2, <3>1 DEF SaveFailed, Busy, Started, Alive
  <2>3. CASE EndWorker(r)
    <3>1. ~Busy(r)' /\ Busy(r)
      BY <1>1, <2>3, EndLands DEF EndWorker, Busy, Alive
    <3> QED
      BY <1>1, <1>2, <3>1, AloneKept
  <2> QED
    BY <1>7, <2>1, <2>2, <2>3 DEF Ending
<1> QED
  BY <1>4, <1>5, <1>6, <1>7 DEF Step

LEMMA NextAlone ==
    ASSUME ReportAssumption, Typed, AloneHolds, [Next]_vars PROVE AloneHolds'
<1>1. TypeOK /\ worker \in [Report -> Worker]
  BY DEF Typed, TypeOK
<1>2. ASSUME NEW r \in Report, Request(r) PROVE AloneHolds'
  <2>1. PICK record \in Row, parent \in Row :
            Enter(r, record, parent) /\ worker[r].at = "new" /\ UNCHANGED activity
    <3>1. CASE RequestReport(r)
      <4>1. [NoRow EXCEPT !.status = "pending"] \in Row /\ NoRow \in Row
        BY NoRowTyped DEF Row
      <4> QED
        BY <3>1, <4>1 DEF RequestReport
    <3>2. CASE RequestEdit(r)
      <4>1. PICK p \in Report : Enter(r, EditRecord(p), row[p])
        BY <3>2 DEF RequestEdit
      <4>2. EditRecord(p) \in Row /\ row[p] \in Row
        BY <1>1, EditTyped DEF TypeOK
      <4> QED
        BY <3>2, <4>1, <4>2 DEF RequestEdit
    <3> QED
      BY <1>2, <3>1, <3>2 DEF Request
  <2>2. /\ worker'[r].at = "shell" /\ (worker'[r].alone => Others(r) = {})
        /\ \A q \in Report \ {r} :
               worker'[q].at = worker[q].at /\ (worker'[q].alone => ~Busy(q))
    BY <1>1, <2>1, EnterLands
  <2>3. Others(r)' = Others(r)
    BY <2>2 DEF Others, Busy
  <2> QED
    BY <2>2, <2>3 DEF AloneHolds, Busy, Started
<1>3. ASSUME NEW r \in Report, Heartbeat(r) PROVE AloneHolds'
  <2>1. UNCHANGED worker /\ UpdateStep
    BY <1>3 DEF Heartbeat
  <2>2. Fresh => Fresh'
    <3>1. activity \in [status : {"absent", "running", "idle", "error"},
                        run : Report \cup {NoReport}, fresh : BOOLEAN]
      BY <1>1 DEF TypeOK, ActivityTypeOK, ActivityRow
    <3> DEFINE fresh == activity.fresh \/ activity.status = "running"
    <3>2. activity' = [activity EXCEPT !.fresh = fresh] /\ (Fresh => fresh)
      BY <2>1 DEF UpdateStep, Fresh
    <3> HIDE DEF fresh
    <3> QED
      BY <3>1, <3>2 DEF Fresh
  <2> QED
    BY <2>1, <2>2 DEF AloneHolds, Busy, Others, Started, Fresh
<1>4. ASSUME NEW r \in Report, Delete(r) PROVE AloneHolds'
  BY <1>4 DEF Delete, AloneHolds, Busy, Others, Started
<1>5. ASSUME Aging PROVE AloneHolds'
  BY <1>5 DEF Aging, Beating, AloneHolds, Busy, Others, Started
<1>6. ASSUME Crash PROVE AloneHolds'
  <2>1. \A r \in Report : ~Busy(r)'
    BY <1>1, <1>6, CrashLands DEF Busy, Alive
  <2> QED
    BY <2>1 DEF AloneHolds
<1>7. ASSUME UNCHANGED vars PROVE AloneHolds'
  BY <1>7 DEF vars, AloneHolds, Busy, Others, Started
<1> QED
  BY <1>2, <1>3, <1>4, <1>5, <1>6, <1>7, StepAlone DEF Next

LEMMA InitAlone ==
    ASSUME ReportAssumption, Init PROVE AloneHolds
BY IdleTyped DEF Init, AloneHolds, Busy, Alive

-----------------------------------------------------------------------------
(* What holds of every report                                              *)

LEMMA IInvInit ==
    ASSUME ReportAssumption, Init PROVE IInv
BY InitTyped, InitAlone DEF IInv, Typed

LEMMA IInvNext ==
    ASSUME ReportAssumption, IInv, [Next]_vars PROVE IInv'
<1>1. Typed'
  BY NextKeeps DEF IInv, Typed
<1>2. AloneHolds'
  BY NextAlone DEF IInv, Typed
<1> QED
  BY <1>1, <1>2 DEF IInv, Typed

\* The types, and everything the workers keep to.
THEOREM ReportsKeep == Spec => []IInv
<1>1. Init => IInv
  BY ReportAssumption, IInvInit
<1>2. IInv /\ [Next]_vars => IInv'
  BY ReportAssumption, IInvNext
<1> QED
  BY <1>1, <1>2, PTL DEF Spec

\* A section is not given to an agent before its prerequisite has content:
\* the batches of build_dependency_graph, and the skips passed on along them,
\* guarantee it in every template and every order of results.
THEOREM DependentsAlwaysWait == Spec => []DependentsWait
<1>1. IInv => DependentsWait
  BY DEF IInv, Good, Ordered, DependentsWait
<1> QED
  BY <1>1, ReportsKeep, PTL

\* A complete report has a result for every section that is not in, or
\* behind, a circle of dependencies.
THEOREM CompleteReportsAreDone == Spec => []CompleteMeansDone
<1>1. IInv => CompleteMeansDone
  BY DEF IInv, Good, RowDone, Done, CompleteMeansDone
<1> QED
  BY <1>1, ReportsKeep, PTL

\* An edit loses no content of its parent, whatever its agent did.
THEOREM EditsKeepContent == Spec => []EditKeepsContent
<1>1. IInv => EditKeepsContent
  BY DEF IInv, Good, EditKept, EditKeepsContent, Alive
<1> QED
  BY <1>1, ReportsKeep, PTL

\* A thread whose report is worked on is shown as running: the heartbeat
\* keeps its activity row fresh, and no other worker ends it.
THEOREM BusyThreadsShown == Spec => []BusyShown
<1>1. IInv => BusyShown
  BY DEF IInv, AloneHolds, BusyShown, Busy, Started, Shown
<1> QED
  BY <1>1, ReportsKeep, PTL

-----------------------------------------------------------------------------
(* What the card sees                                                      *)

Terminals == {"complete", "error"}

\* What a step may do to the status of a row.
Moves(r) ==
    \/ row'[r].status = row[r].status
    \/ row'[r].status = "none"
    \/ row[r].status = "none" /\ row'[r].status = "pending"
    \/ row[r].status \in {"none", "pending"} /\ row'[r].status = "in_progress"
    \/ row[r].status \notin Terminals /\ row'[r].status \in Terminals

LEMMA StepMoves ==
    ASSUME ReportAssumption, Typed, NEW r \in Report, Step(r) PROVE Moves(r)
<1>1. TypeOK /\ Good(r) /\ worker[r].record \in Row /\ row[r] \in Row
  BY Fields DEF Typed, TypeOK
<1>2. ASSUME UNCHANGED row PROVE Moves(r)
  BY <1>2 DEF Moves
<1>3. ASSUME NEW s \in Section, NEW part, NEW count, Update(r, s, part, count),
             worker[r].at \in Alive \ {"idle"}
      PROVE  Moves(r)
  <2>1. row[r].status \in {"none", "pending", "in_progress"}
    BY <1>1, <1>3 DEF Good, RowWaits, Row
  <2>2. row'[r].status \in {row[r].status, "in_progress"}
    <3>1. CASE /\ row[r].status # "none"
               /\ row' = [row EXCEPT ![r].part[s] = part, ![r].count = count,
                                     ![r].status = "in_progress"]
      <4> DEFINE l == [row[r] EXCEPT !.part[s] = part, !.count = count,
                                     !.status = "in_progress"]
      <4>1. row' = [row EXCEPT ![r] = l]
        BY <3>1
      <4>2. l.status = "in_progress"
        BY <1>1 DEF Row
      <4> HIDE DEF l
      <4> QED
        BY <1>1, <4>1, <4>2 DEF TypeOK
    <3> QED
      BY <1>3, <3>1 DEF Update
  <2> QED
    BY <2>1, <2>2 DEF Moves
<1>4. ASSUME NEW record \in Row, Save(r, record) PROVE row'[r] = record \/ row'[r] = row[r]
  BY <1>1, <1>4, Saves
<1>5. CASE SaveShell(r)
  BY <1>1, <1>4, <1>5 DEF SaveShell, Good, RowWaits, Moves
<1>6. CASE Begin(r)
  <2> DEFINE record == [worker[r].record EXCEPT !.status = "in_progress"]
  <2>1. record \in Row /\ record.status = "in_progress"
    BY <1>1 DEF Row
  <2>2. Save(r, record) /\ worker[r].at = "begin"
    BY <1>6 DEF Begin
  <2> HIDE DEF record
  <2> QED
    BY <1>1, <1>4, <2>1, <2>2 DEF Good, RowWaits, Moves
<1>7. CASE Conclude(r) \/ ConcludeEdit(r) \/ SaveFailed(r)
  <2>1. PICK record :
            Save(r, record) /\ record.status \in Terminals /\ worker[r].at \in Alive \ {"idle"}
    BY <1>1, <1>7 DEF Conclude, ConcludeEdit, SaveFailed, FinalStatus, Terminals, Alive, Row
  <2>2. row'[r] = record \/ row'[r] = row[r]
    BY <1>1, <2>1 DEF Save, TypeOK
  <2> QED
    BY <1>1, <2>1, <2>2 DEF Good, RowWaits, Moves, Terminals
<1>8. ASSUME NEW s \in Section, Skip(r, s) \/ Collect(r, s) \/ ReviseSection(r, s)
      PROVE  Moves(r)
  BY <1>3, <1>8 DEF Skip, Collect, ReviseSection, Alive
<1>9. CASE SaveAnchor(r) \/ StartWorker(r) \/ Submit(r) \/ NextBatch(r) \/ Revise(r)
           \/ MarkFailed(r) \/ EndWorker(r) \/ \E s \in Section : GiveUp(r, s)
  BY <1>2, <1>9 DEF SaveAnchor, StartWorker, Submit, NextBatch, Revise, MarkFailed, EndWorker,
     GiveUp
<1> QED
  BY <1>5, <1>6, <1>7, <1>8, <1>9 DEF Step, Kickoff, Sections, Edit, Ending

\* A move of one row is a step of the card.
LEMMA MovesCard ==
    ASSUME TypeOK, NEW r \in Report, RowsStay(r), row' \in [Report -> Row], Moves(r)
    PROVE  [\E q \in Report : Card!Advance(q) \/ Card!Remove(q)]_[q \in Report |-> row[q].status]
<1> DEFINE status == [q \in Report |-> row[q].status]
           next == row'[r].status
           Status2 == {"none", "pending", "in_progress", "complete", "error"}
<1>1. status[r] \in Status2 /\ next \in Status2 /\ status[r] = row[r].status
  BY DEF TypeOK, Row
<1>2. status' = [status EXCEPT ![r] = next]
  BY DEF RowsStay
<1>3. CASE next = status[r]
  <2>1. status' = status
    BY <1>2, <1>3
  <2> QED
    BY <2>1
<1>4. CASE next = "none" /\ status[r] # "none"
  BY <1>2, <1>4 DEF Card!Remove
<1>5. CASE next # "none" /\ next # status[r]
  <2>1. /\ DOMAIN Card!Rank = Status2
        /\ Card!Rank["none"] = 0 /\ Card!Rank["pending"] = 1 /\ Card!Rank["in_progress"] = 2
        /\ Card!Rank["complete"] = 3 /\ Card!Rank["error"] = 3
    BY DEF Card!Rank
  <2>2. status[r] \notin Terminals /\ Card!Rank[next] > Card!Rank[status[r]]
    BY <1>1, <1>5, <2>1 DEF Moves, Terminals
  <2>3. Card!Advance(r)
    BY <1>1, <1>2, <2>1, <2>2 DEF Card!Advance, Card!Terminal, Terminals
  <2> QED
    BY <2>3
<1> QED
  BY <1>3, <1>4, <1>5

\* The status that is polled only moves forward, and nothing follows a
\* terminal one but a deletion: the workers implement the card.
THEOREM CardsMoveForward == Spec => CardMoves
<1> DEFINE status == [r \in Report |-> row[r].status]
<1>1. Init => Card!CardInit
  <2> SUFFICES ASSUME Init PROVE Card!CardInit
    OBVIOUS
  <2>1. \A r \in Report : row[r].status = "none"
    BY ReportAssumption, NoRowTyped DEF Init
  <2> QED
    BY <2>1 DEF Card!CardInit
<1>2. IInv /\ [Next]_vars => [\E r \in Report : Card!Advance(r) \/ Card!Remove(r)]_status
  <2> SUFFICES ASSUME IInv, [Next]_vars
               PROVE  [\E r \in Report : Card!Advance(r) \/ Card!Remove(r)]_status
    OBVIOUS
  <2>1. Typed /\ TypeOK
    BY DEF IInv, Typed
  <2>2. ASSUME UNCHANGED row PROVE UNCHANGED status
    BY <2>2
  <2>3. ASSUME NEW r \in Report, RowsStay(r), row' \in [Report -> Row], Moves(r)
        PROVE  [\E q \in Report : Card!Advance(q) \/ Card!Remove(q)]_status
    BY <2>1, <2>3, MovesCard
  <2>4. ASSUME NEW r \in Report, Step(r)
        PROVE  [\E q \in Report : Card!Advance(q) \/ Card!Remove(q)]_status
    <3>1. RowsStay(r) /\ row' \in [Report -> Row] /\ Moves(r)
      BY ReportAssumption, <2>1, <2>4, StepKeeps, StepMoves DEF Kept, TypeOK
    <3> QED
      BY <2>3, <3>1
  <2>5. ASSUME NEW r \in Report, Delete(r)
        PROVE  [\E q \in Report : Card!Advance(q) \/ Card!Remove(q)]_status
    <3>1. row' = [row EXCEPT ![r] = NoRow]
      BY <2>5 DEF Delete
    <3>2. RowsStay(r) /\ row' \in [Report -> Row] /\ Moves(r)
      BY <2>1, <3>1, ReportAssumption, NoRowTyped DEF TypeOK, RowsStay, Moves
    <3> QED
      BY <2>3, <3>2
  <2>6. ASSUME (\E r \in Report : Request(r) \/ Heartbeat(r)) \/ Aging \/ Crash
               \/ UNCHANGED vars
        PROVE  UNCHANGED status
    BY <2>2, <2>6 DEF Request, RequestReport, RequestEdit, Heartbeat, Aging, Crash, vars
  <2> QED
    BY <2>4, <2>5, <2>6 DEF Next
<1> QED
  BY <1>1, <1>2, ReportsKeep, PTL DEF Spec, CardMoves, Card!CardSpec
=============================================================================
