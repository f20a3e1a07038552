------------------------------ MODULE ReportRun -----------------------------
(***************************************************************************)
(* The reports of one chat thread: agui_server.py and reports.py.          *)
(*                                                                         *)
(* A request writes an empty report, a marker in the chat and the activity *)
(* row, and starts a worker thread.  The worker of a template runs the     *)
(* sections in batches, those of a batch side by side, and writes each     *)
(* result to the row as it comes; the worker of an edit asks one agent for *)
(* the whole report.  The browser polls the row.                           *)
(***************************************************************************)
EXTENDS Naturals, FiniteSets

CONSTANTS
    Reports,        \* reports of the thread
    Section,        \* sections of the template
    None,           \* no prerequisite
    Templates,      \* templates to choose from
    MaxFaults       \* stops, failed writes and deletions, at most

ASSUME ReportAssumption ==
    /\ Reports \in Nat /\ MaxFaults \in Nat
    /\ IsFiniteSet(Section) /\ None \notin Section
    /\ Templates \subseteq [needs : [Section -> Section \cup {None}], bad : SUBSET Section]

Report == 1..Reports
NoReport == 0

VARIABLES
    template,   \* the template: what each section needs, malformed prompts
    row,        \* the rows of the report table
    worker,     \* the workers, from the request on
    marked,     \* reports with a <report-pending> marker in Memory
    activity,   \* the thread's activity row
    faults

vars == <<template, row, worker, marked, activity, faults>>

INSTANCE ThreadActivity WITH Run <- Report, NoRun <- NoReport

-----------------------------------------------------------------------------
(* Data                                                                    *)

\* The content of a section is the report whose agent wrote it; a section
\* that never ran is not in the final list.
Status == {"pending", "complete", "error", "skipped", "unlisted"}
Part == [status : Status, text : Report \cup {NoReport}]
Row == [status : {"none", "pending", "in_progress", "complete", "error"},
        part : [Section -> Part], count : 0..Cardinality(Section),
        parent : Report \cup {NoReport}, version : Nat]

Pending == [status |-> "pending", text |-> NoReport]
NoRow == [status |-> "none", part |-> [s \in Section |-> Pending], count |-> 0,
          parent |-> NoReport, version |-> 1]

\* What becomes of a section: new, given to an agent, written anew by the
\* agent of an edit; and its results.
Phase == {"new", "running", "anew", "complete", "error", "skipped"}
Alive == {"shell", "anchor", "mark", "begin", "batch", "pool", "final", "agent",
          "revise", "failure", "rescue", "idle"}
Worker == [at : {"new", "over", "lost"} \cup Alive,
           record : Row,                \* report_record, as the worker holds it
           parent : Row,                \* the report under edit
           batch : SUBSET Section,      \* the batch that runs
           phase : [Section -> Phase],
           alone : BOOLEAN]             \* no other worker, no lost write

Idle == [at |-> "new", record |-> NoRow, parent |-> NoRow, batch |-> {},
         phase |-> [s \in Section |-> "new"], alone |-> TRUE]

Init ==
    /\ template \in Templates
    /\ row = [r \in Report |-> NoRow]
    /\ worker = [r \in Report |-> Idle]
    /\ marked = {}
    /\ ActivityInit
    /\ faults = 0

Busy(r) == worker[r].at \in Alive
Others(r) == {q \in Report \ {r} : Busy(q)}

-----------------------------------------------------------------------------
(* Dependencies and rows                                                   *)

\* build_dependency_graph: Kahn's algorithm, where a section has at most one
\* prerequisite.  The template does not change, so that a batch can be found
\* when the one before it has run.  Sections on a cycle, and those behind one,
\* are in no batch.
FirstBatch == {s \in Section : template.needs[s] = None}
BatchAfter(batch) == {s \in Section : template.needs[s] \in batch}

\* Mistake: only an error, not a skip, is passed on.
BlockedByError(w, s) ==
    /\ template.needs[s] # None
    /\ w.phase[template.needs[s]] = "error"

Blocked(w, s) ==
    /\ template.needs[s] # None
    /\ w.phase[template.needs[s]] \in {"error", "skipped"}

Recorded(w) == {s \in Section : w.phase[s] \in {"complete", "error", "skipped"}}

\* One remote write, which may be lost: all of them log and go on.
Fails == faults < MaxFaults /\ faults' = faults + 1
Works == UNCHANGED faults
Noted(write) ==
    \/ write /\ Works
    \/ Fails /\ UNCHANGED activity

\* save_report: put_item of the whole record.
Save(r, record) ==
    \/ row' = [row EXCEPT ![r] = record] /\ Works
    \/ Fails /\ UNCHANGED row

\* update_report_section: fails when the row is gone, as the list index does.
Update(r, s, part, count) ==
    \/ /\ row[r].status # "none"
       /\ row' = [row EXCEPT ![r].part[s] = part, ![r].count = count,
                             ![r].status = "in_progress"]
       /\ Works
    \/ row[r].status = "none" /\ UNCHANGED <<row, faults>>
    \/ Fails /\ UNCHANGED row

To(r, pc) == worker' = [worker EXCEPT ![r].at = pc]

-----------------------------------------------------------------------------
(* The request: _handle_report_streaming, _handle_report_edit              *)

Enter(r, record, parent) ==
    worker' = [q \in Report |->
        IF q = r THEN [Idle EXCEPT !.at = "shell", !.record = record,
                                   !.parent = parent, !.alone = Others(r) = {}]
        ELSE [worker[q] EXCEPT !.alone = @ /\ ~Busy(q)]]

\* create_report_record
RequestReport(r) ==
    /\ worker[r].at = "new"
    /\ \A q \in 1..(r - 1) : worker[q].at # "new"
    /\ Enter(r, [NoRow EXCEPT !.status = "pending"], NoRow)
    /\ UNCHANGED <<template, row, marked, activity, faults>>

\* create_edit_report_record: the parent's sections, next version.
EditRecord(p) ==
    [row[p] EXCEPT !.status = "pending", !.count = 0, !.parent = p, !.version = @ + 1]

\* The card offers an edit of a report that is complete.
RequestEdit(r) ==
    /\ worker[r].at = "new"
    /\ \A q \in 1..(r - 1) : worker[q].at # "new"
    /\ \E p \in Report :
        /\ row[p].status = "complete"
        /\ Enter(r, EditRecord(p), row[p])
    /\ UNCHANGED <<template, row, marked, activity, faults>>

\* Persist the empty shell so that the browser can poll; what save_report
\* answers is not looked at.
SaveShell(r) ==
    /\ worker[r].at = "shell"
    /\ Save(r, worker[r].record)
    /\ To(r, "anchor")
    /\ UNCHANGED <<template, marked, activity>>

\* The question and the marker in Memory.
SaveAnchor(r) ==
    /\ worker[r].at = "anchor"
    /\ \/ marked' = marked \cup {r} /\ Works
       \/ Fails /\ UNCHANGED marked
    /\ To(r, "mark")
    /\ UNCHANGED <<template, row, activity>>

IsEdit(r) == worker[r].record.parent # NoReport

\* mark_thread_running, then the worker's thread, which starts a heartbeat.
StartWorker(r) ==
    /\ worker[r].at = "mark"
    /\ Noted(MarkRunning(r))
    /\ worker' = [worker EXCEPT ![r].at = IF IsEdit(r) THEN "agent" ELSE "begin",
                                ![r].alone = @ /\ faults' = faults]
    /\ UNCHANGED <<template, row, marked>>

-----------------------------------------------------------------------------
(* The worker of a template: _run_report_async                             *)

\* pending becomes in_progress.
Begin(r) ==
    LET record == [worker[r].record EXCEPT !.status = "in_progress"] IN
    /\ worker[r].at = "begin"
    /\ Save(r, record)
    /\ worker' = [worker EXCEPT ![r].at = "batch", ![r].record = record,
                                ![r].batch = FirstBatch]
    /\ UNCHANGED <<template, marked, activity>>

ToSkip(r) == {s \in worker[r].batch :
                 worker[r].phase[s] = "new" /\ Blocked(worker[r], s)}

\* A dependent of a failed section is skipped and written as such.
Skip(r, s) ==
    /\ worker[r].at = "batch" /\ s \in ToSkip(r)
    /\ worker' = [worker EXCEPT ![r].phase[s] = "skipped"]
    /\ Update(r, s, [status |-> "skipped", text |-> NoReport],
              Cardinality(Recorded(worker[r])) + 1)
    /\ UNCHANGED <<template, marked, activity>>

\* Mistake: the report is not put together before every section has run.
SubmitAll(r) ==
    LET batch == worker[r].batch IN
    /\ worker[r].at = "batch" /\ ToSkip(r) = {}
    /\ IF batch = {}
       THEN Recorded(worker[r]) = Section /\ To(r, "final") /\ UNCHANGED <<activity, faults>>
       ELSE /\ Noted(UpdateStep)
            /\ worker' = [worker EXCEPT ![r].at = "pool",
                    ![r].phase = [s \in Section |->
                        IF s \in batch /\ @[s] = "new" THEN "running" ELSE @[s]],
                    ![r].alone = @ /\ faults' = faults]
    /\ UNCHANGED <<template, row, marked>>

\* The other sections of the batch go to the pool; after the last batch the
\* report is put together.
Submit(r) ==
    LET batch == worker[r].batch IN
    /\ worker[r].at = "batch" /\ ToSkip(r) = {}
    /\ IF batch = {}
       THEN To(r, "final") /\ UNCHANGED <<activity, faults>>
       ELSE /\ Noted(UpdateStep)
            /\ worker' = [worker EXCEPT ![r].at = "pool",
                    ![r].phase = [s \in Section |->
                        IF s \in batch /\ @[s] = "new" THEN "running" ELSE @[s]],
                    ![r].alone = @ /\ faults' = faults]
    /\ UNCHANGED <<template, row, marked>>

\* A result comes in, in any order: it is recorded and written.  What the
\* agent raises is an error of the section.
Collect(r, s) ==
    /\ worker[r].at = "pool" /\ worker[r].phase[s] = "running" /\ s \notin template.bad
    /\ \E result \in {"complete", "error"} :
        /\ worker' = [worker EXCEPT ![r].phase[s] = result]
        /\ Update(r, s, [status |-> result,
                         text |-> IF result = "complete" THEN r ELSE NoReport],
                  Cardinality(Recorded(worker[r])) + 1)
    /\ UNCHANGED <<template, marked, activity>>

\* The prompt is formatted outside of the try block of _run_one_section: the
\* exception ends the batch; the other agents run on, for nothing.
GiveUp(r, s) ==
    /\ worker[r].at = "pool" /\ worker[r].phase[s] = "running" /\ s \in template.bad
    /\ To(r, "failure")
    /\ UNCHANGED <<template, row, marked, activity, faults>>

\* The batch is over when the last of its sections has a result.
NextBatch(r) ==
    /\ worker[r].at = "pool"
    /\ \A s \in Section : worker[r].phase[s] # "running"
    /\ worker' = [worker EXCEPT ![r].at = "batch", ![r].batch = BatchAfter(@)]
    /\ UNCHANGED <<template, row, marked, activity, faults>>

\* The report as the worker has it: sections that never ran are left out.
Results(r) == [s \in Section |->
    LET phase == worker[r].phase[s] IN
    CASE phase = "complete" -> [status |-> "complete", text |-> r]
      [] phase \in {"error", "skipped"} -> [status |-> phase, text |-> NoReport]
      [] OTHER -> [status |-> "unlisted", text |-> NoReport]]

\* Mistake: a report without content starts over.
FinalStatusAgain(r) ==
    IF \A s \in Section : worker[r].phase[s] # "complete" THEN "pending" ELSE "complete"

FinalStatus(r) ==
    IF \A s \in Section : worker[r].phase[s] \in {"error", "new"}
    THEN "error" ELSE "complete"

\* Mistake: the record still has the sections of the start.
ConcludeBare(r) ==
    /\ worker[r].at = "final"
    /\ Save(r, [worker[r].record EXCEPT !.status = FinalStatus(r),
                                        !.count = Cardinality(Section)])
    /\ To(r, "idle")
    /\ UNCHANGED <<template, marked, activity>>

\* The final save_report: the whole record, over whatever the row is now.
Conclude(r) ==
    /\ worker[r].at = "final"
    /\ Save(r, [worker[r].record EXCEPT !.status = FinalStatus(r), !.part = Results(r),
                                        !.count = Cardinality(Section)])
    /\ To(r, "idle")
    /\ UNCHANGED <<template, marked, activity>>

-----------------------------------------------------------------------------
(* The worker of an edit: _run_report_edit_async                           *)

\* One agent writes some of the sections; its failure ends the edit.
Revise(r) ==
    /\ worker[r].at = "agent"
    /\ \/ /\ To(r, "failure")
       \/ \E new \in SUBSET {s \in Section : worker[r].parent.part[s].status # "unlisted"} :
            worker' = [worker EXCEPT ![r].at = "revise",
                ![r].phase = [s \in Section |-> IF s \in new THEN "anew" ELSE "new"]]
    /\ UNCHANGED <<template, row, marked, activity, faults>>

\* Mistake: what the agent did not repeat is gone.
RevisedOnly(r, s) ==
    IF worker[r].phase[s] \in {"anew", "complete"}
    THEN [status |-> "complete", text |-> r]
    ELSE [status |-> "complete", text |-> NoReport]

\* A section the agent did not write keeps what the parent has.
Revised(r, s) ==
    IF worker[r].phase[s] \in {"anew", "complete"}
    THEN [status |-> "complete", text |-> r]
    ELSE worker[r].parent.part[s]

Unwritten(r) == {s \in Section : /\ worker[r].parent.part[s].status # "unlisted"
                                 /\ worker[r].phase[s] \in {"new", "anew"}}

\* The sections are written one after the other; which one is next does not
\* matter.
ReviseSection(r, s) ==
    /\ worker[r].at = "revise" /\ s \in Unwritten(r)
    /\ worker' = [worker EXCEPT ![r].phase[s] =
                    IF @ = "anew" THEN "complete" ELSE "skipped"]
    /\ Update(r, s, Revised(r, s), Cardinality(Recorded(worker[r])) + 1)
    /\ UNCHANGED <<template, marked, activity>>

ConcludeEdit(r) ==
    /\ worker[r].at = "revise" /\ Unwritten(r) = {}
    /\ Save(r, [worker[r].record EXCEPT !.status = "complete",
                    !.part = [s \in Section |-> Revised(r, s)],
                    !.count = Cardinality(Recorded(worker[r]))])
    /\ To(r, "idle")
    /\ UNCHANGED <<template, marked, activity>>

-----------------------------------------------------------------------------
(* The end of either worker                                                *)

\* The except block: mark_thread_error ...
MarkFailed(r) ==
    /\ worker[r].at = "failure"
    /\ Noted(MarkError)
    /\ worker' = [worker EXCEPT ![r].at = "rescue", ![r].alone = FALSE]
    /\ UNCHANGED <<template, row, marked>>

\* ... and the record as it was before the sections ran.
SaveFailed(r) ==
    /\ worker[r].at = "rescue"
    /\ Save(r, [worker[r].record EXCEPT !.status = "error"])
    /\ To(r, "idle")
    /\ UNCHANGED <<template, marked, activity>>

\* The heartbeat stops, mark_thread_idle; the locals of the worker are gone.
EndWorker(r) ==
    /\ worker[r].at = "idle"
    /\ Noted(MarkIdle)
    /\ worker' = [worker EXCEPT ![r] = [Idle EXCEPT !.at = "over"]]
    /\ UNCHANGED <<template, row, marked>>

\* The worker's thread runs.
Started(r) == worker[r].at \in Alive \ {"shell", "anchor", "mark"}

\* Mistake: no heartbeat.
BeatingNever(r) == FALSE

\* Every 60 seconds from the first write of the worker to its last.
Beating(r) == Started(r)

Heartbeat(r) ==
    /\ Beating(r) /\ UpdateStep
    /\ UNCHANGED <<template, row, worker, marked, faults>>

-----------------------------------------------------------------------------
(* Around the workers                                                      *)

\* DELETE /reports/{id}
Delete(r) ==
    /\ row[r].status # "none" /\ Fails
    /\ row' = [row EXCEPT ![r] = NoRow]
    /\ UNCHANGED <<template, worker, marked, activity>>

\* Ten minutes pass only where no heartbeat runs.
Aging ==
    /\ \A r \in Report : ~Beating(r)
    /\ GoStale
    /\ UNCHANGED <<template, row, worker, marked, faults>>

\* The container is stopped; its worker threads are daemons.
Crash ==
    /\ Fails
    /\ worker' = [r \in Report |->
            IF Busy(r) THEN [Idle EXCEPT !.at = "lost"] ELSE worker[r]]
    /\ UNCHANGED <<template, row, marked, activity>>

Request(r) == RequestReport(r) \/ RequestEdit(r)
Kickoff(r) == SaveShell(r) \/ SaveAnchor(r) \/ StartWorker(r)
Sections(r) ==
    \/ Begin(r) \/ Submit(r) \/ NextBatch(r) \/ Conclude(r)
    \/ \E s \in Section : Skip(r, s) \/ Collect(r, s) \/ GiveUp(r, s)
Edit(r) == Revise(r) \/ ConcludeEdit(r) \/ \E s \in Section : ReviseSection(r, s)
Ending(r) == MarkFailed(r) \/ SaveFailed(r) \/ EndWorker(r)
Step(r) == Kickoff(r) \/ Sections(r) \/ Edit(r) \/ Ending(r)

Next ==
    \/ \E r \in Report : Request(r) \/ Step(r) \/ Heartbeat(r) \/ Delete(r)
    \/ Aging \/ Crash

Spec == Init /\ [][Next]_vars

\* The threads of a container that runs make progress; an agent answers or
\* fails within the timeouts of its model and tools.
LiveSpec == Spec /\ \A r \in Report : WF_vars(Step(r))

-----------------------------------------------------------------------------
(* Properties                                                              *)

\* Rows, workers and the activity row are well typed.
TypeOK ==
    /\ template \in Templates
    /\ row \in [Report -> Row]
    /\ worker \in [Report -> Worker]
    /\ marked \subseteq Report
    /\ ActivityTypeOK
    /\ faults \in 0..MaxFaults

\* A section is not given to an agent before its prerequisite has content:
\* the batches follow the dependencies, and a failure is passed on through
\* any number of skipped sections.
DependentsWait ==
    \A r \in Report, s \in Section :
        /\ worker[r].at \in {"batch", "pool"}
        /\ worker[r].phase[s] \in {"running", "complete"}
        /\ template.needs[s] # None
        => worker[r].phase[template.needs[s]] = "complete"

\* On a circle of dependencies, or behind one: in a set of sections that need
\* each other.
Circular == UNION {C \in SUBSET Section : \A s \in C : template.needs[s] \in C}

\* A report that counts as complete has a result for every section, except
\* for those whose dependencies go round in a circle.
CompleteMeansDone ==
    \A r \in Report : row[r].status = "complete" => \A s \in Section :
        /\ row[r].part[s].status # "pending"
        /\ row[r].part[s].status = "unlisted" => s \in Circular

\* An edit loses nothing: whatever its agent did, or if it failed, the row it
\* leaves has content where the parent had content.
EditKeepsContent ==
    \A r \in Report, s \in Section :
        /\ worker[r].at = "idle" /\ IsEdit(r)
        /\ row[r].status # "none"
        /\ worker[r].parent.part[s].text # NoReport
        => row[r].part[s].text # NoReport

\* While a report is worked on, the thread is shown as running: its activity
\* row neither goes stale nor is marked idle, so that the browser keeps the
\* card of the report.
BusyShown ==
    \A r \in Report : Started(r) /\ worker[r].alone => Shown = "running"

\* A section that has been shown complete stays complete as long as the
\* report exists.
Keeps(r, s) ==
    row[r].part[s].status = "complete" =>
        row'[r].status = "none" \/ row'[r].part[s].status = "complete"

\* reports.py: per-section writes are made so that a crash in the middle of a
\* report does not lose the sections that are finished.
ProgressSurvives == [][\A r \in Report, s \in Section : Keeps(r, s)]_vars

\* The polling card sees the status move forward only.
Card == INSTANCE ReportCard WITH status <- [r \in Report |-> row[r].status]
CardMoves == Card!CardSpec

\* Every worker ends, with a terminal row when nothing failed: also when the
\* dependencies are circular, a prompt is malformed or an agent fails.
ReportEnds ==
    \A r \in Report : worker[r].at = "shell" ~>
        \/ worker[r].at = "lost"
        \/ worker[r].at = "over" /\ (faults = 0 => row[r].status \in {"complete", "error"})
=============================================================================
