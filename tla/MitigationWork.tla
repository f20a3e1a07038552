--------------------------- MODULE MitigationWork ---------------------------
(***************************************************************************)
(* The mitigation follow-up of one investigation                           *)
(* (src/src/lambda/mcp/shared/devops_agent_coordinator.py): mitigation     *)
(* events of the provider, the MITIGATION work items that outlive their    *)
(* handler, and the journal sync that writes the same outcome attribute.   *)
(*                                                                         *)
(* As in InvestigationCoordinator, every action of an invocation is one    *)
(* call to the table or to the provider, invocations interleave between    *)
(* any two of them, and one may stop there.  The outcome is one attribute: *)
(* whoever writes it merges its part into the copy it read earlier.        *)
(*                                                                         *)
(* Whether the deadline of a work item has passed is a choice, while       *)
(* Deadlines.  Times are those of the provider; 0 stands for no time.      *)
(***************************************************************************)
EXTENDS Naturals

CONSTANTS
    Worker,      \* Lambda invocations that can be in flight together
    Mitigation,  \* executions of the provider that mitigate
    Own,         \* the execution of the investigation itself
    MaxTime,     \* bound on the times of the provider
    MaxRevision, \* bound on the changes of the investigation's journal
    Deadlines,   \* whether the deadline of a work item may pass
    None         \* no execution, no summary record

ASSUME ConstantsOK ==
    /\ MaxTime \in Nat \ {0}
    /\ MaxRevision \in Nat
    /\ Deadlines \in BOOLEAN
    /\ Own \notin Mitigation
    /\ None \notin Mitigation \cup {Own}

\* A summary record is named by the execution that wrote it.
Execution == Mitigation \cup {Own}
Time == 0..MaxTime
Revision == 0..MaxRevision

\* FAILED stands for FAILED and TIMED_OUT.  UNAVAILABLE, of what gave up, for
\* RESULTS_UNAVAILABLE and STATUS_UPDATE_UNAVAILABLE; FETCHING for
\* MITIGATION_FETCHING.
EventStatus == {"IN_PROGRESS", "COMPLETED", "FAILED", "CANCELLED"}
Status == {"NONE", "IN_PROGRESS", "FETCHING", "COMPLETED", "FAILED", "CANCELED",
           "UNAVAILABLE"}

\* outcome.mitigation.
Shown == [status: Status, terminal: BOOLEAN, at: Time]

\* The attributes of META that are at stake: mitigationStatus, -Terminal,
\* -ExecutionId, -SummaryRecordId, -UpdatedAt; investigationJournalRevision;
\* outcome, as the revision its incident and root cause are of and mitigation.
Item == [status: Status, terminal: BOOLEAN, exec: Execution \cup {None},
         summary: Execution \cup {None}, at: Time, revision: Revision,
         root: Revision, shown: Shown]

NoShown == [status |-> "NONE", terminal |-> FALSE, at |-> 0]

FirstItem == [status |-> "NONE", terminal |-> FALSE, exec |-> None,
              summary |-> None, at |-> 0, revision |-> 0, root |-> 0,
              shown |-> NoShown]

\* A MITIGATION#<execution> item; absent when its status is NONE.
Work == [exec: Mitigation \cup {None}, status: {"NONE", "IN_PROGRESS", "COMPLETED"},
         summary: Mitigation \cup {None}, at: Time]

NoWork == [exec |-> None, status |-> "NONE", summary |-> None, at |-> 0]

Event == [exec: Mitigation, status: EventStatus, at: Time]

PC == {"idle", "save", "announce", "load", "fetch", "defer", "reload", "finish",
       "drop", "end", "find", "list", "sync", "persist"}

\* What an invocation holds: its work item, its copy of META, the status it is
\* about to write, and the journal of the investigation as it was listed.
Run == [pc: PC, work: Work, snap: Item, goal: Status,
        revision: Revision, summaryAt: Time]

Idle == [pc |-> "idle", work |-> NoWork, snap |-> FirstItem, goal |-> "NONE",
         revision |-> 0, summaryAt |-> 0]

VARIABLES
    item,       \* the mitigation side of the META item
    work,       \* the MITIGATION items
    execution,  \* the provider: the state of every mitigation
    emitted,    \* the provider: events it has published
    summaries,  \* the provider: mitigations whose journal has its summary
    ownSummary, \* the provider: when the investigation's journal got one
    revision,   \* the provider: the revision of the investigation's journal
    clock,      \* the provider: its latest time
    run         \* the invocations

table == <<item, work>>
provider == <<execution, emitted, summaries, ownSummary, revision, clock>>
vars == <<table, provider, run>>

TypeOK ==
    /\ item \in Item
    /\ work \in [Mitigation -> Work]
    /\ execution \in [Mitigation -> EventStatus \cup {"NONE"}]
    /\ emitted \subseteq Event
    /\ summaries \subseteq Mitigation
    /\ ownSummary \in Time
    /\ revision \in Revision
    /\ clock \in Time
    /\ run \in [Worker -> Run]

Init ==
    /\ item = FirstItem
    /\ work = [e \in Mitigation |-> NoWork]
    /\ execution = [e \in Mitigation |-> "NONE"]
    /\ emitted = {}
    /\ summaries = {}
    /\ ownSummary = 0
    /\ revision = 0
    /\ clock = 1
    /\ run = [w \in Worker |-> Idle]

-----------------------------------------------------------------------------
(* The writes of META, each with the outcome merged into an earlier copy *)

\* Mistake: the mitigation is written without its outcome.
MergedNot(m, snap, shown) == m

Merged(m, snap, shown) == [m EXCEPT !.root = snap.root, !.shown = shown]

\* _handle_mitigation_event of a mitigation that goes on, or whose result is
\* still to be fetched: what the outcome shows is the status of the event.
Announced(m, snap, k) ==
    Merged([m EXCEPT !.status = IF k.status = "COMPLETED" THEN "FETCHING"
                                ELSE k.status,
                     !.terminal = FALSE, !.exec = k.exec,
                     !.summary = k.summary, !.at = k.at],
           snap, [status |-> k.status, terminal |-> FALSE, at |-> k.at])

\* _handle_mitigation_event of any other status; there is no summary.
Reported(m, snap, k, status) ==
    LET terminal == status \in {"FAILED", "CANCELED"} IN
    Merged([m EXCEPT !.status = status, !.terminal = terminal, !.exec = k.exec,
                     !.at = k.at],
           snap, [status |-> status, terminal |-> terminal, at |-> k.at])

\* A result keeps its execution and summary, a missing one does not have them.
Ended(m, snap, k, goal) ==
    Merged([m EXCEPT !.status = goal, !.terminal = TRUE, !.at = k.at,
                     !.exec = IF goal = "COMPLETED" THEN k.exec ELSE @,
                     !.summary = IF goal = "COMPLETED" THEN k.exec ELSE @],
           snap, [status |-> goal, terminal |-> TRUE, at |-> k.at])

\* _sync_journals: incident and root cause are projected anew.
Synced(m, snap, rev) ==
    [m EXCEPT !.revision = rev, !.root = rev, !.shown = snap.shown]

\* _persist_latest_mitigation: the investigation's own journal has a summary.
Backfilled(m, snap, at) ==
    Merged([m EXCEPT !.status = "COMPLETED", !.terminal = TRUE, !.exec = Own,
                     !.summary = Own, !.at = at],
           snap, [status |-> "COMPLETED", terminal |-> TRUE, at |-> at])

-----------------------------------------------------------------------------
(* Decisions *)

\* The copy of META is dropped where the code reads META again or is done.
UsesSnap == {"save", "announce", "end", "finish", "list", "sync", "persist"}

Go(w, r) ==
    run' = [run EXCEPT ![w] = IF r.pc \in UsesSnap THEN r
                              ELSE [r EXCEPT !.snap = FirstItem]]

Enter(w, pc) == Go(w, [run[w] EXCEPT !.pc = pc])

Normal(status) == IF status = "CANCELLED" THEN "CANCELED" ELSE status

\* Mistake: only what completed has a work item.
FirstStepWaiting(status) ==
    CASE status = "COMPLETED" -> "save"
      [] status = "IN_PROGRESS" -> "announce"
      [] OTHER -> "end"

\* The first write of _handle_mitigation_event.
FirstStep(status) ==
    IF status \in {"IN_PROGRESS", "COMPLETED"} THEN "save" ELSE "end"

\* An event that META is already past.
Overtaken(m, at) == m.at > at \/ (m.at = at /\ m.terminal)

\* Mistake: only a later time makes a work item stale.
StaleByTime(m, k) == m.at > k.at

\* _mitigation_work_is_stale.
Stale(m, k) ==
    \/ m.at > k.at
    \/ m.at = k.at /\ (m.exec # k.exec \/ m.terminal)

\* Mistake: a completed mitigation needs no summary.
FoundNothing(k) == TRUE

\* The journal of the execution has its mitigation summary.
Found(k) == k.exec \in summaries

\* The condition of put_mitigation_work and delete_mitigation_work.
Unchanged(k) ==
    /\ work[k.exec].status # "NONE"
    /\ work[k.exec].summary = k.summary
    /\ work[k.exec].at = k.at

\* Whether a listed summary is news to a copy of META.
Newer(m, at) ==
    /\ at # 0
    /\ ~(m.terminal /\ m.summary = Own)
    /\ ~(m.at > at)

-----------------------------------------------------------------------------
(* _handle_mitigation_event *)

\* mark_event and find_by_task.  News may come under several event ids.
Deliver(w, e) ==
    LET status == Normal(e.status)
        saved == status \in {"IN_PROGRESS", "COMPLETED"}
        k == [exec |-> e.exec, at |-> e.at,
              status |-> IF saved THEN status ELSE "NONE",
              summary |-> IF status = "COMPLETED" THEN e.exec ELSE None]
    IN
    /\ run[w].pc = "idle"
    /\ e \in emitted
    /\ Go(w, IF Overtaken(item, e.at) THEN Idle
             ELSE [Idle EXCEPT !.pc = FirstStep(status), !.work = k,
                               !.snap = item, !.goal = IF saved THEN "NONE" ELSE status])
    /\ UNCHANGED <<table, provider>>

SaveWork(w) ==
    LET k == run[w].work IN
    /\ run[w].pc = "save"
    /\ work' = [work EXCEPT ![k.exec] = k]
    /\ Enter(w, "announce")
    /\ UNCHANGED <<item, provider>>

Announce(w) ==
    /\ run[w].pc = "announce"
    /\ item' = Announced(item, run[w].snap, run[w].work)
    /\ Enter(w, "load")
    /\ UNCHANGED <<work, provider>>

Report(w) ==
    LET r == run[w] IN
    /\ r.pc = "end"
    /\ item' = Reported(item, r.snap, r.work, r.goal)
    /\ Go(w, [r EXCEPT !.pc = "find", !.goal = "NONE"])
    /\ UNCHANGED <<work, provider>>

\* The work item of a mitigation that failed is of no use any more.
FindWork(w) ==
    LET k == work[run[w].work.exec] IN
    /\ run[w].pc = "find"
    /\ Go(w, IF k.status = "NONE" THEN Idle
             ELSE [run[w] EXCEPT !.pc = "drop", !.work = k])
    /\ UNCHANGED <<table, provider>>

-----------------------------------------------------------------------------
(* _reconcile_mitigation_work *)

\* reconcile_due: one MITIGATION item, read when the sweep began.
Sweep(w, e) ==
    /\ run[w].pc = "idle"
    /\ work[e].status # "NONE"
    /\ Go(w, [Idle EXCEPT !.pc = "load", !.work = work[e]])
    /\ UNCHANGED <<table, provider>>

\* Stale work is dropped, overdue work is given up, other work is fetched.
Load(w) ==
    LET r == run[w] IN
    /\ r.pc = "load"
    /\ IF Stale(item, r.work) THEN Enter(w, "drop")
       ELSE \/ Deadlines /\ Go(w, [r EXCEPT !.pc = "reload", !.goal = "UNAVAILABLE"])
            \/ Enter(w, "fetch")
    /\ UNCHANGED <<table, provider>>

Fetched(w) ==
    LET r == run[w] IN
    /\ r.pc = "fetch"
    /\ Found(r.work)
    /\ Go(w, [r EXCEPT !.pc = "reload", !.goal = "COMPLETED"])
    /\ UNCHANGED <<table, provider>>

\* The summary is not there yet, or the provider raised.
FetchFailed(w) ==
    /\ run[w].pc = "fetch"
    /\ Enter(w, "defer")
    /\ UNCHANGED <<table, provider>>

Defer(w) ==
    LET k == run[w].work IN
    /\ run[w].pc = "defer"
    /\ work' = IF Unchanged(k) THEN [work EXCEPT ![k.exec] = k] ELSE work
    /\ Go(w, Idle)
    /\ UNCHANGED <<item, provider>>

Reload(w) ==
    LET r == run[w] IN
    /\ r.pc = "reload"
    /\ Go(w, IF Stale(item, r.work) THEN [r EXCEPT !.pc = "drop"]
             ELSE [r EXCEPT !.pc = "finish", !.snap = item])
    /\ UNCHANGED <<table, provider>>

Finish(w) ==
    LET r == run[w] IN
    /\ r.pc = "finish"
    /\ item' = Ended(item, r.snap, r.work, r.goal)
    /\ Enter(w, "drop")
    /\ UNCHANGED <<work, provider>>

\* delete_mitigation_work.
Drop(w) ==
    LET k == run[w].work IN
    /\ run[w].pc = "drop"
    /\ work' = IF Unchanged(k) THEN [work EXCEPT ![k.exec] = NoWork] ELSE work
    /\ Go(w, Idle)
    /\ UNCHANGED <<item, provider>>

-----------------------------------------------------------------------------
(* refresh, reconcile and _finish_results: the investigation's own journal *)

StartSync(w) ==
    /\ run[w].pc = "idle"
    /\ Go(w, [Idle EXCEPT !.pc = "list", !.snap = item])
    /\ UNCHANGED <<table, provider>>

AfterSync(r, m) ==
    IF Newer(m, r.summaryAt)
    THEN [r EXCEPT !.pc = "persist", !.snap = m, !.revision = 0]
    ELSE Idle

\* A revision that META already has is not projected again.
ListJournal(w) ==
    LET r == [run[w] EXCEPT !.revision = revision, !.summaryAt = ownSummary] IN
    /\ run[w].pc = "list"
    /\ Go(w, IF revision # r.snap.revision THEN [r EXCEPT !.pc = "sync"]
             ELSE AfterSync(r, r.snap))
    /\ UNCHANGED <<table, provider>>

Sync(w) ==
    LET r == run[w] IN
    /\ r.pc = "sync"
    /\ item' = Synced(item, r.snap, r.revision)
    /\ Go(w, AfterSync(r, item'))
    /\ UNCHANGED <<work, provider>>

Persist(w) ==
    LET r == run[w] IN
    /\ r.pc = "persist"
    /\ item' = Backfilled(item, r.snap, r.summaryAt)
    /\ Go(w, Idle)
    /\ UNCHANGED <<work, provider>>

Crash(w) ==
    /\ run[w].pc # "idle"
    /\ Go(w, Idle)
    /\ UNCHANGED <<table, provider>>

-----------------------------------------------------------------------------
(* The provider *)

\* A mitigation starts or ends, and an event says so.
Progress(e, status) ==
    /\ execution[e] = IF status = "IN_PROGRESS" THEN "NONE" ELSE "IN_PROGRESS"
    /\ clock < MaxTime
    /\ clock' = clock + 1
    /\ execution' = [execution EXCEPT ![e] = status]
    /\ emitted' = emitted \cup {[exec |-> e, status |-> status, at |-> clock']}
    /\ UNCHANGED <<table, summaries, ownSummary, revision, run>>

\* A summary can be readable before or after the event that announces it.
WriteSummary(e) ==
    /\ execution[e] \in {"IN_PROGRESS", "COMPLETED"}
    /\ summaries' = summaries \cup {e}
    /\ UNCHANGED <<table, execution, emitted, ownSummary, revision, clock, run>>

\* The investigation's journal grows, perhaps by a mitigation summary.
WriteJournal ==
    /\ revision < MaxRevision
    /\ revision' = revision + 1
    /\ ownSummary' \in {ownSummary, IF ownSummary = 0 THEN clock ELSE ownSummary}
    /\ UNCHANGED <<table, execution, emitted, summaries, clock, run>>

-----------------------------------------------------------------------------

Step(w) ==
    \/ SaveWork(w) \/ Announce(w) \/ Report(w) \/ FindWork(w)
    \/ Load(w) \/ Fetched(w) \/ FetchFailed(w) \/ Defer(w)
    \/ Reload(w) \/ Finish(w) \/ Drop(w)
    \/ ListJournal(w) \/ Sync(w) \/ Persist(w)

Uncut ==
    \/ \E w \in Worker :
          \/ \E e \in Event : Deliver(w, e)
          \/ \E e \in Mitigation : Sweep(w, e)
          \/ StartSync(w)
          \/ Step(w)
    \/ \E e \in Mitigation, status \in EventStatus : Progress(e, status)
    \/ \E e \in Mitigation : WriteSummary(e)
    \/ WriteJournal

Next == Uncut \/ \E w \in Worker : Crash(w)

Spec == Init /\ [][Next]_vars

(***************************************************************************)
(* Fairness, once crashes have stopped: an invocation that was started     *)
(* goes on, the sweep keeps coming back to every work item, and a summary  *)
(* is some time found or its deadline passes.                              *)
(***************************************************************************)
For(e, w) == run[w].work.exec = e

Fairness ==
    /\ \A w \in Worker : WF_vars(Step(w))
    /\ \A e \in Mitigation :
        /\ SF_vars(\E w \in Worker : Sweep(w, e))
        /\ SF_vars(\E w \in Worker : For(e, w) /\ Load(w) /\ run'[w].pc # "fetch")

LiveSpec == Spec /\ <>[][Uncut]_vars /\ Fairness

-----------------------------------------------------------------------------
(* What every interleaving preserves *)

\* A mitigation whose status is COMPLETED has a summary in the journal META
\* names: a completion event alone, early, repeated or out of order, and a copy
\* of META that other writers have overtaken, never make it so.
CompletedHasSummary ==
    item.status = "COMPLETED" =>
        \/ item.summary \in summaries
        \/ item.summary = Own /\ ownSummary # 0

-----------------------------------------------------------------------------
(* What needs invocations that do not overlap, crashes included *)

\* A mitigation META shows as going on has a work item, so that the sweep ends
\* it even if no further event arrives, or is still in the hands of a handler.
Pursued ==
    item.status # "NONE" /\ ~item.terminal =>
        \/ work[item.exec].status # "NONE"
        \/ \E w \in Worker : run[w].work.exec = item.exec

\* The parts of the outcome are those the other attributes of META speak of:
\* a result that counts as stored is shown, and so is the latest root cause.
OutcomeAgrees ==
    /\ item.root = item.revision
    /\ item.shown.terminal = item.terminal
    /\ item.shown.at = item.at
    /\ item.shown.status = IF item.status = "FETCHING" THEN "COMPLETED"
                           ELSE item.status

\* The mitigation shown is never replaced by an older one, and a terminal one
\* only ever by one that is strictly newer, unless a summary was found.
NeverOlder ==
    [][ /\ item'.at >= item.at
        /\ item.terminal /\ item'.status # item.status =>
             item'.at > item.at \/ item'.status = "COMPLETED" ]_vars

\* Every mitigation that was announced comes to an end.
MitigationEnds == item.status # "NONE" /\ ~item.terminal ~> item.terminal

=============================================================================
