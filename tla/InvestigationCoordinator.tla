--------------------- MODULE InvestigationCoordinator ---------------------
(***************************************************************************)
(* The AWS DevOps Agent investigation coordinator                          *)
(* (src/src/lambda/mcp/shared/devops_agent_coordinator.py) as the set of   *)
(* Lambda invocations that run it: the Health stream handler, the gateway  *)
(* tool, the EventBridge task event handler, the scheduled sweep and the   *)
(* refresh requested from the browser.                                     *)
(*                                                                         *)
(* All durable state is in one DynamoDB table and at the provider.  Every  *)
(* action of an invocation is one call to either of them, so invocations   *)
(* interleave between any two calls and act on META items they read        *)
(* earlier (snap).  An invocation may stop between two calls (timeout).    *)
(*                                                                         *)
(* Clocks are not modelled: whether an age limit or a deadline has passed  *)
(* when the code compares it is a choice.  The journal text, the outcome   *)
(* projection and the mitigation attributes of META are left out.          *)
(***************************************************************************)
EXTENDS Naturals, FiniteSets

CONSTANTS
    Worker,           \* Lambda invocations that can be in flight together
    Investigation,    \* investigation ids (uuid4) that can be drawn
    HealthEvent,      \* Health events, automatic or asked for
    Issue,            \* operational issues, only ever asked for
    Handlers,         \* the entry points in use
    ExternalTask,     \* provider tasks this system did not create
    LinkedTask,       \* tasks the provider may find to duplicate another
    ActiveStatus,     \* provider statuses of a task that is still going on
    MaxConcurrency,   \* CoordinatorConfig.max_concurrency
    DailyBudget,      \* CoordinatorConfig.automatic_daily_budget
    StaleReads,       \* get_item may return the version read before
    NoInv, NoTask     \* absent investigation id, absent provider task id

Source == HealthEvent \cup Issue

\* create_backlog_task is idempotent in a clientToken derived from the
\* investigation id and its constant request, so the task it creates is named
\* by the investigation.
Task == Investigation \cup ExternalTask

\* An imported task is claimed under the source key DEVOPS_AGENT#<task id>.
SourceKey == Source \cup Task

ASSUME ConstantsOK ==
    /\ IsFiniteSet(Investigation)
    /\ MaxConcurrency \in Nat \ {0}
    /\ DailyBudget \in Nat \ {0}
    /\ StaleReads \in BOOLEAN
    /\ LinkedTask \subseteq Task
    /\ ActiveStatus \subseteq {"IN_PROGRESS", "PENDING_CUSTOMER_APPROVAL"}
    /\ Source \cap Task = {}
    /\ Investigation \cap ExternalTask = {}
    /\ Handlers \subseteq {"stream", "tool", "event", "sweep", "refresh"}
    /\ NoInv \notin Investigation
    /\ NoTask \notin Task

-----------------------------------------------------------------------------
(* States, statuses and records *)

Pending == {"PENDING_ACCOUNT_ASSOCIATION", "PENDING_CONCURRENCY_LIMIT",
            "PENDING_RATE_LIMIT"}

Terminal == {"COMPLETED", "FAILED"}

\* Mistake: a state the sweep does not query.
DueStatesNoExpiring ==
    Pending \cup {"CREATING", "RUNNING", "FETCHING_RESULTS",
                  "WAITING_CUSTOMER_APPROVAL"}

\* DUE_STATES, what the sweep queries; MITIGATION_FETCHING is no META state.
DueStates == Pending \cup {"CREATING", "RUNNING", "FETCHING_RESULTS",
                           "WAITING_CUSTOMER_APPROVAL", "EXPIRING"}

State == DueStates \cup Terminal

\* FAILED stands for FAILED, TIMED_OUT, CANCELED and SKIPPED.
TerminalStatus == {"COMPLETED", "FAILED"}

Status == {"ABSENT", "LINKED"} \cup TerminalStatus \cup ActiveStatus

WorkflowState(status) ==
    CASE status = "PENDING_CUSTOMER_APPROVAL" -> "WAITING_CUSTOMER_APPROVAL"
      [] status = "COMPLETED" -> "FETCHING_RESULTS"
      [] status = "FAILED" -> "FAILED"
      [] OTHER -> "RUNNING"

\* The META item.  due: nextReconcileAt is present, so the item is in
\* WorkIndex; charged: automaticBudgetConsumed; fetching:
\* resultFetchStartedAt is present; linked: linkedInvestigationId.
Meta == [state: State \cup {"ABSENT"}, source: SourceKey \cup {NoInv},
         task: Task \cup {NoTask}, lease: BOOLEAN, due: BOOLEAN,
         auto: BOOLEAN, charged: BOOLEAN, fetching: BOOLEAN,
         linked: Investigation \cup {NoInv}]

NoMeta == [state |-> "ABSENT", source |-> NoInv, task |-> NoTask,
           lease |-> FALSE, due |-> FALSE, auto |-> FALSE,
           charged |-> FALSE, fetching |-> FALSE, linked |-> NoInv]

NewMeta(source, auto) ==
    [NoMeta EXCEPT !.state = "PENDING_ACCOUNT_ASSOCIATION", !.due = TRUE,
                   !.source = source, !.auto = auto]

ImportedMeta(task, status) ==
    [NoMeta EXCEPT !.state = WorkflowState(status), !.due = TRUE,
                   !.source = task, !.task = task]

\* Mistake: a rate-limited investigation left in CREATING without its lease.
GoalStateCreating ==
    [rate_limited  |-> "CREATING", fetching  |-> "FETCHING_RESULTS",
     failing       |-> "FAILED",   failed    |-> "FAILED",
     create_failed |-> "FAILED",   completed |-> "COMPLETED",
     linked        |-> "COMPLETED"]

\* The values a release or a terminal update writes, by the reason for it.
GoalState ==
    [rate_limited  |-> "PENDING_RATE_LIMIT", fetching  |-> "FETCHING_RESULTS",
     failing       |-> "FAILED",             failed    |-> "FAILED",
     create_failed |-> "FAILED",             completed |-> "COMPLETED",
     linked        |-> "COMPLETED"]

Goal == DOMAIN GoalState

\* Mistake: the rate-limit release removes nextReconcileAt.
KeepsDueNotRateLimited == {"fetching", "failing"}

\* keep_due=True, with nextReconcileAt among the values.
KeepsDue == {"rate_limited", "fetching", "failing"}

\* EventBridge task events; linked: detail-type "Investigation Linked".
Event == [task: Task, linked: BOOLEAN]

PC == {"idle", "pointed", "claim", "start", "diagnose", "capacity", "budget",
       "reread", "create", "ambiguous", "release", "recheck", "overwrite",
       "refetch", "persist", "fetch", "wait", "reload", "settle", "point",
       "get", "lookup", "read_primary", "adopt", "cancel", "expire",
       "find", "import", "probe", "note", "recover"}

\* What an invocation holds in memory.  snap: its copy of the META item;
\* task, status: the last provider task read; goal: the release or terminal
\* update under way; target: where the source pointer goes afterwards;
\* sweep, event: the handler that runs it, which decides what an exception does.
Run == [pc: PC, inv: Investigation \cup {NoInv}, snap: Meta,
        task: Task \cup {NoTask}, status: Status, goal: Goal,
        target: Investigation \cup {NoInv}, sweep: BOOLEAN,
        event: SUBSET Event]

Idle == [pc |-> "idle", inv |-> NoInv, snap |-> NoMeta, task |-> NoTask,
         status |-> "ABSENT", goal |-> "failed", target |-> NoInv,
         sweep |-> FALSE, event |-> {}]

VARIABLES
    meta,            \* INV#<id> / META items
    pointer,         \* SOURCE#<hash> / POINTER items
    active,          \* CAPACITY#<space> / COUNTER.activeCount
    automaticCount,  \* BUDGET#<day> / COUNTER.automaticCount of today
    processed,       \* EVENT#<id> / PROCESSED markers
    tasks, primary,  \* the provider: task statuses and primaryTaskId
    run              \* the invocations

store == <<meta, pointer, active, automaticCount, processed>>
provider == <<tasks, primary>>
vars == <<store, provider, run>>

TypeOK ==
    /\ meta \in [Investigation -> Meta]
    /\ pointer \in [SourceKey -> Investigation \cup {NoInv}]
    /\ active \in Nat
    /\ automaticCount \in Nat
    /\ processed \subseteq Event
    /\ tasks \in [Task -> Status]
    /\ primary \in [Task -> Task \cup {NoTask}]
    /\ run \in [Worker -> Run]

Init ==
    /\ meta = [i \in Investigation |-> NoMeta]
    /\ pointer = [s \in SourceKey |-> NoInv]
    /\ active = 0
    /\ automaticCount = 0
    /\ processed = {}
    /\ tasks = [t \in Task |-> "ABSENT"]
    /\ primary = [t \in Task |-> NoTask]
    /\ run = [w \in Worker |-> Idle]

-----------------------------------------------------------------------------
(* Local control: where an invocation goes next *)

\* Where the snapshot is still read, other than by a stale get_item.
UsesSnap == {"claim", "start", "diagnose", "create", "get", "lookup",
             "read_primary", "adopt", "probe", "fetch"}

\* An invocation keeps the locals that it still reads.
Kept(r) ==
    CASE r.pc = "idle" -> Idle
      [] r.pc \in UsesSnap \/ (StaleReads /\ r.pc # "idle") -> r
      [] OTHER -> [r EXCEPT !.snap = NoMeta]

Go(w, r) == run' = [run EXCEPT ![w] = Kept(r)]

Enter(w, pc) == Go(w, [run[w] EXCEPT !.pc = pc])

\* A get_item that is not strongly consistent can return what the invocation
\* had already seen.
Read(w) ==
    {meta[run[w].inv]} \cup (IF StaleReads THEN {run[w].snap} ELSE {})

\* reconcile: the dispatch on the state of the snapshot.
Dispatch(m) ==
    CASE m.state \in Terminal \cup {"ABSENT"} -> "idle"
      [] m.state \in Pending -> "start"
      [] m.state \notin Pending \cup Terminal /\ m.task # NoTask -> "get"
      [] m.state = "CREATING" /\ m.task = NoTask -> "create"
      [] OTHER -> "start"

Reconcile(r, m) == [r EXCEPT !.pc = Dispatch(m), !.snap = m]

\* Mistake: the terminal values are written without giving the lease back.
CloseKeepingLease(r, m, goal, target) ==
    [r EXCEPT !.pc = "settle", !.snap = m, !.goal = goal, !.target = target]

\* _terminal and _reuse_linked_investigation: release the lease the snapshot
\* shows, or else just write the terminal values.
Close(r, m, goal, target) ==
    [r EXCEPT !.pc = IF m.lease THEN "release" ELSE "settle",
              !.snap = m, !.goal = goal, !.target = target]

\* _finish_results once the lease is out of the way.
Collect(r, m) ==
    IF r.status = "COMPLETED"
    THEN [r EXCEPT !.pc = "fetch", !.snap = m]
    ELSE Close(r, m, "failed", r.inv)

\* _finish_results.
Finish(r, m) ==
    IF m.lease
    THEN [r EXCEPT !.pc = "release", !.snap = m,
                   !.goal = IF r.status = "COMPLETED" THEN "fetching"
                                                      ELSE "failing"]
    ELSE Collect(r, m)

\* reconcile once the task to follow is known; aged: older than the limit.
Proceed(r, m, aged) ==
    IF r.status \in TerminalStatus THEN Finish(r, m)
    ELSE [r EXCEPT !.snap = m,
                   !.pc = CASE ~aged -> "persist"
                            [] aged /\ m.state = "EXPIRING" -> "expire"
                            [] aged /\ m.state # "EXPIRING" -> "cancel"]

\* An exception: the sweep and the event handler catch it and write.
Raised(r) == [r EXCEPT !.pc = IF r.sweep \/ r.event # {} THEN "recover"
                                                        ELSE "idle"]

AfterRelease(goal) ==
    CASE goal = "rate_limited" -> "idle"
      [] goal \in {"fetching", "failing"} -> "refetch"
      [] OTHER -> "point"

\* Mistake: the duplicate does not record what it is linked to.
WrittenUnlinked(m, r) ==
    [m EXCEPT !.state = GoalState[r.goal], !.due = r.goal \in KeepsDue]

\* The values of a release or terminal update applied to a META item.
Written(m, r) ==
    [m EXCEPT !.state = GoalState[r.goal],
              !.due = r.goal \in KeepsDue,
              !.linked = IF r.goal = "linked" THEN r.target ELSE @]

\* update_meta, and the updates of META in a transaction.
Updated(i, m) == [meta EXCEPT ![i] = m]

-----------------------------------------------------------------------------
(* Invocations start *)

\* request_health and request_operational_issue read the source pointer.  The
\* Health stream is automatic and returns if the source has one; the gateway
\* tool is not automatic and rechecks a pending investigation.
Request(w, s, auto) ==
    /\ run[w].pc = "idle"
    /\ IF auto THEN s \in HealthEvent /\ "stream" \in Handlers
               ELSE "tool" \in Handlers
    /\ IF pointer[s] = NoInv
       THEN Go(w, [Idle EXCEPT !.pc = "claim", !.snap = NewMeta(s, auto)])
       ELSE /\ ~auto
            /\ Go(w, [Idle EXCEPT !.pc = "pointed", !.inv = pointer[s]])
    /\ UNCHANGED <<store, provider>>

\* The recheck reads META and reconciles it if it is pending.
ReadPointed(w) ==
    /\ run[w].pc = "pointed"
    /\ LET m == meta[run[w].inv]
       IN Go(w, IF m.state \in Pending THEN Reconcile(run[w], m) ELSE Idle)
    /\ UNCHANGED <<store, provider>>

\* Mistake: the pointer is put without a condition.
UnclaimedIgnored(s) == TRUE

Unclaimed(s) == pointer[s] = NoInv

\* Mistake: the pointer is put before META, in a call of its own.
PutPointerFirst(i, m) == meta

Put(i, m) == [meta EXCEPT ![i] = m]

\* claim_source: META and the pointer, both or neither.  Whoever finds the
\* source claimed returns the winner's item.
ClaimSource(w) ==
    LET r == run[w]
        s == r.snap.source
    IN
    /\ r.pc = "claim"
    /\ IF ~Unclaimed(s)
       THEN Go(w, Idle) /\ UNCHANGED <<meta, pointer>>
       ELSE \E i \in Investigation :
              /\ meta[i] = NoMeta
              /\ meta' = Put(i, r.snap)
              /\ pointer' = [pointer EXCEPT ![s] = i]
              /\ LET claimed == [r EXCEPT !.inv = i] IN
                 Go(w, CASE r.snap.task = NoTask ->
                              [claimed EXCEPT !.pc = "start"]
                         [] r.snap.task # NoTask /\ r.status \in TerminalStatus ->
                              Finish(claimed, r.snap)
                         [] OTHER -> Idle)
    /\ UNCHANGED <<active, automaticCount, processed, provider>>

\* reconcile_due: one due item, read when the sweep began.
Sweep(w, i) ==
    /\ run[w].pc = "idle" /\ "sweep" \in Handlers
    /\ meta[i].due /\ meta[i].state \in DueStates
    /\ Go(w, Reconcile([Idle EXCEPT !.inv = i, !.sweep = TRUE], meta[i]))
    /\ UNCHANGED <<store, provider>>

\* refresh: the browser asks for one investigation, due or not.
Refresh(w, i) ==
    /\ run[w].pc = "idle" /\ "refresh" \in Handlers
    /\ meta[i].state \in DueStates
    /\ Go(w, Reconcile([Idle EXCEPT !.inv = i], meta[i]))
    /\ UNCHANGED <<store, provider>>

-----------------------------------------------------------------------------
(* _start: coverage, then the lease *)

NotCovered(w) ==
    LET r == run[w] IN
    /\ r.pc = "start"
    /\ meta' = Updated(r.inv, [meta[r.inv] EXCEPT
                    !.state = "PENDING_ACCOUNT_ASSOCIATION", !.due = TRUE])
    /\ Go(w, Idle)
    /\ UNCHANGED <<pointer, active, automaticCount, processed, provider>>

\* Mistakes: charged again at every lease; not charged after a deferral.
ConsumesBudgetAgain(r) == r.snap.auto

ConsumesBudgetFirst(r) ==
    r.snap.auto /\ r.snap.state = "PENDING_ACCOUNT_ASSOCIATION"

ConsumesBudget(r) == r.snap.auto /\ ~r.snap.charged

\* Mistake: no limit on the counter.
LeaseFreeNoLimit(r) ==
    /\ ~meta[r.inv].lease
    /\ ConsumesBudget(r) => automaticCount < DailyBudget

\* The transaction of acquire_lease can commit.
LeaseFree(r) ==
    /\ active < MaxConcurrency
    /\ ~meta[r.inv].lease
    /\ ConsumesBudget(r) => automaticCount < DailyBudget

AcquireLease(w) ==
    LET r == run[w] IN
    /\ r.pc = "start"
    /\ LeaseFree(r)
    /\ meta' = Updated(r.inv, [meta[r.inv] EXCEPT
                    !.lease = TRUE, !.state = "CREATING", !.due = TRUE,
                    !.charged = @ \/ ConsumesBudget(r)])
    /\ active' = active + 1
    /\ automaticCount' = automaticCount + (IF ConsumesBudget(r) THEN 1 ELSE 0)
    /\ Enter(w, "reread")
    /\ UNCHANGED <<pointer, processed, provider>>

\* DynamoDB also cancels a transaction that meets another one on an item.
Contended(w) == \E v \in Worker \ {w} : run[v].pc \in {"start", "release"}

LeaseRefused(w) ==
    /\ run[w].pc = "start"
    /\ ~LeaseFree(run[w]) \/ Contended(w)
    /\ Enter(w, "diagnose")
    /\ UNCHANGED <<store, provider>>

\* After the cancelled transaction: META, then the capacity counter, decide
\* which condition is blamed.
Diagnose(w) ==
    /\ run[w].pc = "diagnose"
    /\ \E m \in Read(w) :
         Enter(w, CASE m.lease -> "idle"
                    [] ~m.lease /\ active < MaxConcurrency
                         /\ ConsumesBudget(run[w]) -> "budget"
                    [] OTHER -> "capacity")
    /\ UNCHANGED <<store, provider>>

Defer(w) ==
    LET r == run[w] IN
    /\ r.pc \in {"capacity", "budget"}
    /\ meta' = Updated(r.inv, [meta[r.inv] EXCEPT
                    !.due = TRUE,
                    !.state = IF r.pc = "capacity" THEN "PENDING_CONCURRENCY_LIMIT"
                                                   ELSE "PENDING_RATE_LIMIT"])
    /\ Go(w, Idle)
    /\ UNCHANGED <<pointer, active, automaticCount, processed, provider>>

Reread(w) ==
    /\ run[w].pc = "reread"
    /\ \E m \in Read(w) : Go(w, [run[w] EXCEPT !.pc = "create", !.snap = m])
    /\ UNCHANGED <<store, provider>>

-----------------------------------------------------------------------------
(* _create and _persist_task *)

\* The provider has, or now gets, the task of this investigation.
Submitted(i) ==
    \/ tasks[i] # "ABSENT" /\ UNCHANGED tasks
    \/ tasks[i] = "ABSENT"
       /\ \E st \in ActiveStatus : tasks' = [tasks EXCEPT ![i] = st]

CreateOk(w) ==
    LET r == run[w] IN
    /\ r.pc = "create"
    /\ Submitted(r.inv)
    /\ Go(w, [r EXCEPT !.pc = "persist", !.task = r.inv,
                       !.status = tasks'[r.inv]])
    /\ UNCHANGED <<store, primary>>

\* AmbiguousCreateError: the request may have reached the provider.
CreateAmbiguous(w) ==
    /\ run[w].pc = "create"
    /\ Submitted(run[w].inv) \/ UNCHANGED tasks
    /\ Enter(w, "ambiguous")
    /\ UNCHANGED <<store, primary>>

Ambiguous(w) ==
    LET r == run[w] IN
    /\ r.pc = "ambiguous"
    /\ meta' = Updated(r.inv, [meta[r.inv] EXCEPT
                    !.state = "CREATING", !.due = TRUE])
    /\ Go(w, Idle)
    /\ UNCHANGED <<pointer, active, automaticCount, processed, provider>>

\* ProviderRateLimitError, or any other error, which is terminal.
CreateRejected(w) ==
    LET r == run[w] IN
    /\ r.pc = "create"
    /\ Go(w, [r EXCEPT !.pc = "release", !.goal = "rate_limited"])
         \/ Go(w, Close(r, r.snap, "create_failed", r.inv))
    /\ UNCHANGED <<store, provider>>

PersistTask(w) ==
    LET r == run[w] IN
    /\ r.pc = "persist"
    /\ meta' = Updated(r.inv, [meta[r.inv] EXCEPT
                    !.task = r.task, !.state = WorkflowState(r.status),
                    !.due = TRUE])
    /\ Go(w, IF r.status \in TerminalStatus THEN Finish(r, meta'[r.inv])
                                            ELSE Idle)
    /\ UNCHANGED <<pointer, active, automaticCount, processed, provider>>

-----------------------------------------------------------------------------
(* transition_and_release and the terminal writes *)

CanRelease(i) == meta[i].lease /\ active > 0

\* Mistake: the counter is left as it is.
FreedNone == active

Freed == active - 1

\* META gives up the lease and the counter goes down in one transaction.
Release(w) ==
    LET r == run[w] IN
    /\ r.pc = "release"
    /\ CanRelease(r.inv)
    /\ meta' = Updated(r.inv, [Written(meta[r.inv], r) EXCEPT !.lease = FALSE])
    /\ active' = Freed
    /\ Enter(w, AfterRelease(r.goal))
    /\ UNCHANGED <<pointer, automaticCount, processed, provider>>

ReleaseRefused(w) ==
    /\ run[w].pc = "release"
    /\ ~CanRelease(run[w].inv) \/ Contended(w)
    /\ Enter(w, "recheck")
    /\ UNCHANGED <<store, provider>>

\* Cancelled: if META still shows a lease the exception goes up.
Recheck(w) ==
    /\ run[w].pc = "recheck"
    /\ \E m \in Read(w) :
         Go(w, IF m.lease THEN Raised(run[w])
                          ELSE [run[w] EXCEPT !.pc = "overwrite"])
    /\ UNCHANGED <<store, provider>>

\* Otherwise the values are written without a condition.
Overwrite(w) ==
    LET r == run[w] IN
    /\ r.pc = "overwrite"
    /\ meta' = Updated(r.inv, [Written(meta[r.inv], r) EXCEPT !.lease = FALSE])
    /\ Enter(w, AfterRelease(r.goal))
    /\ UNCHANGED <<pointer, active, automaticCount, processed, provider>>

\* A terminal write for a snapshot without a lease.
Settle(w) ==
    LET r == run[w] IN
    /\ r.pc = "settle"
    /\ meta' = Updated(r.inv, Written(meta[r.inv], r))
    /\ Enter(w, "point")
    /\ UNCHANGED <<pointer, active, automaticCount, processed, provider>>

\* update_pointer; _create raises after it has recorded CREATE_FAILED.
UpdatePointer(w) ==
    LET r == run[w] IN
    /\ r.pc = "point"
    /\ pointer' = [pointer EXCEPT ![meta[r.inv].source] = r.target]
    /\ Go(w, IF r.goal = "create_failed" THEN Raised(r) ELSE Idle)
    /\ UNCHANGED <<meta, active, automaticCount, processed, provider>>

-----------------------------------------------------------------------------
(* _finish_results: the summary of a completed task *)

Refetch(w) ==
    /\ run[w].pc = "refetch"
    /\ \E m \in Read(w) : Go(w, Collect(run[w], m))
    /\ UNCHANGED <<store, provider>>

\* _sync_journals replaces the snapshot when it stores a new revision; then
\* the summary is there, or missing with or without time left.
SummaryFound(w) ==
    LET r == run[w] IN
    /\ r.pc = "fetch"
    /\ \E m \in {r.snap, meta[r.inv]} :
         Go(w, [r EXCEPT !.pc = "reload", !.snap = m])
    /\ UNCHANGED <<store, provider>>

SummaryMissing(w) ==
    /\ run[w].pc = "fetch"
    /\ Enter(w, "wait")
    /\ UNCHANGED <<store, provider>>

SummaryOverdue(w) ==
    LET r == run[w] IN
    /\ r.pc = "fetch"
    /\ r.snap.fetching
    /\ \E m \in {r.snap, meta[r.inv]} : Go(w, Close(r, m, "failed", r.inv))
    /\ UNCHANGED <<store, provider>>

Wait(w) ==
    LET r == run[w] IN
    /\ r.pc = "wait"
    /\ meta' = Updated(r.inv, [meta[r.inv] EXCEPT
                    !.state = "FETCHING_RESULTS", !.due = TRUE, !.fetching = TRUE])
    /\ Go(w, Idle)
    /\ UNCHANGED <<pointer, active, automaticCount, processed, provider>>

Reload(w) ==
    /\ run[w].pc = "reload"
    /\ \E m \in Read(w) : Go(w, Close(run[w], m, "completed", run[w].inv))
    /\ UNCHANGED <<store, provider>>

-----------------------------------------------------------------------------
(* reconcile of an investigation that has a provider task *)

\* The task this system finds under an id: TaskIdIndex with Limit=1.
KnownBy(t) == {i \in Investigation : meta[i].task = t}

GetTask(w) ==
    LET r == run[w]
        t == r.snap.task
        got == [r EXCEPT !.task = t, !.status = tasks[t]]
    IN
    /\ r.pc = "get"
    /\ IF tasks[t] = "LINKED"
       THEN Go(w, [got EXCEPT !.pc = "lookup", !.task = primary[t]])
       ELSE \E aged \in BOOLEAN : Go(w, Proceed(got, r.snap, aged))
    /\ UNCHANGED <<store, provider>>

\* A primary that is known here ends the duplicate.
LookupPrimary(w) ==
    LET r == run[w] IN
    /\ r.pc = "lookup"
    /\ IF KnownBy(r.task) = {}
       THEN Enter(w, "read_primary")
       ELSE \E j \in KnownBy(r.task) : Go(w, Close(r, r.snap, "linked", j))
    /\ UNCHANGED <<store, provider>>

ReadPrimary(w) ==
    LET r == run[w] IN
    /\ r.pc = "read_primary"
    /\ Go(w, [r EXCEPT !.pc = "adopt", !.status = tasks[r.task]])
    /\ UNCHANGED <<store, provider>>

\* An unknown one is followed instead of the linked task.  The state compared
\* with EXPIRING stays the one of the first snapshot.
AdoptPrimary(w) ==
    LET r == run[w] IN
    /\ r.pc = "adopt"
    /\ meta' = Updated(r.inv, [meta[r.inv] EXCEPT !.task = r.task])
    /\ \E aged \in BOOLEAN :
         Go(w, Proceed(r, [meta'[r.inv] EXCEPT !.state = r.snap.state], aged))
    /\ UNCHANGED <<pointer, active, automaticCount, processed, provider>>

\* The provider may take a while to act on the cancellation.
CancelTask(w) ==
    LET r == run[w] IN
    /\ r.pc = "cancel"
    /\ \/ UNCHANGED tasks
       \/ /\ tasks[r.task] \in ActiveStatus
          /\ tasks' = [tasks EXCEPT ![r.task] = "FAILED"]
    /\ Enter(w, "expire")
    /\ UNCHANGED <<store, primary>>

Expire(w) ==
    LET r == run[w] IN
    /\ r.pc = "expire"
    /\ meta' = Updated(r.inv, [meta[r.inv] EXCEPT
                    !.state = "EXPIRING", !.due = TRUE])
    /\ Go(w, Idle)
    /\ UNCHANGED <<pointer, active, automaticCount, processed, provider>>

-----------------------------------------------------------------------------
(* handle_provider_event *)

\* mark_event; a marked event is a duplicate.  An event can precede the
\* provider status it announces.
Deliver(w, e) ==
    /\ run[w].pc = "idle" /\ "event" \in Handlers
    /\ tasks[e.task] # "ABSENT"
    /\ e.linked => tasks[e.task] = "LINKED"
    /\ e \notin processed
    /\ processed' = processed \cup {e}
    /\ Go(w, [Idle EXCEPT !.pc = "find", !.task = e.task, !.event = {e}])
    /\ UNCHANGED <<meta, pointer, active, automaticCount, provider>>

\* A task nobody knows is ignored, unless it was linked to a primary that is
\* not known either.
FindTask(w) ==
    LET r == run[w] IN
    /\ r.pc = "find"
    /\ \/ \E i \in KnownBy(r.task) :
            Go(w, [r EXCEPT !.pc = "probe", !.inv = i, !.snap = meta[i]])
       \/ /\ KnownBy(r.task) = {}
          /\ Go(w, IF (\E e \in r.event : e.linked)
                       /\ primary[r.task] # NoTask
                       /\ KnownBy(primary[r.task]) = {}
                    THEN [r EXCEPT !.pc = "import", !.task = primary[r.task]]
                    ELSE Idle)
    /\ UNCHANGED <<store, provider>>

ImportPrimary(w) ==
    LET r == run[w]
        st == tasks[r.task]
    IN
    /\ r.pc = "import"
    /\ Go(w, [r EXCEPT !.pc = "claim", !.status = st,
                       !.snap = ImportedMeta(r.task, st)])
    /\ UNCHANGED <<store, provider>>

Probe(w) ==
    LET r == run[w]
        st == tasks[r.task]
    IN
    /\ r.pc = "probe"
    /\ Go(w, IF st = "LINKED" THEN Reconcile(r, r.snap)
             ELSE [r EXCEPT !.pc = "note", !.status = st])
    /\ UNCHANGED <<store, provider>>

\* The event status is stored, which also refreshes the snapshot.
NoteEvent(w) ==
    LET r == run[w]
        m == meta[r.inv]
    IN
    /\ r.pc = "note"
    /\ Go(w, IF r.status \in TerminalStatus THEN Finish(r, m)
             ELSE [r EXCEPT !.pc = "persist", !.snap = m])
    /\ UNCHANGED <<store, provider>>

-----------------------------------------------------------------------------
(* Failures *)

\* A provider call raises.
ProviderError(w) ==
    /\ run[w].pc \in {"start", "get", "read_primary", "cancel", "import", "probe"}
    /\ Go(w, Raised(run[w]))
    /\ UNCHANGED <<store, provider>>

\* The sweep schedules the item again, the event handler unmarks its event.
Recover(w) ==
    LET r == run[w] IN
    /\ r.pc = "recover"
    /\ meta' = IF r.sweep
               THEN Updated(r.inv, [meta[r.inv] EXCEPT !.due = TRUE]) ELSE meta
    /\ processed' = processed \ r.event
    /\ Go(w, Idle)
    /\ UNCHANGED <<pointer, active, automaticCount, provider>>

\* The Lambda timeout between two calls: nothing is caught, nothing is undone.
Crash(w) ==
    /\ run[w].pc # "idle"
    /\ Go(w, Idle)
    /\ UNCHANGED <<store, provider>>

-----------------------------------------------------------------------------
(* Environment: the provider and the calendar *)

ExternalStart(t) ==
    /\ tasks[t] = "ABSENT"
    /\ \E st \in ActiveStatus : tasks' = [tasks EXCEPT ![t] = st]
    /\ UNCHANGED <<store, primary, run>>

TaskProgress(t) ==
    /\ tasks[t] \in ActiveStatus
    /\ \E st \in (ActiveStatus \ {tasks[t]}) \cup TerminalStatus :
         tasks' = [tasks EXCEPT ![t] = st]
    /\ UNCHANGED <<store, primary, run>>

\* The provider finds that a task duplicates another one.
LinkTask(t, p) ==
    /\ t # p
    /\ tasks[t] \in ActiveStatus
    /\ tasks[p] \notin {"ABSENT", "LINKED"}
    /\ tasks' = [tasks EXCEPT ![t] = "LINKED"]
    /\ primary' = [primary EXCEPT ![t] = p]
    /\ UNCHANGED <<store, run>>

\* At midnight UTC the budget counter is another item.
NewDay ==
    /\ automaticCount > 0
    /\ automaticCount' = 0
    /\ UNCHANGED <<meta, pointer, active, processed, provider, run>>

-----------------------------------------------------------------------------

Trigger(w) ==
    \/ \E s \in Source, auto \in BOOLEAN : Request(w, s, auto)
    \/ \E i \in Investigation : Sweep(w, i) \/ Refresh(w, i)
    \/ \E e \in Event : Deliver(w, e)

Step(w) ==
    \/ ReadPointed(w) \/ ClaimSource(w)
    \/ NotCovered(w) \/ AcquireLease(w) \/ LeaseRefused(w) \/ Diagnose(w)
    \/ Defer(w) \/ Reread(w)
    \/ CreateOk(w) \/ CreateAmbiguous(w) \/ Ambiguous(w) \/ CreateRejected(w)
    \/ PersistTask(w)
    \/ Release(w) \/ ReleaseRefused(w) \/ Recheck(w) \/ Overwrite(w)
    \/ Settle(w) \/ UpdatePointer(w)
    \/ Refetch(w) \/ SummaryFound(w) \/ SummaryMissing(w) \/ SummaryOverdue(w)
    \/ Wait(w) \/ Reload(w)
    \/ GetTask(w) \/ LookupPrimary(w) \/ ReadPrimary(w) \/ AdoptPrimary(w)
    \/ CancelTask(w) \/ Expire(w)
    \/ FindTask(w) \/ ImportPrimary(w) \/ Probe(w) \/ NoteEvent(w)
    \/ ProviderError(w) \/ Recover(w)

Environment ==
    \/ \E t \in ExternalTask : ExternalStart(t)
    \/ \E t \in Task : TaskProgress(t)
    \/ \E t \in LinkedTask, p \in Task : LinkTask(t, p)
    \/ NewDay

Uncut ==
    \/ \E w \in Worker : Trigger(w) \/ Step(w)
    \/ Environment

Next == Uncut \/ \E w \in Worker : Crash(w)

Spec == Init /\ [][Next]_vars

(***************************************************************************)
(* Fairness, for invocations that are not cut short.  An invocation that   *)
(* was started goes on; the scheduled sweep keeps coming back to what is   *)
(* due; an investigation that asks again and again is at some time         *)
(* covered and finds the lease free; provider calls do not fail for ever;  *)
(* the provider finishes its tasks; a summary appears or its deadline      *)
(* passes; days go by.                                                     *)
(***************************************************************************)
For(i, w) == run[w].inv = i

Fairness ==
    /\ \A w \in Worker : WF_vars(Step(w))
    /\ \A i \in Investigation :
        /\ SF_vars(\E w \in Worker : Sweep(w, i))
        /\ SF_vars(\E w \in Worker : For(i, w) /\ AcquireLease(w))
        /\ SF_vars(\E w \in Worker : For(i, w) /\ CreateOk(w))
        /\ SF_vars(\E w \in Worker : For(i, w) /\ GetTask(w))
        /\ SF_vars(\E w \in Worker : For(i, w) /\ ReadPrimary(w))
        /\ SF_vars(\E w \in Worker :
                      For(i, w) /\ (SummaryFound(w) \/ SummaryOverdue(w)))
    /\ \A t \in Task : WF_vars(TaskProgress(t))
    /\ WF_vars(NewDay)

LiveSpec == Init /\ [][Uncut]_vars /\ Fairness

-----------------------------------------------------------------------------
(* What every interleaving preserves *)

Leased == {i \in Investigation : meta[i].lease}
Exists(i) == meta[i].state # "ABSENT"

\* The leases META items hold never exceed the capacity counter, the counter
\* never exceeds max_concurrency, nor the day's count the automatic budget.
WithinLimits ==
    /\ Cardinality(Leased) <= active
    /\ active <= MaxConcurrency
    /\ automaticCount <= DailyBudget

\* No investigation is stranded: whatever writes interleave, an item in a
\* non-terminal state stays in WorkIndex, where the next sweep finds it.
OpenIsDue ==
    \A i \in Investigation : meta[i].state \in DueStates => meta[i].due

\* A source is investigated once, however many handlers race to claim it.
OneInvestigationPerSource ==
    \A i, j \in Investigation :
        Exists(i) /\ Exists(j) /\ meta[i].source = meta[j].source => i = j

\* The pointer of a source never leads to a missing item: a request would then
\* find nothing to return, and nothing to claim either.  The source of an item
\* always has one, so that it is not claimed again.
PointerLeadsToItem ==
    /\ \A s \in SourceKey : pointer[s] # NoInv => Exists(pointer[s])
    /\ \A i \in Investigation : Exists(i) => pointer[meta[i].source] # NoInv

\* Nothing automatic holds a lease or reaches the provider before it has
\* consumed the daily budget, whichever snapshot decided that it had.
PaidBeforeProvider ==
    \A i \in Investigation :
        meta[i].auto /\ (meta[i].lease \/ tasks[i] # "ABSENT") => meta[i].charged

-----------------------------------------------------------------------------
(* What needs invocations that do not overlap, crashes included *)

\* Every unit of capacity in use belongs to an item that shows its lease.
NoLeaseLost == active = Cardinality(Leased)

\* An investigation consumes the daily budget only once.
ChargedOnce ==
    automaticCount <= Cardinality({i \in Investigation : meta[i].charged})

\* The state CREATING, in which a sweep calls the provider without asking for
\* a lease again, is only entered and kept with the lease held.
CreatingHoldsLease ==
    \A i \in Investigation : meta[i].state = "CREATING" => meta[i].lease

\* The pointer of a source leads to its investigation or, once that was found
\* to be a duplicate, to the one it is linked to.
PointerFollowsLink ==
    \A i \in Investigation : Exists(i) =>
        pointer[meta[i].source] \in {i, meta[i].linked} \ {NoInv}

\* The phase of the lifecycle in which an item is.
Phase(m) ==
    CASE m.state = "ABSENT" -> "none"
      [] m.state \in Terminal -> "closed"
      [] OTHER -> "open"

Phases == [i \in Investigation |-> Phase(meta[i])]

\* The coordinator implements the lifecycle: no step takes capacity for what
\* is closed or takes it twice, and every step that changes the lease of an
\* item changes the counter with it, whatever else it does to the item.
Lifecycle == INSTANCE InvestigationLifecycle WITH
    phase <- Phases,
    holds <- Leased, inUse <- active
FollowsLifecycle == Lifecycle!LifecycleSpec

\* A lease that was taken is given back, so capacity always returns.
LeaseReturned ==
    \A i \in Investigation : meta[i].lease ~> ~meta[i].lease

\* Every claimed investigation is eventually completed or failed: it gets the
\* account associated, capacity, budget, a task and a result, or gives up.
EveryInvestigationCloses ==
    \A i \in Investigation : Exists(i) ~> meta[i].state \in Terminal

=============================================================================
