# Formal models of the CloudOps multi-agent system

TLA+ modules for the stateful parts of this repository, the TLC configurations
that check them on small instances, and theorems that the TLA+ proof system
(TLAPS) checks for every value of the constants. `PROJECT.json` lists the
components, the runs with what they show, the mutants that prove each property
can fail, the source lines of every definition, the hazards of the code, and the
theorems.

    tlc -workers 2 -config MCOverlap.cfg MCInvestigationCoordinator.tla
    tlc -workers 2 -config MCReport.cfg MCReportRun.tla
    tlapm InvestigationCoordinatorProofs.tla

Paths below are relative to `src/`, the repository.

## 1. The system

Operators chat with a hierarchy of Bedrock agents. The agents reach AWS through
tools behind an AgentCore gateway (one Lambda function per tool), collectors fill
tables on a schedule, and the AWS DevOps Agent investigates incidents on
request. A browser application shows chats, reports and investigations.

| Component | State it keeps | Operations | Talks to |
|---|---|---|---|
| Investigation coordinator `src/lambda/mcp/shared/devops_agent_coordinator.py` | one DynamoDB table: META, POINTER, CAPACITY, BUDGET, EVENT, MITIGATION items | request, start, acquire and release a lease, create, reconcile, finish, handle event, sweep | provider, Health stream, EventBridge, gateway tool |
| Provider client `.../devops_agent_provider.py` | none | create, get, list, cancel a task | AWS DevOps Agent |
| Workflow handlers `src/lambda/workflows/devops-agent/handler.py` | none | stream, event, sweep, refresh entry points | coordinator |
| Mitigation follow-up (same coordinator file, `devops_agent_projection.py`) | MITIGATION items and the `outcome` of META | request, poll, retry, complete | coordinator, provider |
| AG-UI server `src/agents/shared/agui_server.py` | queue and locals of each turn, report workers | run a turn, stream, disconnect, start a report or an edit | agents, Memory, report table, activity row |
| Thread activity `src/agents/shared/thread_activity.py` | one row per thread | mark running, idle, error; show | AG-UI server, core API |
| Reports `src/agents/shared/reports.py`, `report_tool.py` | report rows | create, edit, generate by dependency, save | AG-UI server, core API |
| Coverage collector `src/lambda/collectors/cloudwatch/` | runs, region markers, snapshot rows, current pointer | start a run, take inventory, analyse a region, publish | SQS, CloudWatch, alarm coverage tool |
| Health events: collector, backfill, tool | Health table | store, grade, list | AWS Health |
| Tag governance: collector, tool | snapshot of answers | sweep, check, search, guide | Resource Explorer, Organizations |
| Alarm coverage, runtime upgrades, commitments, network resilience tools | none of their own | analyse, prepare, recommend | AWS APIs, the tables above |
| Session cache `src/lambda/mcp/shared/cross_account.py` | assumed-role sessions of a container | get a client | STS, every tool |
| Core API `src/lambda/frontend/core-api/` | templates; reads the others' rows | list, save, delete | browser |
| Read API and poller, other tools, browser, terraform, scripts | none | requests | AWS APIs |

### What is hard, and what makes each part correct

*Investigation coordinator.* Five entry points run as separate Lambda
invocations, each a sequence of DynamoDB and provider calls. Nothing serialises
them: the sweep, a task event and a refresh may work on one investigation at the
same time, each from the copy of META that it read first, and each may be stopped
by the Lambda timeout between two calls. A unit of provider capacity is counted
in one item and recorded in another; giving it back has a non-transactional
fall-back. Correct means: capacity and budget are never exceeded, a source is
claimed once, no investigation drops out of the sweep's index, capacity comes
back, every investigation ends.

*Mitigation follow-up.* A second, optional provider task per investigation, whose
result is written into the same `outcome` attribute that the journal sync
writes, each from an earlier read. Correct means: a result is not lost, and a
work item is not left without an owner.

*AG-UI server.* A producer that survives its browser, a consumer, tools in
threads, report workers in threads, and lists shared by all turns of a
container. Correct means: what the user was shown to be over is saved, what is
announced exists, every turn ends and the thread frees itself.

*Reports.* Sections run when what they depend on has run, are written one by one
and then all at once. Correct means: nothing is given to an agent without its
input, a complete report is complete, an edit loses nothing, the card only moves
forward, every worker ends.

*Coverage collector.* Messages that come twice, invocations that stop anywhere,
and a run whose last region publishes it. Correct means: the published run is
whole, only gets newer, says truthfully whether it is complete, and no run is
left behind.

*Tools.* Answers made of several calls that fail, are cut at limits or are older
than one another. Correct means: what an answer says holds of what was read for
it, and what was not read is not spoken of.

*Session cache.* Credentials of another account that threads and invocations
share. Correct means: no client expires under its user.

*Core API.* Lists of what others write and delete meanwhile. Correct means: a
user's reports and templates are all there, once each.

## 2. Plan

| # | Module | Models | Composition | State |
|---|---|---|---|---|
| 1 | `InvestigationCoordinator` | coordinator, handlers, provider, environment | - | checked, proved (section 10) |
| 2 | `InvestigationLifecycle` | what a client may rely on: claimed, holding capacity, closed | abstract; 1 implements it | checked, proved for one invocation at a time |
| 3 | `MitigationWork` | MITIGATION items, the `outcome` they share with the journal sync | beside 1, on other attributes of META | checked, proved |
| 4 | `ThreadActivity` | the activity row | part of 5 and 6 | checked and proved with them |
| 5 | `ChatTurn` | producer, consumer, tools, saves | includes 4 | checked, proved |
| 6 | `ReportRun` | requests, workers, edits, heartbeat | includes 4, implements 7 | checked, proved |
| 7 | `ReportCard` | what the polling card may rely on | abstract; 6 implements it | checked, proved |
| 8 | `CoverageRun` | runs, SQS, publication | - | checked, proved |
| 9 | `HealthEvents`, `AlarmCoverage`, `UpgradeAnalysis`, `TagGovernance`, `CommitmentPlan`, `NetworkResilience`, `CoreApi` | one tool each, with the data it reads | 11 | checked, proved with 11 |
| 10 | `AssumedSessions` | cached credentials and their margin | 11 | checked, proved |
| 11 | `LambdaFunctions` | the functions side by side | instances of 9 and 10 | checked, proved property by property |

`Ranking` holds the two operators for lists that are sorted and cut.

Left: the browser's poller.

Findings are numbered through sections 3 to 8; each is one property that the code
does not keep and a configuration in which TLC shows it. Findings 1, 2, 4 and 5 are
runs of `PROJECT.json`. The others, of one handler or one reading each, are
configurations beside them, to be run by hand:

| Finding | Configuration | Module | Property |
|---|---|---|---|
| 3 | `MCChatActor.cfg` | `MCChatTurn` | `TokenNamesTheUser` |
| 6 | `MCCoveragePending.cfg` | `MCCoverageRun` | `MissingIsPending` |
| 7 | `MCHealthUnresolved.cfg` | `MCHealthEvents` | `UnresolvedAreListed` |
| 8 | `MCCoverageLive.cfg` | `MCAlarmCoverage` | `MissingIsAuthoritative` |
| 9 | `MCFlipUnread.cfg` | `MCUpgradeAnalysis` | `FlipIsSafe` |
| 10 | `MCTagSummary.cfg` | `MCTagGovernance` | `SummaryIsComplete` |
| 11 | `MCTagFilters.cfg` | `MCTagGovernance` | `FiltersAreHonoured` |
| 12 | `MCSafeUnmeasured.cfg` | `MCCommitmentPlan` | `SafeWasMeasured` |
| 13 | `MCLosingLine.cfg` | `MCCommitmentPlan` | `NothingLoses` |

## 3. `InvestigationCoordinator`

### State

| Variable | Code |
|---|---|
| `meta[i]` | item `INV#<i>` / `META`; `NoMeta` when `get_meta` returns nothing |
| `pointer[s]` | item `SOURCE#<hash>` / `POINTER`, `investigationId` |
| `active` | `CAPACITY#<space>` / `COUNTER`.`activeCount` |
| `automaticCount` | `BUDGET#<day>` / `COUNTER`.`automaticCount` of today |
| `processed` | `EVENT#<id>` / `PROCESSED` markers |
| `tasks`, `primary` | the provider: status and `primaryTaskId` of every task |
| `run[w]` | an invocation: program counter and locals |

`meta[i].due` is the presence of `nextReconcileAt`, which is what puts an item in
the sparse index `WorkIndex`; `charged` is `automaticBudgetConsumed`. `snap` in
`run[w]` is the `meta` dictionary the code passes from function to function, and
`target` where `update_pointer` will lead the source.

### Actions

One action per call to DynamoDB or to the provider, together with the control
flow up to the next call. A transaction is one action for its success
(`ClaimSource`, `AcquireLease`, `Release`) and one for its cancellation
(`LeaseRefused`, `ReleaseRefused`), which also happens when another transaction
holds one of the items (`Contended`). What the code does after a cancelled
transaction is modelled call by call: `Diagnose`, `Recheck`, `Overwrite`.

The operators `Reconcile`, `Finish`, `Collect`, `Close`, `Proceed` are the
functions `reconcile`, `_finish_results` and `_terminal` between two calls; each
maps the locals to the next program counter. `Raised` is an exception: in the
sweep and in the event handler the `except` clause still writes (`Recover`).
`Crash` is the Lambda timeout, possible before any call.

`Request`, `Sweep`, `Refresh` and `Deliver` start an invocation; `ExternalStart`,
`TaskProgress`, `LinkTask` and `NewDay` are the provider and the calendar.

### Abstractions

- A worker of the sweep handles one due item. The code handles up to 100 in a
  loop with a `try` around each; items of one sweep share no locals, so a sweep
  of several is several workers or one worker several times.
- Clocks are not modelled. `nextReconcileAt` is present or not, and any due item
  may be swept; whether an age limit or a result deadline has passed is a choice
  where the code compares it.
- FAILED stands for the provider statuses FAILED, TIMED_OUT, CANCELED and
  SKIPPED, which the code treats alike, and for the workflow states they give.
- The investigation id names the provider task: the `clientToken` is derived
  from it and the request is constant, so the provider creates one task however
  often it is asked. Ids come from the bounded set `Investigation`; when all are
  drawn no new claim can be made.
- `find_by_task` queries a global index with `Limit=1`; which item answers when
  several follow one task is a choice. Lag of the index is not modelled.
- A read that is not strongly consistent may return what the same invocation
  knew before when `StaleReads` is TRUE.
- `Diagnose` reads META and the capacity counter in one action.
- The daily counter is the one of today; `NewDay` stands for the next key.
- Journals, the outcome projection, coverage details, names and risk levels are
  left out, as are the mitigation attributes (section 4).

### Runs

| Run | Instance | What it shows |
|---|---|---|
| `overlap` | 2 invocations, 2 ids, 1 Health event, all handlers | limits, schedule, single claim, budget first, pointers, in every interleaving with crashes |
| `sequential` | 1 invocation of stream, events and sweep, 2 Health events and an external task, linking, crashes | no lease lost, budget charged once, CREATING only with a lease, pointers follow links, and the refinement of `InvestigationLifecycle` |
| `liveness` | 1 invocation, 1 id, stream, tool and sweep, linking to an external task | leases come back, an investigation ends |
| `lease_lost` | as `overlap` | finding 1 |

Two invocations are enough for the races of this code: every property relates an
item to a counter, a pointer or another item, and a step reads at most one stale
snapshot and one of those. The theorems of section 10 remove the bound for every
safety property of `overlap` and, for one invocation at a time, of `sequential`.
Two ids let a second claim for the same source happen, and a second source
compete (for overlapping invocations of several sources `WithinLimits` rests on
its theorem). Capacity 1 makes the counter reach its limit; budget 2 lets it be
charged twice. Reads that may be stale (`StaleReads`) are off in the runs and
allowed in the theorems.

Deadlock checking is off: a system whose investigations are all closed and whose
ids are used up has nothing left to do.

### The lifecycle it implements

`InvestigationLifecycle` is what the rest of the system may rely on: an
investigation is claimed once, holds at most one unit of capacity, takes it only
when it is open, and what is taken is counted until it is given back.
`FollowsLifecycle` says that the coordinator implements it, with the phase read
off the workflow state, `holds` off `leaseHeld` and `inUse` off `activeCount`. It
holds for invocations that do not overlap, crashes included; finding 1 is the
overlap that breaks it.

### Fairness

`LiveSpec` leaves out `Crash` and assumes: an invocation that started goes on
(weak fairness of `Step`); the EventBridge schedule keeps invoking the sweep
(strong fairness of `Sweep(w, i)`, since an item in the hands of another handler
is not swept at that time); an investigation that asks again and again is one
time covered and finds the lease free (`AcquireLease`), and provider calls do not
fail for ever (`CreateOk`, `GetTask`, `ReadPrimary`); a summary appears or its
deadline passes; the provider finishes its tasks; days go by. Nothing is assumed
of the Health stream, the tool or events: the sweep alone must suffice.

### Finding, and what the model shows besides

1. `lease_lost`: after a refused release META is read and then written
   unconditionally; a lease taken in between is wiped while the counter keeps it.

Four behaviours that no run checks, because no statement of the repository
excludes them or because they need the crash that the properties leave out:
a create whose answer was ambiguous is retried and throttled, and the lease is
given back although the first attempt made a task; `_persist_task` writes FAILED
before the release, and a stop in between leaves the lease to an item nothing
looks at again; an invocation that looks for the primary task finds its own
investigation, which another has just made to follow it; a late event reopens an
investigation that was closed.

`ChargedOnce`, too, needs invocations that do not overlap: whether a lease costs
budget is computed from a snapshot and is no condition of the transaction, so two
handlers that both read the item before its first lease charge it twice.

## 4. `MitigationWork`

The mitigation side of one investigation. It shares META with section 3 but none
of its attributes, which is why it is a module beside it.

### State

| Variable | Code |
|---|---|
| `item` | the mitigation attributes of META, `investigationJournalRevision`, and `outcome` in two parts: `root`, the journal revision its incident and root cause come from, and `shown`, its mitigation |
| `work[e]` | item `INV#<id>` / `MITIGATION#<e>`; `NoWork` when there is none |
| `execution`, `emitted`, `clock` | the provider: mitigations, the events it has published, its time |
| `summaries`, `ownSummary`, `revision` | the provider: which journals have a `mitigation_summary_md`, and the revision of the investigation's own journal |
| `run[w]` | an invocation: program counter, work item, copy of META, decided status, journal as listed |

### Actions

Again one action per call. `_handle_mitigation_event` is `Deliver` (mark the
event, find META), then `SaveWork`, `Announce` and `_reconcile_mitigation_work`,
or `Report`, `FindWork`, `Drop`. `_reconcile_mitigation_work`, from there or from
the sweep, is `Load`, `Fetched` or `FetchFailed`, then `Reload`, `Finish`, `Drop`,
or `Defer`. `StartSync`, `ListJournal`, `Sync`, `Persist` are `refresh` with
`_sync_journals` and `_persist_latest_mitigation`, which `reconcile` and
`_finish_results` call as well. What a write puts into META is an operator
(`Announced`, `Reported`, `Ended`, `Synced`, `Backfilled`): it changes attributes
of the current item but takes `outcome` from the copy (`Merged`).

### Abstractions

- A summary record is named by the execution that wrote it, and an execution
  writes one.
- Whether the deadline of a work item has passed is a choice at `Load`, possible
  when `Deadlines` is TRUE; `resultFetchStartedAt` and `attemptCount` are left
  out.
- An event may be delivered any number of times and in any order: the same news
  under several event ids is what `updated_at` is compared for. Markers by event
  id, and redelivery of a failed one, are in section 3.
- FAILED stands for FAILED and TIMED_OUT; UNAVAILABLE for the two statuses of a
  mitigation given up. CANCELLED keeps its two spellings, since the code has to
  translate one into the other. Unknown statuses and events without an execution
  id are left out: the EventBridge rule passes the five detail types only.
- A journal that cannot be listed leaves the invocation with nothing to do,
  which is `Crash`. Reads return the current item; the lag of the index and of
  reads is part of what overlapping invocations stand for.
- `MaxTime` bounds the events (one per tick) and `MaxRevision` the journal.

### Run

`mitigation`: 1 invocation at a time with crashes everywhere, 2 mitigations, 4
times (one event each), the journal changed once. COMPLETED only with a summary
(`CompletedHasSummary`), a mitigation that goes on keeps a work item (`Pursued`),
`outcome` agrees with the other attributes (`OutcomeAgrees`), an older result
never replaces a newer one (`NeverOlder`), and an announced mitigation ends
without further events (`MitigationEnds`). Three events are the least with a late
one, a repeated one and one of the other mitigation; the fourth lets a result
follow all of them.

Fairness (`LiveSpec`): some time crashes stop (`<>[][Uncut]_vars`), which is
weaker than a system without any; an invocation goes on; the scheduled sweep
keeps coming to every work item (strong, as the item may be in other hands); a
work item that is looked at again and again is once found stale or past its
deadline, which passes after `max_age_minutes`. No event and no summary is
assumed.

The run is limited to one invocation for a reason: with two, the handler of an
in-progress event may announce it after the handler of the failure has recorded
it and before that one deletes the work item, so that META stays at IN_PROGRESS
with nothing for the sweep to find (`Pursued`); the times are compared in a copy
and the write has no condition (`NeverOlder`); two refreshes that overlap write
back an `outcome` without the mitigation the other stored (`OutcomeAgrees`).

## 5. `ThreadActivity` and `ChatTurn`

One chat thread in one container. `turn[t]` is handler and producer of request
`t`, `queue[t]` its `event_q`, `client[t]` its browser; `pending` is
`registry._pending_cfn_artifacts`, which belongs to the container; `reports` and
`memory` are remote; `loop` is the turn whose code holds the event loop, so that
code between two awaits is not interleaved, except by tools and workers, which
are threads. `activity` is the row of `thread_activity.py`, whose writers the
module includes from `ThreadActivity`.

`Ask`, `Block`, `Build`, `SaveQuestion`, `Start` are `invocations`; `Text`,
`LegacyArtifact`, `CallTool`, `ToolReturns`, `Finish`, `End`, `Raise` the loop of
`_producer`; `Drain`, `Drop`, `Persist` the artifacts; `MarkFailed`, `SaveAnswer`,
`SaveTitle`, `SendFinish`, `EndTurn` its `finally` block; `Receive` and
`Disconnect` the consumer; `ReportQueues` a report worker in the same container;
`Crash` the end of the container.

Abstractions. Text is whether there is any. The queue holds what matters: markers
and ends. A remote call works or fails; failures, stops and stray artifacts share
one budget, `MaxFaults`, so every single fault is met at every point, and no two
together. The browser asks when its composer is enabled; `Tabs` lets it ask from
a tab opened earlier (off in the runs). Suggestions, attachments and step names
are left out.

Memory is per actor. A turn is saved under the actor of the request's token; the
history is looked up under the one the browser sends in `forwardedProps`, which is
`anonymous` while the page does not know the user's address. `named` says that the
two agree, and `Build` finds nothing when they do not. Callers without a bearer
token, and the `get_report` tool, which the builder binds to the same name, are
left out.

| Run | Instance | What it shows |
|---|---|---|
| `chat` | 2 turns, 1 title, 1 event of the agent each, 1 fault | a follow-up whose browser sent the actor of its token is asked of an agent that has the answer before (`FollowUpSeesAnswer`), markers lead to rows (`MarkersResolve`), an idle row means a saved answer (`IdleMeansSaved`), a turn announces what its tools made (`ArtifactsAnnounced`), turns end whoever leaves (`TurnEnds`), the thread frees itself (`ThreadFrees`) |
| `chat_artifacts` | the same | finding 2 |
| `MCChatActor.cfg` | the same | finding 3 |

Two turns are what shares a container's list; one event is a text, a legacy block
or a tool call that makes a template, and every fault fits around it.
`ArtifactsAnnounced` and `IdleMeansSaved` are about turns that no other turn
overlapped (`alone`), which the runtime promises (`registry.py:220`) and which
finding 2 is about.

Fairness: a turn whose container runs goes on (`Step`: nothing in it waits for
the browser; tools time out), and ten minutes pass (`Aging`).

2. `chat_artifacts`: the list of pending artifacts is drained by whichever turn
   has a tool result next; a turn whose browser left goes on in the background
   while the next is served, and announces the other's template as its own.

3. `MCChatActor.cfg`: the agent of a follow-up knows no answer, and no call failed,
   because its history was loaded under the actor the browser sent
   (`src/agents/shared/agent_base.py:817`) and the turns were saved under the
   token's; the comment at `agui_server.py:196` gives `forwardedProps` to callers
   without a token only.

Seen besides: `mark_thread_error` is always followed by `mark_thread_idle`, so
that no row stays in error; of two turns that overlap the first to end marks the
thread idle; a turn without tool results for ten minutes is shown as idle, since
only reports have a heartbeat.

## 6. `ReportRun` and `ReportCard`

The reports of one thread, from the request to the last write. `template` is the
prerequisite of each section and the sections whose prompt cannot be formatted;
`row` the report table; `worker[r]` the request and its thread with
`report_record`; `marked` the markers in Memory.

`RequestReport`, `RequestEdit`, `SaveShell`, `SaveAnchor`, `StartWorker` are the
request; `Begin`, `Skip`, `Submit`, `Collect`, `GiveUp`, `NextBatch`, `Conclude`
are `_run_report_async` over `generate_report_sections`; `Revise`,
`ReviseSection`, `ConcludeEdit` are `_run_report_edit_async`; `MarkFailed`,
`SaveFailed`, `EndWorker` their ends; `Heartbeat`, `Delete`, `Aging`, `Crash` what
goes on beside. `FirstBatch` and `BatchAfter` are `build_dependency_graph`, one
batch after the other; `Circular` are the sections it leaves out.

| Run | Instance | What it shows |
|---|---|---|
| `reports` | 2 reports or a report and its edit, 3 sections in the 6 shapes of dependencies that differ (chain, fork, one and none dependent, a circle and what is behind one), 2 with a malformed prompt, 1 fault | see the properties `DependentsWait`, `CompleteMeansDone`, `EditKeepsContent`, `BusyShown`; the status only moves forward (`CardMoves`, the refinement of `ReportCard`); every worker ends (`ReportEnds`) |
| `report_progress` | 1 report | finding 4 |

Three sections are the least with a skip that is passed on twice. Fairness is
that of threads in a container that runs, and of agents whose calls time out.

4. `report_progress`: a worker whose batch raises saves its record, with the
   sections of the start, over the sections that were complete.

Seen besides: a request does not look at the answer of its first save; the last
save of a worker brings a deleted report back; after a stop of the container the
row stays as it is; a report of which every section failed or was skipped counts
as complete unless all failed; two edits of one report share a version number.

Two things the module does not say. The chat turn of the same tab is not in it.
The composer of a tab that streamed the last turn stays enabled until the thread
is idle (`src/frontend/src/components/Thread.tsx:176`), so its user may ask while a
report runs, and the end of that turn marks the thread idle: `BusyShown` is about
the worker and its heartbeat alone. `_handle_report_edit` takes a parent of any
status; the model edits complete reports only.

## 7. `CoverageRun`

Runs are numbered by creation; `meta` is `RUN#<id>`, `marker` the `REGION#` items,
`rows` the inventories the rows of `SNAPSHOT#<id>#<region>` are from and `whole`
those they are all there of, `current` the published pointer, `queue` the SQS
messages that can be received, `worker[w]` an invocation.

`StartRun` is the coordinator, with the stop between the run and its message;
`SendRegions` the inventory job, from Resource Explorer or, when it fails, left to
the Tagging API; `CheckMarker`, `WriteRows`, `Mark`, `Notify` the region job;
`Gather`, `Publish` the finalize job. `Receive` may deliver a message and leave
it in the queue; `WorkerStops` is the timeout or an exception at any point, which
makes the message visible again, and leaves half of the rows if it was writing. A
message that has been received `MaxReceives` times goes to `dead`, the dead-letter
queue, instead, which nothing reads.

The table is read without `ConsistentRead`. A finalize job may be too early to see
a marker, the one of its sender included (`Gather`, which notes the run in
`missed`); a region job may be too early to see the marker it looks for
(`CheckMarker`) or some of the inventory it should analyse (the reading `"early"`
in `WriteRows`). Each of these is a fault and counts against `MaxFaults`.

Abstractions. A region's resources are one unit. Two equal messages are one, as
`Receive` can deliver it again. Entries that SQS did not accept, which the code
does not look at, are left out, and so are the progress counters, the refresh
item and the expiry of rows.

| Run | Instance | What it shows |
|---|---|---|
| `coverage` | 2 invocations, 2 runs, 2 regions, 2 receives, 2 faults | what is published has all rows (`PublishedIsWhole`), is called complete only when every region was analysed from what a complete inventory had stored, as far as its job could read it (`CompleteIsTrue`), and when the queue is empty every run whose job was sent is published or overtaken, or a message of it is dead, or it has all its markers and a finalize job was too early to see them (`RunIsPublished`) |
| `coverage_immutable` | 1 run, 1 fault | finding 5 |
| `MCCoveragePending.cfg` | 1 run, 1 receive, 1 fault | finding 6 |

Two regions are what makes an early finalize job, two runs an overtaken one. Two
receives (three in the deployment) let a message die after two stops, and with two
faults a stop or a repeated delivery meets a reading that is too early. States that
no step and none of the three invariants tells apart count as one (`VIEW Seen`): they
differ in `rows`, in which message of a run is dead, or in what became of a run that
is overtaken. The theorems of section 10 hold for any number of each.

`RunIsPublished` lists what the code does not recover from: a run whose message is
dead, or whose last finalize job saw a marker too few, stays collecting, and the
next slot replaces it.

5. `coverage_immutable`: the inventory job is delivered twice; one of the two had
   Resource Explorer, the other fell back to the Tagging API, and each sent region
   jobs of its own. Those of the first mark both regions and the run is published;
   one of the second had passed the look for the marker before, and writes its
   rows after the publication. (A second delivery of one and the same region job
   writes the same rows.)
6. `MCCoveragePending.cfg`: the job of a region without a marker is in the dead-letter
   queue, while the progress calls the region pending or retrying.

## 8. The tools

Each module has `world`, what the tool reads, and `answer`, the last call and what
it said; an answer ends a behaviour, so that a behaviour is: the data changes,
perhaps between the calls of one answer, and one answer is given.

| Module | What it keeps of the code | What it leaves out |
|---|---|---|
| `HealthEvents` | the row per event and account, overwritten in the order of delivery; the backfill; `_assess_risk`; four lists, each a sequence of queries with its index, limit, merge and order, between which rows are stored | the lists that scan the table, the delay of an index, pages, texts, TTL |
| `AlarmCoverage` | verdicts of the snapshot and their aggregation; the live fallback, which looks for the alarms of every resource in `AWS_REGION`; calibration; deployment against live alarms | which metric is recommended, dimensions, CloudFormation text, tools that nothing dispatches (`_analyze_inventory_coverage`) |
| `UpgradeAnalysis` | classification by date, regions that fail, midnight during the scan, the last use asked for some names, the caps on code downloads, the files that are skipped, and what is recommended with and without code | the patterns that are searched for |
| `TagGovernance` | the policy of caller or organization, strict and lenient, compliance in Python and by AWS (which lists no resource without tags), search limits and filters, buckets, remediation links, snapshots that are shrunk and served | the summaries of the organization |
| `CommitmentPlan` | the parallel sweep under a time budget, sizing of a line, break-even, choice among options of one pool, coverage and utilization of what is held with answers that fail or are blank, renewals | currencies, notes, confidence |
| `NetworkResilience` | discovery from failing regional calls, circuits known only by their interfaces, devices and locations, level, recommendations and what building them leads to, the cost tool | transit gateways, VPN, drawing |
| `AssumedSessions` | the cache and its lock, several threads, AssumeRole that fails or falls back, containers that are frozen, killed and warm | other roles (each has its own entry) |
| `CoreApi` | reports with their parents, lost first writes, deletions before the last write, a page of the list, lineages; templates under own and built-in ids, with and without sections, failing queries | sessions (AgentCore Memory), system rows nobody writes |

`LambdaFunctions` puts them side by side: `tool` names the one a behaviour is
about. They share no state, so nothing is lost by not interleaving them.

The run `functions` checks one property of each: see `HealthListsHold`,
`VerdictsHold`, `UpgradesHold`, `TagAnswersHold`, `PlanHolds`, `ResilienceHolds`,
`SessionsHold`, `UserDataHolds` in the modules. Bounds: two of everything that can
be confused or lost (accounts, regions, resources, gateways, threads), limits of
1 and 2 against up to four rows (health lists: 2), one row stored during a call
(`HealthWrites`), three pairs of an event and an account it affects (`Affected`),
one published alarm snapshot (`MaxSnapshots`), one recommendation that is built
(`MaxBuilds`), one change and one failing call where calls can fail, two parameters
of a tag call besides the defaults (`MaxGiven`), one source of which Cost Explorer
tells something else than health (`MaxOdd`), four reports for a chain of edits and
a page that lacks one. The theorems remove these bounds.

What the properties say is what the code can keep:

- `HealthListsHold` is about rows that are as they are from the first query to the
  last; finding 7 is about the others.
- `VerdictsHold` takes the live verdicts of resources in the region and the account
  of the function (`Away` are the others); finding 8.
- `UpgradesHold` says of a flip that no file that was scanned has a breaking
  change; finding 9.
- `TagAnswersHold` counts, for AWS's evaluation, what has a tag and a region that
  was asked for; finding 10. A list of untagged resources that returned as many as
  its caller's limit may lack some, as only the number tells; a stored list is one
  of everything, whatever limit and accounts the caller gives; finding 11.
- `PlanHolds` says of `safe` that everything held of the kinds bought was asked
  for, no query failed and nothing that was measured is wasted; finding 12. A
  purchase pays back its upfront payment; finding 13.

| Configuration | Instance | Finding |
|---|---|---|
| `MCHealthUnresolved.cfg` | 2 events, 2 accounts, 1 row stored during the call | 7. An event that turns from upcoming to open between the queries for open and for upcoming is in neither, though it was unresolved all the time and the list is not cut (`src/lambda/mcp/health-events/handler.py:442`; the docstring says all unresolved events) |
| `MCCoverageLive.cfg` | 2 resources in 2 regions, no snapshot | 8. The fallback builds each profile with `AWS_REGION`, calls missing what the resource's region has, and says that its inventories are complete (`src/lambda/mcp/cloudwatch/handler.py:1568`, `docs/agents/cloudwatch.md:37`) |
| `MCFlipUnread.cfg` | 2 functions, 1 large file | 9. A function of which nothing was scanned is called safe to flip (`src/lambda/mcp/lambda-runtime/handler.py:757` and `:1451`) |
| `MCTagSummary.cfg` | 2 resources, 1 key | 10. GetResources lists no resource without tags, so the summary counts none, and says nothing of it (`src/lambda/mcp/tag-governance/handler.py:880`, `src/lambda/mcp/tools.json:1758`) |
| `MCTagFilters.cfg` | 2 resources, 2 accounts | 11. `account_ids` does not make a request go live, and the snapshot answers it unfiltered (`src/lambda/mcp/tag-governance/handler.py:663`, comment at `:643`) |
| `MCSafeUnmeasured.cfg` | 2 offers, 1 commitment | 12. Answers without a percentage neither block nor count as unmeasured, so more is safe to buy with nothing measured (`src/lambda/mcp/commitments/commitments/posture.py:151`) |
| `MCLosingLine.cfg` | the same | 13. A line without upfront payment has no break-even, so one that loses money is recommended (`src/lambda/mcp/commitments/commitments/analyze.py:280`, `report.py:666`) |

Known, and left out of the properties because the code says so or nothing in the
repository says otherwise: the health lists say `includes_all_active` even when
they were cut; an index shows a row some time after it was stored, which the model
takes as the time the row is stored; `get_critical_events` lists issues only; the
live fallback answers under the id of another account when resources are named;
a snapshot is served to a caller with `allowed_values` alone, which it does not
answer (`src/lambda/mcp/tag-governance/handler.py:659`); one location with more than two
devices hides what another lacks in the upgrade cost, which is why that part of
`ResilienceHolds` excludes it; gateways without an association are only looked for
in the home region; an edit of a template whose sections are all removed is
generated from the built-in one. `UserDataHolds` says nothing of a built-in
template that a user saved anew: the list shows the one whose name comes first,
while `load_template` takes the user's.

`SessionConstants` assumes what the margin is for: a tool's timeout is not longer.
The coverage worker and the health collector run 900 s with such clients
(`src/terraform/modules/custom/cloudwatch-collection/main.tf:232`), and nothing is
shown for them.

## 9. Mutants

Every property of a passing run has a mutant: an operator in the module, marked
`Mistake:`, that replaces a definition the way a plausible error in the code
would, and under which TLC finds the property violated.

## 10. Proofs

No proof assumes more than the `ASSUME` of the module it is about, which TLC
evaluates in the runs.

### The coordinator

`InvestigationCoordinatorProofs`, for any finite set of investigations and any
sets of invocations, sources and tasks, overlapping, crashing and reading stale
data:

| Theorem | Property |
|---|---|
| `TypeCorrect` | `TypeOK`, which the others rest on and no run repeats |
| `LimitsHold` | `WithinLimits` |
| `OpenAlwaysDue` | `OpenIsDue` |
| `PointersLead` | `PointerLeadsToItem` |
| `SourcesOnce` | `OneInvestigationPerSource` |
| `PaysFirst` | `PaidBeforeProvider` |

The argument. `TypeOK` is not inductive: `meta[run[w].inv]` is only defined when
the invocation has an investigation in hand, and the provider's primary task
only exists for a linked one. `IInv` adds what every program point relies on
(`Sited`: which locals are set where, that a claim carries a fresh item, that a
pointer update aims at a known item), that an undrawn id has left no trace in
the table or at the provider (`UndrawnIsBlank`), and that pointers and sources
match (`PointersKnown`). For each action there is one step that its next local
record is well typed and `Sited` (`LeaseStepGoes`, `TaskStepGoes`), and every
update of META is shown to be of one kind (`Keeps`): it keeps the source and the
automatic flag, never unpays, never makes an item absent, never takes a
non-terminal item out of the index, never creates a lease outside
`AcquireLease`. The theorems follow from `Keeps` and the few actions that touch
counters and pointers:

- `LimitsHold`: the set of leased items grows by one exactly where `active` does
  and shrinks by one where it does; the unconditional `Overwrite` and `Settle`
  only shrink it, which is why `<=` and not `=` is invariant (finding 1).
- `SourcesOnce`: a claim is conditional on the pointer being absent, and
  `PointersKnown` says the source of an existing item has one.
- `PaysFirst`: by a second invariant, `PaidInv`: at `start` and `probe` the
  snapshot shows no charge that META lacks, so `AcquireLease` leaves the item
  paid; from there to `create_backlog_task` it stays paid.

### One invocation at a time

`InvestigationSequentialProofs` is about the properties that overlapping
invocations break. Its theorems assume `Sole(w)`, that `Worker` is one invocation,
which may stop between any two calls, leave the rest to a later one and, but for
the refinement, read stale items; the provider goes on meanwhile.

| Theorem | Property |
|---|---|
| `LeasesCounted` | `NoLeaseLost` |
| `BudgetConsumedOnce` | `ChargedOnce` |
| `CreatingIsLeased` | `CreatingHoldsLease` |
| `PointersFollow` | `PointerFollowsLink` |
| `ImplementsLifecycle` | `FollowsLifecycle`, with consistent reads |

`SequentialInv` is these properties and what each program point knows (`Sure`):

- `Knows`: where the handling decides on a snapshot, the snapshot is META, but for
  what stale reads may hide; where it spends, the item is in CREATING with a
  lease; the lease is gone where `Recheck` and `Overwrite` repair a refused
  release. That is the step to the first theorem: `active` is at least one
  whenever an item shows a lease, so a release is refused for a missing lease
  only, and the write without a condition takes none away.
- `Claims`: what is about to be claimed is open and linked to nothing.
- `Leads`, with `LinkedIsOver`: a link is recorded only of an investigation whose
  task the provider has LINKED, which is the last status of a task
  (`EndedStays`), and the pointer follows the link after it is recorded; a stop
  between the two leaves the pointer to the investigation itself, which the
  property allows until then.
- `Gives`, with `LeasedIsOpen`: a closed item still shows a lease only if its task
  FAILED, which `_persist_task` writes before the release. The refinement needs
  it: the lifecycle gives capacity back as or before it closes.

Every action gives `Surely(w)`: the next locals are `Sure`, and the update of META
is `Sound` (a link and a charge are kept, and CREATING and the end fit the lease
and the task) and `Counts` (lease and charge change as the counters do). `CountersKept`, `ItemsKept`, `PointersKept` and
`SureNext` turn that into the invariant, and `LifecycleStep` into a step of
`InvestigationLifecycle` or a stutter.

### The mitigation follow-up

`MitigationWorkProofs`, for any numbers of mitigations, events and journal changes:

| Theorem | Property | Invocations |
|---|---|---|
| `MitigationTyped` | `TypeOK`, which no run repeats | any |
| `CompletedIsBacked` | `CompletedHasSummary` | any |
| `OngoingIsPursued` | `Pursued` | one at a time |
| `OutcomesAgree` | `OutcomeAgrees` | one at a time |
| `MitigationsGoForward` | `NeverOlder` | one at a time |

With overlapping invocations a write of META mixes the current item with a copy
of any age, so nothing can be said of a copy. `IInv` follows the evidence instead:
summaries are never taken back, and `SeenSummary` says that an invocation that
will write COMPLETED has found one, from the read of the journal to the write; no
other write sets that status. `WriteTypes` shows once that every write gives an
item.

For one at a time `SequentialInv` adds that the copy is META and that what is
about to be written is news to it (`Fresh`): from the read to the write the
invocation itself writes at most a work item. `Pursued` is not inductive, as
nothing in it forbids `Drop` to delete the work item META waits for. `Kept` says
that this work item is at least as new as META, and `Holds` that what is about to
be dropped is older than a META that still goes on with it: so the condition of
the deletion (`Unchanged`) fails, also when a stop between `SaveWork` and
`Announce` left the work item newer than META. `WritesAgree` shows once that each
write into a copy that is META gives an outcome that agrees with it.

### The chat turns

`ChatTurnProofs`, for any numbers of turns, titles, events and faults:

| Theorem | Property |
|---|---|
| `TurnsKeep` | `TypeOK`, with the invariant the others rest on |
| `MarkersLead` | `MarkersResolve` |
| `IdleRowsAreSaved` | `IdleMeansSaved` |
| `TemplatesAreAnnounced` | `ArtifactsAnnounced` |
| `FollowUpsSeeAnswers` | `FollowUpSeesAnswer` |

`IInv` is `Good(t)` of every turn and `MemoryFits`. A turn between two awaits is
the one that holds the loop (`HoldsLoop`), which is why no other turn drains or
marks in between. Before the stream there is nothing to save, after it everything
is settled (`SaveFits`); so is the turn whose row is idle (`RowFits`), whose end is
in its queue or was seen (`ToldFits`), or that a follow-up knew (`KnewFits`).
`OwedFits` follows a template from the tool through the shared list and the
drained copy to its announcement, for a turn that is alone (`AloneFits`), and
`MarkersFit` a marker from its report through the queue to browser and Memory.
`FollowUpsSeeAnswers` has as its premise that the browser sent the actor of its
token (`named`): then what `Build` reads is what was saved. Each action keeps its own turn good and changes nothing the others are good for
(`Preserves`).

### The reports

`ReportRunProofs`, for any numbers of reports, sections and faults, and every
template:

| Theorem | Property |
|---|---|
| `ReportsKeep` | `TypeOK`, with the invariant the others rest on |
| `DependentsAlwaysWait` | `DependentsWait` |
| `CompleteReportsAreDone` | `CompleteMeansDone` |
| `EditsKeepContent` | `EditKeepsContent` |
| `BusyThreadsShown` | `BusyShown` |
| `CardsMoveForward` | `CardMoves`, the refinement of `ReportCard` |

That a section waits depends on how batches are found. `Ordered` says that what a
section needs has ended before its batch starts, and that a section that could
run now is in the batch or waits for one that is: so when no batch is left, what
has not run needs something that has not run (`RestIsStuck`), and
`CompleteMeansDone` follows from the last save. `PhaseFits` keeps the pool to its
batch, `EditKept` an edit to the content it started from, and `AloneHolds` that a
worker that counts as alone has the thread's row fresh. The refinement needs
`RowWaits`: no row has ended before its worker writes the end.

### The coverage collector

`CoverageRunProofs`, for any numbers of runs, regions, invocations and faults, and
any `maxReceiveCount`:

| Theorem | Property |
|---|---|
| `SnapshotsAreWhole` | `PublishedIsWhole` |
| `CompletenessIsTrue` | `CompleteIsTrue` |
| `NoRunIsLost` | `RunIsPublished` |

`IInv` has three parts. `Shape`: messages and invocations are well formed, and
where an invocation stands tells what its message is. `Backed`: a marker names an
inventory all of whose rows, as some reading gave them, are there, an invocation
knows what it has read (`Knows`), and what is current has every marker; since
markers and complete rows are never taken back (`Grows`), what was read stays so,
and a reading that is too early only shows less. `NoRunLost`: a run whose job was
sent is published or overtaken, or SQS gave up on a message of it (`GivenUp`), or
is being listed, or every region of it is marked or has a job (`Covered`) and
something leads to its publication (`Asked`) or a finalize job was too early for
it (`missed`). The step that needs `Covered` is `Gather`, which may find a region
missing: then it read too early, or that region has a job, whose invocation is not
this one and will ask again.

### The tools

`LambdaFunctionsProofs`, for any sizes of what the tools read, from the assumptions
of `LambdaFunctions`:

- `GatewayConstants`: bounds are numbers.
- `HealthConstants`: finitely many accounts and events; AWS Health has four
  categories.
- `CoverageConstants`: every resource has a region, and one of another account is
  away from the function's alarms.
- `RuntimeConstants`: finitely many functions, with dates and files.
- `TagConstants`: finitely many resources and keys; which resources are at home and
  of this account.
- `NetworkConstants`: a circuit is on a device of its location, and no location has
  the name a recommendation gives the second one.
- `SessionConstants`: the margin of section 8.
- `CommitmentConstants`: finitely many permutations, each term and payment of a
  label once. A line may save any integer, so one that pays back may lose money.

| Theorem | Property |
|---|---|
| `HealthListsAreComplete` | `HealthListsHold` |
| `CoverageVerdictsHold` | `VerdictsHold` |
| `UpgradesJustified` | `UpgradesHold` |
| `TagAnswersCount` | `TagAnswersHold` |
| `PlansAreSound` | `PlanHolds` |
| `ResilienceIsReal` | `ResilienceHolds` |
| `UserDataListed` | `UserDataHolds` |
| `SessionsNeverExpire` | `SessionsHold`, from `ClientsStayGood` of `AssumedSessionsProofs` |

The tools answer once and stop, so an invariant says what the data are from which
the answer is made, and each lemma that the step of an answer has the property:

- `HealthInv`: rows have one of the statuses, and a list that is not finished has
  what its queries so far gave it (`Gathers`): a row that stayed as it is, and that
  none of the queries left will ask for, is in it, or more came before it than the
  limit. A part that was cut at the limit fills the list by itself (`ListedCut`), so
  nothing of a later part is taken, and what is missing from a shorter list was in
  no part.
- `CoverageInv`: the snapshot is what `Evaluate` said of the alarms that were
  listed when it was taken, region by region complete or not, however old it is
  when it is read; a live verdict is what `Evaluate` says of the alarms of
  `AWS_REGION`, which are a resource's own unless it is `Away`.
- `UpgradesInv`: while the scan goes on, an end-of-life function is found, or its
  region is left to scan, or failed. It is stated with the day the scan began, and
  `StaysUnsupported` carries it over midnight. What is known of a function's code
  comes from the files that were scanned (`Analysed`), which may be none of them.
- `TagsInv`: what is stored for an operation answers the collector's own request
  (`Swept`), cut or not. `Assembly` and `Counts` separate the totals, which are of everything
  that was kept, from the details, which are capped: so a cap that is applied once
  more keeps them (`CutAnswers`), and a request that differs from the collector's
  in what is counted goes live (`StoredAnswers`), but for the filters the
  snapshot ignores, of which the property says nothing.
- `PlanInv`: the plan is what `Purchases` made of the permutations that were done
  when the sweep ended. The value of a set is a fold over integers, whose table is
  shown to exist (`SumsExist`) and not to depend on the order (`ValueAdds`). A choice
  that is worth at least as much in every pool is worth as much in all
  (`ValueByPool`); within a pool the options are weighed against each other
  (`OptionChosen`), and within a label the best one is taken (`BestOfLabel`).
  Another choice can be worth more only by leaving out a purchase that pays back
  and loses money, which the property says. What was told of a held commitment is
  one of the listed outcomes (`UtilizationTold`), from which the verdict follows
  (`VerdictMeasured`) and so does the gate.
- `NetworkInv`: what was promised has been reached (`Promised`), an assessment that
  was not acted on yet is of the circuits that are there (`Assessed`), and a gateway
  is connected somewhere other than at its recommended site (`Placed`). `LevelOf`
  says what a level means without counting: a location with two devices has two
  circuits that differ (`Multi`). `ScopeGrows` follows the circuits that are built
  through the sequence into the scope of their gateway, onto devices no other
  circuit has, so that the level is reached (`LevelReached`) and no other
  gateway's changes. `DevicesCounted` adds up devices location by location for the
  estimate.
- `ApiInv`: a report's parent is older, and its version is the one after. The root
  of a lineage is a recursive function over a page from which any parent may be
  missing; `RootsDefined` shows by induction that the function exists and
  satisfies its equation, `RootsRelate` that it gives two reports the same root
  exactly if a chain of edits on the page relates them.
- `SessionsInv`: credentials that are about to be stored or used outlast the
  invocation: what is left of them and its age exceed the margin together. Going
  on keeps this (`GoKeeps`) and so does a tick (`TickKeeps`), which takes from the
  one what it adds to the other.

The inductions use no theorem with an operator parameter. `LeastOf` takes the least
element of a set of numbers, from the well-founded order of `WellFoundedInduction`;
`InductionSet` states induction for a set, to which `RootsDefined` gives the numbers
up to which the function exists, and `SubsetInduction` for a set of sets, to which
the sums and the counts give the sets they are right for.

### Only checked by TLC

- Liveness under fairness (`TurnEnds`, `ThreadFrees`, `ReportEnds`,
  `MitigationEnds`, and the run `liveness`), which is out of the prover's reach.
- What the code does not keep to: the thirteen findings of sections 3 to 8.

## 11. Not modelled

- The browser: its poller asks until a status is terminal; what it is answered
  comes from `refresh`, which sections 3 and 4 model. The rest is rendering.
- The agent hierarchy beyond the list of pending artifacts, memory, titles,
  suggestions, guardrail and tracing: configuration, text and calls of managed
  services. Saving a turn is an action of `ChatTurn`.
- Billing, pricing, cost explorer, CUR and optimization hub, and the metric, log,
  cost and history tools of the CloudWatch handler: queries of AWS, one call each.
- In the modelled parts: texts, prompts, journals' content, expiry of rows by TTL,
  AgentCore sessions, transit gateways, VPN, the patterns searched for in a function's
  code.
- Terraform, shell scripts and the backfill's command line.
