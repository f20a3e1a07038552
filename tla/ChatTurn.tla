------------------------------ MODULE ChatTurn ------------------------------
(***************************************************************************)
(* Chat turns of one thread in the AG-UI server (agui_server.py).          *)
(*                                                                         *)
(* A request is handled in one go on the event loop, then its turn runs    *)
(* as a producer task: it consumes the agent's events, fills a queue and   *)
(* collects what it will save.  A consumer relays the queue to the         *)
(* browser, which may go away.  Between two awaits the loop belongs to one *)
(* task: `loop' is the turn whose code holds it.  Tools and report workers *)
(* run in threads, and the container may be stopped at any point.          *)
(***************************************************************************)
EXTENDS Naturals, Sequences, SequencesExt, FiniteSets

CONSTANTS
    Turns,          \* requests of the user to this thread
    Title,          \* titles of CloudFormation templates
    MaxEvents,      \* events of the agent in one turn, at most
    MaxPending,     \* artifacts waiting in the container, at most
    TitlePage,      \* events one list_events page of the title check holds
    MaxFaults,      \* stops, failed remote calls and stray templates, at most
    Tabs            \* may the user write from a tab opened earlier?

ASSUME ChatAssumption ==
    /\ {Turns, MaxEvents, MaxPending, TitlePage, MaxFaults} \subseteq Nat
    /\ Tabs \in BOOLEAN

Turn == 1..Turns
NoTurn == 0

VARIABLES
    turn,       \* the turns: program counter and locals of handler and producer
    queue,      \* event_q of every turn
    client,     \* what the browser has of every turn
    pending,    \* registry._pending_cfn_artifacts, one list for the container
    reports,    \* rows of the report table
    memory,     \* events of the session in AgentCore Memory, oldest first
    activity,   \* the thread's activity row
    loop,       \* the turn whose code runs on the event loop, or NoTurn
    faults      \* stops, failed calls and stray templates so far

vars == <<turn, queue, client, pending, reports, memory, activity, loop, faults>>

\* A remote call fails; the code logs it and goes on.
Fails == faults < MaxFaults /\ faults' = faults + 1
Works == UNCHANGED faults

INSTANCE ThreadActivity WITH Run <- Turn, NoRun <- NoTurn

Written(write) ==
    \/ write /\ Works
    \/ Fails /\ UNCHANGED activity

-----------------------------------------------------------------------------
(* Data                                                                    *)

\* A template on its way to the report table, with the turn whose tool made
\* it; NoTurn for the worker of a report.
Artifact == [owner : Turn \cup {NoTurn}, title : Title]

\* A turn keeps one report per title (persisted_cfn_titles).
ReportId == Turn \X Title

Working == {"check", "question", "mark", "run", "drop", "persist",
            "finished", "error", "answer", "title", "last", "idle"}
Over == {"blocked", "failed", "ended", "lost"}

Local == [at : {"new"} \cup Working \cup Over,
          events : 0..MaxEvents,        \* events of the agent so far
          tool : {"none", "called", "returned"},
          todo : Seq(Artifact),         \* drained, still to persist
          owed : SUBSET Title,          \* made by its tools, still to be announced
          announced : SUBSET Title,     \* persisted_cfn_titles
          text : BOOLEAN,               \* text_parts is not empty
          traced : BOOLEAN,             \* ordered_segments is not empty
          finish : BOOLEAN,             \* buffered_run_finished
          unsaved : BOOLEAN,            \* the answer could not be written
          named : BOOLEAN,              \* the client sent the actor of its token
          blind : BOOLEAN,              \* the history could not be read
          alone : BOOLEAN,              \* no other turn worked meanwhile
          knew : SUBSET Turn,           \* turns whose end the user had seen
          history : SUBSET Turn]        \* turns whose answer the agent has

Fresh == [at |-> "new", events |-> 0, tool |-> "none", todo |-> <<>>,
          owed |-> {}, announced |-> {}, text |-> FALSE, traced |-> FALSE,
          finish |-> FALSE, unsaved |-> FALSE, named |-> TRUE, blind |-> FALSE,
          alone |-> TRUE, knew |-> {}, history |-> {}]

Item == {"finished", "done"} \X {{}} \cup {"marker"} \X {{i} : i \in ReportId}
Event == [turn : Turn, role : {"user", "assistant", "title"}, markers : SUBSET ReportId]

Init ==
    /\ turn = [t \in Turn |-> Fresh]
    /\ queue = [t \in Turn |-> <<>>]
    /\ client = [t \in Turn |-> [state |-> "reading", saw |-> FALSE, markers |-> {}]]
    /\ pending = <<>>
    /\ reports = {}
    /\ memory = <<>>
    /\ ActivityInit
    /\ loop = NoTurn
    /\ faults = 0

Busy(t) == turn[t].at \in Working
Free == loop = NoTurn
Remembered(t, role) == \E e \in ToSet(memory) : e.turn = t /\ e.role = role

\* Mistake: a queue that waits for its reader.
QueuedForReader(t, item) ==
    /\ client[t].state = "reading"
    /\ queue' = [queue EXCEPT ![t] = Append(@, item)]

\* What a browser that left does not read is not kept here.
Queued(t, item) ==
    queue' = [queue EXCEPT ![t] = IF client[t].state # "reading" THEN @ ELSE Append(@, item)]
Put(t, kind) == Queued(t, <<kind, {}>>)
\* The locals of a turn die with it.
Gone(t, pc) == [Fresh EXCEPT !.at = pc, !.traced = turn[t].traced,
                             !.unsaved = turn[t].unsaved, !.alone = turn[t].alone]
At(t, pc) == turn' = [turn EXCEPT ![t].at = pc]
Hold(t) == loop' = t
Release == loop' = NoTurn
Save(e) == memory' = Append(memory, e)

-----------------------------------------------------------------------------
(* The request: invocations                                                *)

\* The composer is disabled while the tab's own run goes on, and in a tab
\* that found the thread running.
CanWrite(t) ==
    \/ Tabs
    \/ /\ \A u \in 1..(t - 1) : client[u].state # "reading"
       /\ Shown # "running"

\* The user sends message t.  The client adds the actor id it derives from the
\* user's e-mail address, "anonymous" while it does not have the address; the
\* token of the request names the user in any case.
Ask(t) ==
    LET others == {u \in Turn : Busy(u)} IN
    /\ Free /\ turn[t].at = "new"
    /\ \A u \in 1..(t - 1) : turn[u].at # "new"
    /\ CanWrite(t)
    /\ \E named \in BOOLEAN :
        turn' = [u \in Turn |->
            IF u = t THEN [turn[t] EXCEPT !.at = "check", !.alone = others = {},
                               !.knew = {v \in Turn : client[v].saw}, !.named = named]
            ELSE IF u \in others THEN [turn[u] EXCEPT !.alone = FALSE]
            ELSE turn[u]]
    /\ Hold(t)
    /\ UNCHANGED <<queue, client, pending, reports, memory, activity, faults>>

\* The guardrail refuses the prompt: a message and RUN_FINISHED, nothing else.
Block(t) ==
    /\ turn[t].at = "check"
    /\ At(t, "blocked")
    /\ queue' = [queue EXCEPT ![t] = <<<<"finished", {}>>, <<"done", {}>>>>]
    /\ Release
    /\ UNCHANGED <<client, pending, reports, memory, activity, faults>>

\* What load_history finds under the actor of forwardedProps.  The turns are
\* saved under the actor of the token, so under another name it finds nothing.
Past(t) == {u \in Turn : turn[t].named /\ Remembered(u, "assistant")}

\* The prompt passes and agent_builder makes an agent with the history of the
\* session, or without one when Memory cannot be read.
Build(t) ==
    /\ turn[t].at = "check"
    /\ \/ /\ turn' = [turn EXCEPT ![t].at = "question", ![t].history = Past(t)]
          /\ Works
       \/ Fails /\ turn' = [turn EXCEPT ![t].at = "question", ![t].blind = TRUE]
    /\ UNCHANGED <<queue, client, pending, reports, memory, activity, loop>>

\* agent_builder raises: the response is an error, no turn starts.
BuildFails(t) ==
    /\ Fails /\ turn[t].at = "check"
    /\ At(t, "failed")
    /\ Put(t, "done")
    /\ Release
    /\ UNCHANGED <<client, pending, reports, memory, activity>>

SaveQuestion(t) ==
    /\ turn[t].at = "question"
    /\ At(t, "mark")
    /\ \/ Save([turn |-> t, role |-> "user", markers |-> {}]) /\ Works
       \/ Fails /\ UNCHANGED memory
    /\ UNCHANGED <<queue, client, pending, reports, activity, loop>>

\* mark_thread_running, then the producer becomes a task of its own.
Start(t) ==
    /\ turn[t].at = "mark"
    /\ At(t, "run")
    /\ Written(MarkRunning(t))
    /\ Release
    /\ UNCHANGED <<queue, client, pending, reports, memory>>

-----------------------------------------------------------------------------
(* The agent's events: the loop of _producer                               *)

Streaming(t) == Free /\ turn[t].at = "run" /\ turn[t].events < MaxEvents

\* Text is relayed and kept for Memory.  The queue is modelled without what
\* is merely relayed: only markers and ends matter here.
Text(t) ==
    /\ Streaming(t) /\ turn[t].tool = "none"
    /\ turn' = [turn EXCEPT ![t].events = @ + 1, ![t].text = TRUE, ![t].traced = TRUE]
    /\ UNCHANGED <<queue, client, pending, reports, memory, activity, loop, faults>>

\* Text that closes a <cfn-artifact> block: the block is not relayed but
\* persisted.
LegacyArtifact(t) ==
    /\ Streaming(t) /\ turn[t].tool = "none"
    /\ \E title \in Title :
        turn' = [turn EXCEPT ![t].events = @ + 1, ![t].at = "persist",
                     ![t].todo = <<[owner |-> t, title |-> title]>>,
                     ![t].owed = @ \cup ({title} \ turn[t].announced)]
    /\ Hold(t)
    /\ UNCHANGED <<queue, client, pending, reports, memory, activity, faults>>

\* TOOL_CALL_START: the current step of the activity row.
CallTool(t) ==
    /\ Streaming(t) /\ turn[t].tool = "none"
    /\ turn' = [turn EXCEPT ![t].events = @ + 1, ![t].tool = "called"]
    /\ Written(UpdateStep)
    /\ UNCHANGED <<queue, client, pending, reports, memory, loop>>

\* The tool runs in a thread; a delegate queues the artifacts it received.
\* Loop or no loop, it is never in its way.
ToolReturns(t) ==
    /\ turn[t].at = "run" /\ turn[t].tool = "called"
    /\ \/ turn' = [turn EXCEPT ![t].tool = "returned"] /\ UNCHANGED pending
       \/ \E title \in Title :
            /\ Len(pending) < MaxPending
            /\ turn' = [turn EXCEPT ![t].tool = "returned",
                                    ![t].owed = @ \cup ({title} \ turn[t].announced)]
            /\ pending' = Append(pending, [owner |-> t, title |-> title])
    /\ UNCHANGED <<queue, client, reports, memory, activity, loop, faults>>

\* Mistake: the list is replaced before it is read.
DrainLate(t) ==
    /\ Free /\ turn[t].at = "run" /\ turn[t].tool = "returned"
    /\ turn' = [turn EXCEPT ![t].at = "drop", ![t].todo = <<>>, ![t].traced = TRUE]
    /\ Hold(t)
    /\ UNCHANGED <<queue, client, pending, reports, memory, activity, faults>>

\* TOOL_CALL_RESULT: get_pending_cfn_artifacts copies the list ...
Drain(t) ==
    /\ Free /\ turn[t].at = "run" /\ turn[t].tool = "returned"
    /\ turn' = [turn EXCEPT ![t].at = "drop", ![t].todo = pending, ![t].traced = TRUE]
    /\ Hold(t)
    /\ UNCHANGED <<queue, client, pending, reports, memory, activity, faults>>

\* ... and then replaces it by an empty one.
Drop(t) ==
    /\ turn[t].at = "drop"
    /\ At(t, "persist")
    /\ pending' = <<>>
    /\ UNCHANGED <<queue, client, reports, memory, activity, loop, faults>>

\* Mistake: the marker is sent whether or not there is a report.
Kept(t, title, written) ==
    /\ turn' = [turn EXCEPT ![t].todo = Tail(@), ![t].text = TRUE, ![t].traced = TRUE,
                    ![t].announced = @ \cup {title}, ![t].owed = @ \ {title}]
    /\ Queued(t, <<"marker", {<<t, title>>}>>)

\* The marker of a report that was written, the fallback text otherwise.
Answered(t, title, written) ==
    /\ turn' = [turn EXCEPT ![t].todo = Tail(@), ![t].text = TRUE, ![t].traced = TRUE,
                    ![t].announced = IF written THEN @ \cup {title} ELSE @,
                    ![t].owed = @ \ {title}]
    /\ IF written THEN Queued(t, <<"marker", {<<t, title>>}>>) ELSE UNCHANGED queue

\* One artifact: _persist_cfn_artifact_as_report, unless its title was
\* persisted in this turn.  A write that failed may have happened.
Persist(t) ==
    LET a == Head(turn[t].todo)
        row == [id |-> <<t, a.title>>, owner |-> a.owner] IN
    /\ turn[t].at = "persist" /\ turn[t].todo # <<>>
    /\ \/ /\ a.title \in turn[t].announced
          /\ turn' = [turn EXCEPT ![t].todo = Tail(@)]
          /\ UNCHANGED <<queue, reports, faults>>
       \/ /\ a.title \notin turn[t].announced
          /\ reports' = reports \cup {row}
          /\ Answered(t, a.title, TRUE)
          /\ Works
       \/ /\ Fails /\ a.title \notin turn[t].announced
          /\ reports' \in {reports, reports \cup {row}}
          /\ Answered(t, a.title, FALSE)
    /\ UNCHANGED <<client, pending, memory, activity, loop>>

\* Back to the stream.
Persisted(t) ==
    /\ turn[t].at = "persist" /\ turn[t].todo = <<>>
    /\ turn' = [turn EXCEPT ![t].at = "run", ![t].tool = "none"]
    /\ Release
    /\ UNCHANGED <<queue, client, pending, reports, memory, activity, faults>>

\* Mistake: RUN_FINISHED is relayed like any other event.
RelayFinish(t) ==
    /\ Free /\ turn[t].at = "run" /\ turn[t].tool = "none"
    /\ At(t, "finished")
    /\ Put(t, "finished")
    /\ UNCHANGED <<client, pending, reports, memory, activity, loop, faults>>

\* RUN_FINISHED is held back until the answer is saved.
Finish(t) ==
    /\ Free /\ turn[t].at = "run" /\ turn[t].tool = "none"
    /\ turn' = [turn EXCEPT ![t].at = "finished", ![t].finish = TRUE]
    /\ UNCHANGED <<queue, client, pending, reports, memory, activity, loop, faults>>

\* Mistake: the thread is idle as soon as the agent is.
EndIdle(t) ==
    /\ Free
    /\ \/ turn[t].at = "finished"
       \/ turn[t].at = "run" /\ turn[t].tool = "none"
    /\ turn' = [turn EXCEPT ![t].at = "answer", ![t].events = 0]
    /\ Hold(t)
    /\ MarkIdle
    /\ UNCHANGED <<queue, client, pending, reports, memory, faults>>

\* The end of the stream; with or without RUN_FINISHED.
End(t) ==
    /\ Free
    /\ \/ turn[t].at = "finished"
       \/ turn[t].at = "run" /\ turn[t].tool = "none"
    /\ turn' = [turn EXCEPT ![t].at = "answer", ![t].events = 0]
    /\ Hold(t)
    /\ UNCHANGED <<queue, client, pending, reports, memory, activity, faults>>

\* The agent raises; a tool it called may have returned unnoticed.
Raise(t) ==
    /\ Free /\ turn[t].at \in {"run", "finished"} /\ turn[t].tool # "called"
    /\ turn' = [turn EXCEPT ![t].at = "error", ![t].tool = "none",
                    ![t].owed = {}, ![t].events = 0]
    /\ Hold(t)
    /\ UNCHANGED <<queue, client, pending, reports, memory, activity, faults>>

-----------------------------------------------------------------------------
(* The end of a turn: the finally block of _producer, in one go            *)

MarkFailed(t) ==
    /\ turn[t].at = "error"
    /\ At(t, "answer")
    /\ Written(MarkError)
    /\ UNCHANGED <<queue, client, pending, reports, memory, loop>>

\* _save_enriched_response: one event with everything the turn traced.  What
\* was not written is lost, save_assistant_message only logs it.
SaveAnswer(t) ==
    /\ turn[t].at = "answer"
    /\ \/ /\ ~turn[t].traced
          /\ At(t, "title")
          /\ UNCHANGED <<memory, faults>>
       \/ /\ turn[t].traced
          /\ At(t, "title")
          /\ Save([turn |-> t, role |-> "assistant",
                   markers |-> {<<t, title>> : title \in turn[t].announced}])
          /\ Works
       \/ /\ Fails /\ turn[t].traced
          /\ turn' = [turn EXCEPT ![t].at = "title", ![t].unsaved = TRUE]
          /\ UNCHANGED memory
    /\ UNCHANGED <<queue, client, pending, reports, activity, loop>>

\* _has_existing_title looks at one page of events, the newest first.
Titled == \E i \in DOMAIN memory :
    i + TitlePage > Len(memory) /\ memory[i].role = "title"

\* maybe_generate_and_save_title, which never raises.
SaveTitle(t) ==
    /\ turn[t].at = "title"
    /\ At(t, "last")
    /\ \/ /\ turn[t].text /\ ~Titled
          /\ Save([turn |-> t, role |-> "title", markers |-> {}])
          /\ Works
       \/ (~turn[t].text \/ Titled) /\ UNCHANGED <<memory, faults>>
       \/ Fails /\ UNCHANGED memory
    /\ UNCHANGED <<queue, client, pending, reports, activity, loop>>

\* Now the browser may know that the run is over.
SendFinish(t) ==
    /\ turn[t].at = "last"
    /\ turn' = [turn EXCEPT ![t].at = "idle", ![t].finish = FALSE]
    /\ IF turn[t].finish THEN Put(t, "finished") ELSE UNCHANGED queue
    /\ UNCHANGED <<client, pending, reports, memory, activity, loop, faults>>

\* mark_thread_idle, cleanup and the end of the queue.
EndTurn(t) ==
    /\ turn[t].at = "idle"
    /\ turn' = [turn EXCEPT ![t] = Gone(t, "ended")]
    /\ Written(MarkIdle)
    /\ Put(t, "done")
    /\ Release
    /\ UNCHANGED <<client, pending, reports, memory>>

-----------------------------------------------------------------------------
(* Around the turns                                                        *)

\* event_generator relays one item; a browser that has seen RUN_FINISHED
\* stops reading.
Receive(t) ==
    LET item == Head(queue[t]) IN
    /\ Free /\ client[t].state = "reading" /\ queue[t] # <<>>
    /\ queue' = [queue EXCEPT ![t] = IF item[1] = "finished" THEN <<>> ELSE Tail(@)]
    /\ client' = [client EXCEPT
            ![t].state = IF item[1] \in {"finished", "done"} THEN "closed" ELSE @,
            ![t].saw = @ \/ item[1] = "finished",
            ![t].markers = @ \cup item[2]]
    /\ UNCHANGED <<turn, pending, reports, memory, activity, loop, faults>>

\* The user navigates away; the producer is not cancelled.
Disconnect(t) ==
    /\ Free /\ turn[t].at # "new" /\ client[t].state = "reading"
    /\ client' = [client EXCEPT ![t].state = "gone"]
    /\ queue' = [queue EXCEPT ![t] = <<>>]
    /\ UNCHANGED <<turn, pending, reports, memory, activity, loop, faults>>

\* A report worker runs in the same container and a delegate of one of its
\* sections queues a template: a stray one, its worker never drains the list.
ReportQueues ==
    /\ Fails /\ Len(pending) < MaxPending
    /\ \E title \in Title : pending' = Append(pending, [owner |-> NoTurn, title |-> title])
    /\ UNCHANGED <<turn, queue, client, reports, memory, activity, loop>>

Aging ==
    /\ Free /\ GoStale
    /\ UNCHANGED <<turn, queue, client, pending, reports, memory, loop, faults>>

\* The container is stopped: its turns, queues and waiting artifacts are gone.
Crash ==
    /\ Fails
    /\ turn' = [t \in Turn |-> IF Busy(t) THEN Gone(t, "lost") ELSE turn[t]]
    /\ queue' = [t \in Turn |-> <<>>]
    /\ client' = [t \in Turn |->
            IF turn[t].at # "new" /\ client[t].state = "reading"
            THEN [client[t] EXCEPT !.state = "closed"] ELSE client[t]]
    /\ pending' = <<>>
    /\ Release
    /\ UNCHANGED <<reports, memory, activity>>

Handler(t) == Block(t) \/ Build(t) \/ BuildFails(t) \/ SaveQuestion(t) \/ Start(t)
Agent(t) == Text(t) \/ LegacyArtifact(t) \/ CallTool(t) \/ Finish(t) \/ End(t) \/ Raise(t)
Artifacts(t) == Drain(t) \/ Drop(t) \/ Persist(t) \/ Persisted(t)
Ending(t) == MarkFailed(t) \/ SaveAnswer(t) \/ SaveTitle(t)
             \/ SendFinish(t) \/ EndTurn(t)
Step(t) == Handler(t) \/ Agent(t) \/ ToolReturns(t) \/ Artifacts(t) \/ Ending(t)

Next ==
    \/ \E t \in Turn : Ask(t) \/ Step(t) \/ Receive(t) \/ Disconnect(t)
    \/ ReportQueues \/ Aging \/ Crash

Spec == Init /\ [][Next]_vars

\* A turn goes on while the container runs: handlers and the finally block
\* do not wait, a tool call times out, the agent's event loop is bounded.
LiveSpec == Spec /\ \A t \in Turn : WF_vars(Step(t)) /\ WF_vars(Aging)

-----------------------------------------------------------------------------
(* Properties                                                              *)

\* Turns, queues, Memory and the tables are well typed.
TypeOK ==
    /\ turn \in [Turn -> Local]
    /\ queue \in [Turn -> Seq(Item)]
    /\ client \in [Turn -> [state : {"reading", "closed", "gone"}, saw : BOOLEAN,
                            markers : SUBSET ReportId]]
    /\ pending \in Seq(Artifact)
    /\ reports \subseteq [id : ReportId, owner : Turn \cup {NoTurn}]
    /\ memory \in Seq(Event)
    /\ ActivityTypeOK
    /\ loop \in Turn \cup {NoTurn}
    /\ faults \in 0..MaxFaults

\* A follow-up question is answered with the turns the user had seen finish:
\* their answers are in the history the agent was built with, unless there
\* was nothing to save, a call to Memory failed, or the browser sent the
\* question under another actor than its token's (RUN_FINISHED is held back
\* until the answer is saved).
Answers(t) ==
    \A u \in turn[t].knew :
        \/ u \in turn[t].history
        \/ turn[t].blind
        \/ turn[u].unsaved \/ ~turn[u].traced
FollowUpSeesAnswer ==
    \A t \in Turn : turn[t].at \in Working \ {"check"} => Answers(t) \/ ~turn[t].named

\* agui_server.py: "JWT-derived actor wins; forwardedProps is only a fallback
\* for callers without a bearer token": what the agent of a signed-in user
\* remembers does not hang on what its browser sent (agent_builder reads the
\* history under the actor of forwardedProps all the same).
TokenNamesTheUser ==
    \A t \in Turn : turn[t].at \in Working \ {"check"} => Answers(t)

\* Every report marker that the browser has or that a reload will find in
\* Memory leads to a row of the report table (persist first, then announce).
MarkersResolve ==
    \A id \in (UNION {client[t].markers : t \in Turn})
             \cup (UNION {e.markers : e \in ToSet(memory)}) :
        \E r \in reports : r.id = id

\* A thread that shows a turn as over has its answer: nothing is left to the
\* container once the row is idle (save, then mark_thread_idle).
IdleMeansSaved ==
    \A t \in Turn :
        activity.status = "idle" /\ activity.run = t /\ turn[t].alone =>
            \/ Remembered(t, "assistant")
            \/ turn[t].unsaved \/ ~turn[t].traced \/ turn[t].at = "lost"

\* A turn that was alone in the container and went well has announced every
\* template its tools made, or told the user that it could not be saved.
ArtifactsAnnounced ==
    \A t \in Turn : turn[t].at = "idle" /\ turn[t].alone => turn[t].owed = {}

\* A turn ends, whether or not the browser stays (the producer is detached
\* and its queue unbounded).
TurnEnds == \A t \in Turn : turn[t].at = "check" ~> turn[t].at \in Over

\* The composer of a thread is not disabled for good, even when the container
\* dies or a write is lost (a running row goes stale after ten minutes).
ThreadFrees == []<>(Shown # "running")

\* registry.py: module-level state is safe because the runtime processes one
\* request at a time per container: a turn announces what its own tools made.
OwnArtifacts == \A r \in reports : r.id[1] = r.owner
=============================================================================
