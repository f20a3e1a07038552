---------------------------- MODULE CoverageRun ----------------------------
(***************************************************************************)
(* The CloudWatch coverage collector: a coordinator starts runs, SQS       *)
(* workers take inventory, analyse one region each and publish the run as  *)
(* the current snapshot of the account, which the gateway tool serves page *)
(* by page (src/src/lambda/collectors/cloudwatch).                         *)
(***************************************************************************)
EXTENDS Naturals, FiniteSets

CONSTANTS
    Worker,     \* invocations of the worker that may overlap
    MaxRuns,    \* runs, numbered by their created_at
    Region,     \* the enabled regions
    MaxReceives,    \* maxReceiveCount of the queue
    None,
    MaxFaults   \* crashes, repeated deliveries and stale reads

\* inventory_source: Resource Explorer, or the Tagging API when that fails.
Inventory == {"resource_explorer", "tagging_api"}

\* An account always has a region that is enabled.
ASSUME CoverageConstants ==
    /\ MaxRuns \in Nat /\ MaxFaults \in Nat /\ MaxReceives \in Nat \ {0}
    /\ Region # {} /\ None \notin Region \cup Inventory

VARIABLES
    meta,        \* RUN#<id> / META, and whether the inventory job was sent
    marker,      \* RUN#<id> / REGION#<region>: the inventory it speaks of
    rows,        \* SNAPSHOT#<id>#<region>: readings its rows are from
    whole,       \* SNAPSHOT#<id>#<region>: readings all rows are there of
    current,     \* ACCOUNT#<account> / CURRENT
    queue,       \* SQS: messages that can be received; of two alike, one
    dead,        \* the dead-letter queue
    missed,      \* runs of which a finalize job did not see a marker
    worker,      \* the invocations of the worker
    faults

runs == <<meta, marker, rows, whole>>
vars == <<runs, current, queue, dead, missed, worker, faults>>

Run == 1..MaxRuns
\* What a region job reads: one of these, or too early to see every row that
\* inventory_job has stored (the table is read without ConsistentRead).
Reading == Inventory \cup {"early"}
From(s) == IF s = "resource_explorer" THEN {s, "early"} ELSE {s}

Message == [job : {"inventory", "region", "finalize"}, run : Run,
            region : Region \cup {None}, source : Inventory \cup {None},
            received : 0..MaxReceives]

Job(kind, r, g, s) == [job |-> kind, run |-> r, region |-> g, source |-> s, received |-> 0]
InventoryJob(r) == Job("inventory", r, None, None)
RegionJob(r, g, s) == Job("region", r, g, s)
FinalizeJob(r) == Job("finalize", r, None, None)

\* Where an invocation of the worker stands, and what it has read.
Local == [at : {"idle", "list", "check", "write",
                "mark", "notify", "gather", "publish"},
          job : Message \cup {None},
          ready : SUBSET Region]
Idle == [at |-> "idle", job |-> None, ready |-> {}]

Init ==
    /\ meta = [r \in Run |-> "none"]
    /\ marker = [r \in Run |-> [g \in Region |-> None]]
    /\ rows = [r \in Run |-> [g \in Region |-> {}]]
    /\ whole = [r \in Run |-> [g \in Region |-> {}]]
    /\ current = [run |-> 0, complete |-> FALSE]
    /\ queue = {} /\ dead = {} /\ missed = {}
    /\ worker = [w \in Worker |-> Idle]
    /\ faults = 0

Fails == faults < MaxFaults /\ faults' = faults + 1
To(w, at) == worker' = [worker EXCEPT ![w].at = at]
Done(w) == worker' = [worker EXCEPT ![w] = Idle]
At(w, at) == worker[w].at = at
Of(w) == worker[w].job

-----------------------------------------------------------------------------
(* The coordinator                                                         *)

\* put_run_if_absent, for a slot that has no run yet; the run of a slot that
\* has one is reused, also when the invocation that made it was stopped before
\* it sent the job.  The status of META and the REFRESH item, which only show
\* progress, are left out.
StartRun(r) ==
    /\ meta[r] = "none"
    /\ \A q \in 1..(r - 1) : meta[q] # "none"
    /\ \/ /\ queue' = queue \cup {InventoryJob(r)}
          /\ meta' = [meta EXCEPT ![r] = "sent"]
          /\ UNCHANGED faults
       \/ /\ Fails
          /\ meta' = [meta EXCEPT ![r] = "unsent"]
          /\ UNCHANGED queue
    /\ UNCHANGED <<marker, rows, whole, current, dead, missed, worker>>

-----------------------------------------------------------------------------
(* The worker                                                              *)

Start(m) == CASE m.job = "inventory" -> "list"
              [] m.job = "region" -> "check"
              [] m.job = "finalize" -> "gather"

Got(m) == [m EXCEPT !.received = @ + 1]

\* SQS hides the message from others; it may also deliver it once more.
Receive(w, m) ==
    /\ At(w, "idle") /\ m \in queue
    /\ worker' = [worker EXCEPT ![w] = [Idle EXCEPT !.at = Start(m), !.job = Got(m)]]
    /\ \/ queue' = queue \ {m} /\ UNCHANGED faults
       \/ /\ Fails /\ Got(m).received < MaxReceives
          /\ queue' = (queue \ {m}) \cup {Got(m)}
    /\ UNCHANGED <<runs, current, dead, missed>>

\* The timeout, or an exception: the message becomes visible again, or is dead
\* when it has been received as often as the queue allows.
WorkerStops(w) ==
    /\ ~At(w, "idle") /\ Fails
    /\ IF Of(w).received < MaxReceives
       THEN queue' = queue \cup {Of(w)} /\ UNCHANGED dead
       ELSE dead' = dead \cup {Of(w)} /\ UNCHANGED queue
    /\ Done(w)
    /\ rows' = IF At(w, "write")    \* in the middle of batch_write_items
               THEN [rows EXCEPT ![Of(w).run][Of(w).region] = @ \cup {Of(w).source}]
               ELSE rows
    /\ UNCHANGED <<meta, marker, whole, current, missed>>

\* inventory_job: Resource Explorer answers and its rows are stored, or it does
\* not and the regions are left to the Tagging API.  An invocation stopped before
\* it sends leaves nothing behind that a region job reads.  Entries that SQS did
\* not accept, which _send_jobs does not look at, are left out: a run that loses
\* a message stays collecting.
SendRegions(w) ==
    /\ At(w, "list")
    /\ \E s \in Inventory : queue' = queue \cup {RegionJob(Of(w).run, g, s) : g \in Region}
    /\ Done(w)
    /\ UNCHANGED <<runs, current, dead, missed, faults>>

\* Mistake: a repeated job is done with.
AfterCheckDone(found) == IF found THEN "idle" ELSE "write"

\* region_job: a region that is complete is not analysed again, but finalize
\* is asked for again, in case the invocation before was stopped.
AfterCheck(found) == IF found THEN "notify" ELSE "write"

\* The marker is looked for; the read may be too early to find it.
CheckMarker(w) ==
    LET marked == marker[Of(w).run][Of(w).region] # None
        Then(at) == worker' = [worker EXCEPT ![w] =
                        IF at = "idle" THEN Idle ELSE [@ EXCEPT !.at = at]] IN
    /\ At(w, "check")
    /\ \/ Then(AfterCheck(marked)) /\ UNCHANGED faults
       \/ marked /\ Then(AfterCheck(FALSE)) /\ Fails
    /\ UNCHANGED <<runs, current, queue, dead, missed>>

\* What Resource Explorer lists includes what has tags: its rows replace those
\* of the Tagging API, which replace only some of the others, as do the rows of
\* an early reading.  Inventory, tags and alarms are read first; any of these
\* calls may raise (WorkerStops).
WriteRows(w) ==
    LET r == Of(w).run  g == Of(w).region  s == Of(w).source IN
    /\ At(w, "write")
    /\ \E read \in From(s) :
        /\ IF read = "early" THEN Fails ELSE UNCHANGED faults
        /\ rows' = [rows EXCEPT ![r][g] =
                        IF read = "resource_explorer" THEN {read} ELSE @ \cup {read}]
        /\ whole' = [whole EXCEPT ![r][g] = @ \cup {read}]
    /\ To(w, "mark")
    /\ UNCHANGED <<meta, marker, current, queue, dead, missed>>

\* complete_region keeps a marker that is there.
Mark(w) ==
    LET r == Of(w).run  g == Of(w).region IN
    /\ At(w, "mark")
    /\ marker' = [marker EXCEPT ![r][g] = IF @ = None THEN Of(w).source ELSE @]
    /\ To(w, "notify")
    /\ UNCHANGED <<meta, rows, whole, current, queue, dead, missed, faults>>

Notify(w) ==
    /\ At(w, "notify")
    /\ queue' = queue \cup {FinalizeJob(Of(w).run)}
    /\ Done(w)
    /\ UNCHANGED <<runs, current, dead, missed, faults>>

Marked(r) == {g \in Region : marker[r][g] # None}

\* finalize_job: what the REGION# rows say.  The query may be too early to see
\* the newest of them, the one whose writer sent this job included.
Gather(w) ==
    /\ At(w, "gather")
    /\ \E ready \in SUBSET Marked(Of(w).run) :
        /\ worker' = [worker EXCEPT ![w].at = "publish", ![w].ready = ready]
        /\ IF ready = Marked(Of(w).run)
           THEN UNCHANGED <<missed, faults>>
           ELSE missed' = missed \cup {Of(w).run} /\ Fails
    /\ UNCHANGED <<runs, current, queue, dead>>

\* Mistake: any region will do.
AllReadySome(ready) == ready # {}

AllReady(ready) == ready = Region

\* Mistake: the inventories count as complete.
CompleteAlways(r) == TRUE

Complete(r) == \A g \in Region : marker[r][g] = "resource_explorer"

\* publish_current: only over an older run.  When a region is missing it answers
\* False and the job is done all the same.
Publish(w) ==
    /\ At(w, "publish")
    /\ IF AllReady(worker[w].ready) /\ current.run < Of(w).run
       THEN current' = [run |-> Of(w).run, complete |-> Complete(Of(w).run)]
       ELSE UNCHANGED current
    /\ Done(w)
    /\ UNCHANGED <<runs, queue, dead, missed, faults>>

Step(w) ==
    \/ SendRegions(w)
    \/ CheckMarker(w) \/ WriteRows(w) \/ Mark(w) \/ Notify(w)
    \/ Gather(w) \/ Publish(w)

Next ==
    \/ \E r \in Run : StartRun(r)
    \/ \E w \in Worker : Step(w) \/ WorkerStops(w) \/ \E m \in queue : Receive(w, m)

Spec == Init /\ [][Next]_vars

-----------------------------------------------------------------------------
(* Properties                                                              *)

TypeOK ==
    /\ meta \in [Run -> {"none", "sent", "unsent"}]
    /\ marker \in [Run -> [Region -> Inventory \cup {None}]]
    /\ rows \in [Run -> [Region -> SUBSET Reading]]
    /\ whole \in [Run -> [Region -> SUBSET Reading]]
    /\ current \in [run : 0..MaxRuns, complete : BOOLEAN]
    /\ queue \subseteq Message /\ dead \subseteq Message /\ missed \subseteq Run
    /\ worker \in [Worker -> Local]
    /\ faults \in 0..MaxFaults

\* The snapshot the tool serves has all rows of every region, whatever
\* invocations were stopped, repeated or overtaken on the way.
PublishedIsWhole ==
    current.run # 0 => \A g \in Region : whole[current.run][g] # {}

\* A snapshot is served as complete only if every region of it was analysed
\* from what a complete inventory had stored, as far as the region job could
\* already read it, whatever a retry fell back to.
CompleteIsTrue ==
    current.complete =>
        \A g \in Region : whole[current.run][g] \cap From("resource_explorer") # {}

\* "Immutable CloudWatch coverage runs" (storage.py:1): the rows of the current
\* snapshot do not change while it is served.
Immutable ==
    [][\A r \in Run : current.run = r /\ current'.run = r => rows'[r] = rows[r]]_vars

Quiet == queue = {} /\ \A w \in Worker : At(w, "idle")

\* When no message and no invocation is left, every run whose inventory job was
\* sent is published or overtaken, unless SQS has given up on a message of it,
\* or it has all its markers and a finalize job was too early to see them.
RunIsPublished ==
    Quiet => \A r \in Run : meta[r] = "sent" =>
        \/ current.run >= r
        \/ \E m \in dead : m.run = r
        \/ r \in missed /\ Marked(r) = Region

\* A message that can be received, or that an invocation works on.
Live(m) == m \in queue \/ \E w \in Worker : ~At(w, "idle") /\ Of(w) = m
Listing(r) == \E m \in Message : Live(m) /\ m.job = "inventory" /\ m.run = r
Analysing(r, g) == \E m \in Message : Live(m) /\ m.job = "region" /\ m.run = r /\ m.region = g

\* "Missing markers are pending or retrying" (docs/agents/cloudwatch.md:45): a
\* region of a run without its marker still has a job.
MissingIsPending ==
    \A r \in Run, g \in Region :
        meta[r] = "sent" => marker[r][g] # None \/ Listing(r) \/ Analysing(r, g)
=============================================================================
