------------------------- MODULE CoverageRunProofs -------------------------
(***************************************************************************)
(* What the coverage collector publishes, for any number of runs, regions, *)
(* overlapping invocations and faults.                                     *)
(***************************************************************************)
EXTENDS CoverageRun, TLAPS

-----------------------------------------------------------------------------
(* The invariant                                                           *)

\* Where the job of a message is worked on.
Places(job) ==
    CASE job = "inventory" -> {"list"}
      [] job = "region" -> {"check", "write", "mark", "notify"}
      [] job = "finalize" -> {"gather", "publish"}

Fit(m) == m \in Message /\ (m.job = "region" => m.region \in Region /\ m.source \in Inventory)

\* A message in the queue can be received once more.
Waiting(m) == Fit(m) /\ m.received < MaxReceives

Placed(l) == l.at # "idle" => Fit(l.job) /\ l.at \in Places(l.job.job)

Shape ==
    /\ TypeOK
    /\ \A m \in queue : Waiting(m)
    /\ \A w \in Worker : Placed(worker[w])

\* All rows of one reading of this inventory are there.
Held(s, r, g) == From(s) \cap whole[r][g] # {}

\* What an invocation knows of the tables where it stands.
Knows(w) ==
    /\ At(w, "mark") => Held(Of(w).source, Of(w).run, Of(w).region)
    /\ At(w, "notify") => marker[Of(w).run][Of(w).region] # None
    /\ At(w, "publish") => \A g \in worker[w].ready : marker[Of(w).run][g] # None

MarkersBacked ==
    \A r \in Run, g \in Region : marker[r][g] # None => Held(marker[r][g], r, g)

CurrentBacked ==
    /\ current.run # 0 => \A g \in Region : marker[current.run][g] # None
    /\ current.complete =>
           current.run # 0 /\ \A g \in Region : marker[current.run][g] = "resource_explorer"

Backed == MarkersBacked /\ CurrentBacked /\ \A w \in Worker : Knows(w)

Covered(r) == \A g \in Region : marker[r][g] # None \/ Analysing(r, g)

\* What will lead to a publication: not a finalize job that has found a region
\* missing.
Leads(m, r) == m.job \in {"region", "finalize"} /\ m.run = r
Asked(r) ==
    \/ \E m \in queue : Leads(m, r)
    \/ \E w \in Worker : /\ ~At(w, "idle") /\ Leads(Of(w), r)
                         /\ At(w, "publish") => worker[w].ready = Region

\* SQS has given up on a message of the run.
GivenUp(r) == \E m \in dead : m.run = r

Pursued(r) ==
    \/ current.run >= r
    \/ GivenUp(r)
    \/ Listing(r)
    \/ Covered(r) /\ (Asked(r) \/ r \in missed)

NoRunLost == \A r \in Run : meta[r] = "sent" => Pursued(r)

IInv == Shape /\ Backed /\ NoRunLost

-----------------------------------------------------------------------------
(* How an invocation moves                                                 *)

Spots == {"idle", "list", "check", "write", "mark", "notify", "gather", "publish"}

\* Others stay where they are.
Others(w) == \A v \in Worker \ {w} : worker'[v] = worker[v]

LEMMA ToMoves ==
    ASSUME worker \in [Worker -> Local], NEW w \in Worker, NEW at \in Spots, To(w, at)
    PROVE  /\ worker' \in [Worker -> Local] /\ Others(w)
           /\ worker'[w].at = at /\ worker'[w].job = worker[w].job
           /\ worker'[w].ready = worker[w].ready
<1> DEFINE l == [worker[w] EXCEPT !.at = at]
<1>1. worker[w] \in Local
  OBVIOUS
<1>2. worker' = [worker EXCEPT ![w] = l]
  BY DEF To
<1>3. l \in Local /\ l.at = at /\ l.job = worker[w].job /\ l.ready = worker[w].ready
  BY <1>1 DEF Local, Spots
<1> HIDE DEF l
<1> QED
  BY <1>2, <1>3 DEF Others

\* What the look for a marker leads to.
LEMMA CheckGoes ==
    ASSUME NEW w \in Worker, CheckMarker(w)
    PROVE  \/ To(w, "notify") /\ marker[Of(w).run][Of(w).region] # None
           \/ To(w, "write")
BY DEF CheckMarker, AfterCheck, To

LEMMA DoneMoves ==
    ASSUME worker \in [Worker -> Local], NEW w \in Worker, Done(w)
    PROVE  worker' \in [Worker -> Local] /\ Others(w) /\ worker'[w].at = "idle"
<1>1. Idle \in Local /\ Idle.at = "idle"
  BY DEF Idle, Local
<1> QED
  BY <1>1 DEF Done, Others

LEMMA GatherMoves ==
    ASSUME worker \in [Worker -> Local], NEW w \in Worker, Gather(w)
    PROVE  /\ worker' \in [Worker -> Local] /\ Others(w)
           /\ worker'[w].at = "publish" /\ worker'[w].job = worker[w].job
           /\ worker'[w].ready \subseteq Marked(Of(w).run)
           /\ worker'[w].ready = Marked(Of(w).run) \/ missed' = missed \cup {Of(w).run}
<1>1. PICK ready \in SUBSET Marked(Of(w).run) :
          /\ worker' = [worker EXCEPT ![w].at = "publish", ![w].ready = ready]
          /\ ready = Marked(Of(w).run) \/ missed' = missed \cup {Of(w).run}
  BY DEF Gather
<1> DEFINE l == [worker[w] EXCEPT !.at = "publish", !.ready = ready]
<1>2. worker' = [worker EXCEPT ![w] = l]
  BY <1>1
<1>3. worker[w] \in Local /\ ready \in SUBSET Region
  BY DEF Marked
<1>4. l \in Local /\ l.at = "publish" /\ l.job = worker[w].job /\ l.ready = ready
  BY <1>3 DEF Local
<1> HIDE DEF l
<1>5. worker' \in [Worker -> Local] /\ Others(w) /\ worker'[w] = l
  BY <1>2, <1>4 DEF Others
<1> QED
  BY <1>1, <1>4, <1>5

-----------------------------------------------------------------------------
(* Types                                                                   *)

LEMMA ShapeInit == ASSUME CoverageConstants PROVE Init => Shape
<1> SUFFICES ASSUME Init PROVE Shape
  OBVIOUS
<1>1. Idle \in Local /\ Idle.at = "idle"
  BY DEF Idle, Local
<1>2. worker \in [Worker -> Local] /\ \A w \in Worker : worker[w].at = "idle"
  BY <1>1 DEF Init
<1>3. /\ meta \in [Run -> {"none", "sent", "unsent"}]
      /\ marker \in [Run -> [Region -> Inventory \cup {None}]]
      /\ rows \in [Run -> [Region -> SUBSET Reading]]
      /\ whole \in [Run -> [Region -> SUBSET Reading]]
  BY DEF Init
<1>4. current \in [run : 0..MaxRuns, complete : BOOLEAN] /\ faults \in 0..MaxFaults
  BY SMT DEF Init, CoverageConstants
<1> QED
  BY <1>2, <1>3, <1>4 DEF Shape, TypeOK, Placed, Init

\* What a message is, is seen from its job.
LEMMA Jobs ==
    ASSUME NEW r \in Run
    PROVE  /\ Waiting(InventoryJob(r)) /\ Waiting(FinalizeJob(r))
           /\ \A g \in Region, s \in Inventory : Waiting(RegionJob(r, g, s))
<1>1. 0 \in 0..MaxReceives /\ 0 < MaxReceives
  BY CoverageConstants, SMT DEF CoverageConstants
<1> QED
  BY <1>1 DEF Waiting, Fit, Message, Job, InventoryJob, FinalizeJob, RegionJob

\* A message that is received stays the same job.
LEMMA Receiving ==
    ASSUME NEW m, Waiting(m)
    PROVE  /\ Fit(Got(m)) /\ Got(m).job = m.job /\ Got(m).run = m.run
           /\ Got(m).region = m.region /\ Got(m).source = m.source
<1> DEFINE n == m.received + 1
<1>1. m \in Message /\ Got(m) = [m EXCEPT !.received = n]
  BY DEF Waiting, Fit, Got
<1>2. m.received \in 0..MaxReceives
  BY <1>1 DEF Message
<1>3. n \in 0..MaxReceives
  BY <1>2, CoverageConstants, SMT DEF CoverageConstants, Waiting
<1> HIDE DEF n
<1>4. /\ Got(m) \in Message /\ Got(m).job = m.job /\ Got(m).run = m.run
      /\ Got(m).region = m.region /\ Got(m).source = m.source
  BY <1>1, <1>3 DEF Message
<1> QED
  BY <1>4 DEF Waiting, Fit

\* Where an invocation stands tells what it works on.
LEMMA Standing ==
    ASSUME Shape, NEW w \in Worker, ~At(w, "idle")
    PROVE  /\ Of(w) \in Message /\ Fit(Of(w)) /\ Of(w).run \in Run
           /\ At(w, "list") <=> Of(w).job = "inventory"
           /\ At(w, "gather") \/ At(w, "publish") <=> Of(w).job = "finalize"
           /\ At(w, "check") \/ At(w, "write") \/ At(w, "mark") \/ At(w, "notify")
              <=> Of(w).job = "region"
           /\ Of(w).job = "region" => Of(w).region \in Region /\ Of(w).source \in Inventory
<1>1. Fit(Of(w)) /\ worker[w].at \in Places(Of(w).job)
  BY DEF Shape, Placed, At, Of
<1>2. Of(w) \in Message /\ (Of(w).job = "region" => Of(w).region \in Region /\ Of(w).source \in Inventory)
  BY <1>1 DEF Fit
<1>3. Of(w).run \in Run /\ Of(w).job \in {"inventory", "region", "finalize"}
  BY <1>2 DEF Message
<1> QED
  BY <1>1, <1>2, <1>3 DEF Places, At

\* An invocation that goes on, or ends, leaves every invocation well placed.
LEMMA ToPlaced ==
    ASSUME Shape, NEW w \in Worker, ~At(w, "idle"), NEW at \in Spots, To(w, at),
           at \in Places(Of(w).job)
    PROVE  worker' \in [Worker -> Local] /\ \A v \in Worker : Placed(worker'[v])
<1>1. worker \in [Worker -> Local] /\ \A v \in Worker : Placed(worker[v])
  BY DEF Shape, TypeOK
<1>2. /\ worker' \in [Worker -> Local] /\ Others(w)
      /\ worker'[w].at = at /\ worker'[w].job = worker[w].job
  BY <1>1, ToMoves
<1>3. Placed(worker'[w])
  BY <1>1, <1>2 DEF Placed, At, Of
<1> QED
  BY <1>1, <1>2, <1>3 DEF Others

LEMMA DonePlaced ==
    ASSUME Shape, NEW w \in Worker, Done(w)
    PROVE  worker' \in [Worker -> Local] /\ \A v \in Worker : Placed(worker'[v])
<1>1. worker \in [Worker -> Local] /\ \A v \in Worker : Placed(worker[v])
  BY DEF Shape, TypeOK
<1>2. worker' \in [Worker -> Local] /\ Others(w) /\ worker'[w].at = "idle"
  BY <1>1, DoneMoves
<1>3. Placed(worker'[w])
  BY <1>2 DEF Placed
<1> QED
  BY <1>1, <1>2, <1>3 DEF Others

LEMMA FaultCounts == ASSUME CoverageConstants, TypeOK, Fails PROVE faults' \in 0..MaxFaults
BY SMT DEF CoverageConstants, TypeOK, Fails

LEMMA ShapeStart == ASSUME CoverageConstants, Shape, NEW r \in Run, StartRun(r) PROVE Shape'
<1>1. TypeOK /\ (\A m \in queue : Waiting(m)) /\ \A w \in Worker : Placed(worker[w])
  BY DEF Shape
<1>2. meta' \in [Run -> {"none", "sent", "unsent"}]
  BY <1>1 DEF StartRun, TypeOK
<1>3. \A m \in queue' : Waiting(m)
  BY <1>1, Jobs DEF StartRun
<1>4. queue' \subseteq Message
  BY <1>3 DEF Waiting, Fit
<1>5. faults' \in 0..MaxFaults
  BY <1>1, FaultCounts DEF StartRun, TypeOK
<1> QED
  BY <1>1, <1>2, <1>3, <1>4, <1>5 DEF Shape, TypeOK, StartRun

LEMMA ShapeReceive ==
    ASSUME CoverageConstants, Shape, NEW w \in Worker, NEW m \in queue, Receive(w, m)
    PROVE  Shape'
<1>1. TypeOK /\ (\A n \in queue : Waiting(n)) /\ \A v \in Worker : Placed(worker[v])
  BY DEF Shape
<1> DEFINE l == [Idle EXCEPT !.at = Start(m), !.job = Got(m)]
<1>2. Fit(Got(m)) /\ Got(m) \in Message /\ Got(m).job = m.job
      /\ m.job \in {"inventory", "region", "finalize"}
  BY <1>1, Receiving DEF Fit, Message
<1>3. l.at = Start(m) /\ l.job = Got(m) /\ l.ready = {}
  BY DEF Idle
<1>4. Start(m) \in Spots /\ Start(m) \in Places(m.job)
  BY <1>2 DEF Start, Spots, Places
<1>5. l \in Local
  <2>1. Idle \in Local
    BY DEF Idle, Local
  <2> QED
    BY <1>2, <1>4, <2>1 DEF Local, Spots
<1>6. worker' = [worker EXCEPT ![w] = l]
  BY DEF Receive
<1>7. Placed(l)
  BY <1>2, <1>3, <1>4 DEF Placed
<1> HIDE DEF l
<1>8. worker' \in [Worker -> Local] /\ \A v \in Worker : Placed(worker'[v])
  BY <1>1, <1>5, <1>6, <1>7 DEF TypeOK
<1>9. \A n \in queue' : Waiting(n)
  <2>1. CASE queue' = queue \ {m}
    BY <1>1, <2>1
  <2>2. CASE Got(m).received < MaxReceives /\ queue' = (queue \ {m}) \cup {Got(m)}
    BY <1>1, <1>2, <2>2 DEF Waiting
  <2> QED
    BY <2>1, <2>2 DEF Receive
<1>10. queue' \subseteq Message
  BY <1>9 DEF Waiting, Fit
<1>11. faults' \in 0..MaxFaults
  BY <1>1, FaultCounts DEF Receive, TypeOK
<1> QED
  BY <1>1, <1>8, <1>9, <1>10, <1>11 DEF Shape, TypeOK, Receive, runs

LEMMA ShapeStops ==
    ASSUME CoverageConstants, Shape, NEW w \in Worker, WorkerStops(w) PROVE Shape'
<1>1. TypeOK /\ \A m \in queue : Waiting(m)
  BY DEF Shape
<1>2. Of(w) \in Message /\ Fit(Of(w))
  BY Standing DEF WorkerStops
<1>3. rows' \in [Run -> [Region -> SUBSET Reading]]
  <2>1. CASE At(w, "write")
    <3>1. Of(w).run \in Run /\ Of(w).region \in Region /\ Of(w).source \in Reading
      BY <2>1, Standing DEF WorkerStops, Reading
    <3> QED
      BY <1>1, <2>1, <3>1 DEF WorkerStops, TypeOK
  <2>2. CASE ~At(w, "write")
    BY <1>1, <2>2 DEF WorkerStops, TypeOK
  <2> QED
    BY <2>1, <2>2
<1>4. worker' \in [Worker -> Local] /\ \A v \in Worker : Placed(worker'[v])
  BY DonePlaced DEF WorkerStops
<1>5. faults' \in 0..MaxFaults
  BY <1>1, FaultCounts DEF WorkerStops
<1>6. (\A m \in queue' : Waiting(m)) /\ queue' \subseteq Message /\ dead' \subseteq Message
  <2>1. CASE Of(w).received < MaxReceives
    BY <1>1, <1>2, <2>1 DEF WorkerStops, TypeOK, Waiting
  <2>2. CASE ~(Of(w).received < MaxReceives)
    BY <1>1, <1>2, <2>2 DEF WorkerStops, TypeOK
  <2> QED
    BY <2>1, <2>2
<1> QED
  BY <1>1, <1>3, <1>4, <1>5, <1>6 DEF Shape, TypeOK, WorkerStops

LEMMA ShapeStep == ASSUME CoverageConstants, Shape, NEW w \in Worker, Step(w) PROVE Shape'
<1>1. TypeOK /\ \A m \in queue : Waiting(m)
  BY DEF Shape
<1>2. CASE SendRegions(w)
  <2>1. Of(w).run \in Run
    BY <1>2, Standing DEF SendRegions, At
  <2>2. \A m \in queue' : Waiting(m)
    BY <1>1, <1>2, <2>1, Jobs DEF SendRegions
  <2>3. queue' \subseteq Message
    BY <2>2 DEF Waiting, Fit
  <2>4. worker' \in [Worker -> Local] /\ \A v \in Worker : Placed(worker'[v])
    BY <1>2, DonePlaced DEF SendRegions
  <2> QED
    BY <1>1, <1>2, <2>2, <2>3, <2>4 DEF Shape, TypeOK, SendRegions, runs
<1>3. CASE CheckMarker(w)
  <2>1. ~At(w, "idle") /\ Of(w).job = "region"
    BY <1>3, Standing DEF CheckMarker, At
  <2>2. To(w, "notify") \/ To(w, "write")
    BY <1>3, CheckGoes
  <2>3. worker' \in [Worker -> Local] /\ \A v \in Worker : Placed(worker'[v])
    BY <2>1, <2>2, ToPlaced DEF Places, Spots
  <2>4. faults' \in 0..MaxFaults
    BY <1>1, <1>3, FaultCounts DEF CheckMarker, TypeOK
  <2> QED
    BY <1>1, <1>3, <2>3, <2>4 DEF Shape, TypeOK, CheckMarker, runs
<1>4. CASE WriteRows(w)
  <2>1. /\ ~At(w, "idle") /\ Of(w).job = "region" /\ Of(w).run \in Run
        /\ Of(w).region \in Region /\ Of(w).source \in Inventory
    BY <1>4, Standing DEF WriteRows, At
  <2>6. PICK read \in From(Of(w).source) :
            /\ \/ rows' = [rows EXCEPT ![Of(w).run][Of(w).region] = {read}]
               \/ rows' = [rows EXCEPT ![Of(w).run][Of(w).region] = @ \cup {read}]
            /\ whole' = [whole EXCEPT ![Of(w).run][Of(w).region] = @ \cup {read}]
            /\ UNCHANGED faults \/ Fails
    BY <1>4 DEF WriteRows
  <2>7. read \in Reading
    BY <2>1, <2>6 DEF From, Reading
  <2>2. rows' \in [Run -> [Region -> SUBSET Reading]]
    <3>1. rows \in [Run -> [Region -> SUBSET Reading]]
      BY <1>1 DEF TypeOK
    <3>2. CASE rows' = [rows EXCEPT ![Of(w).run][Of(w).region] = {read}]
      BY <2>1, <2>7, <3>1, <3>2
    <3>3. CASE rows' = [rows EXCEPT ![Of(w).run][Of(w).region] = @ \cup {read}]
      BY <2>1, <2>7, <3>1, <3>3
    <3> QED
      BY <2>6, <3>2, <3>3
  <2>8. faults' \in 0..MaxFaults
    BY <1>1, <2>6, FaultCounts DEF TypeOK
  <2>3. whole' \in [Run -> [Region -> SUBSET Reading]]
    BY <1>1, <2>1, <2>6, <2>7 DEF TypeOK
  <2>4. worker' \in [Worker -> Local] /\ \A v \in Worker : Placed(worker'[v])
    BY <1>4, <2>1, ToPlaced DEF WriteRows, Places, Spots
  <2> QED
    BY <1>1, <1>4, <2>2, <2>3, <2>4, <2>8 DEF Shape, TypeOK, WriteRows
<1>5. CASE Mark(w)
  <2>1. /\ ~At(w, "idle") /\ Of(w).job = "region" /\ Of(w).run \in Run
        /\ Of(w).region \in Region /\ Of(w).source \in Inventory
    BY <1>5, Standing DEF Mark, At
  <2>2. marker' \in [Run -> [Region -> Inventory \cup {None}]]
    BY <1>1, <1>5, <2>1 DEF Mark, TypeOK
  <2>3. worker' \in [Worker -> Local] /\ \A v \in Worker : Placed(worker'[v])
    BY <1>5, <2>1, ToPlaced DEF Mark, Places, Spots
  <2> QED
    BY <1>1, <1>5, <2>2, <2>3 DEF Shape, TypeOK, Mark
<1>6. CASE Notify(w)
  <2>1. Of(w).run \in Run
    BY <1>6, Standing DEF Notify, At
  <2>2. \A m \in queue' : Waiting(m)
    BY <1>1, <1>6, <2>1, Jobs DEF Notify
  <2>3. queue' \subseteq Message
    BY <2>2 DEF Waiting, Fit
  <2>4. worker' \in [Worker -> Local] /\ \A v \in Worker : Placed(worker'[v])
    BY <1>6, DonePlaced DEF Notify
  <2> QED
    BY <1>1, <1>6, <2>2, <2>3, <2>4 DEF Shape, TypeOK, Notify, runs
<1>7. CASE Gather(w)
  <2>1. Of(w).job = "finalize" /\ Fit(Of(w))
    BY <1>7, Standing DEF Gather, At
  <2>2. /\ worker' \in [Worker -> Local] /\ Others(w)
        /\ worker'[w].at = "publish" /\ worker'[w].job = worker[w].job
    BY <1>1, <1>7, GatherMoves DEF TypeOK
  <2>5. missed' \subseteq Run /\ faults' \in 0..MaxFaults
    <3>1. Of(w).run \in Run
      BY <2>1 DEF Fit, Message
    <3> QED
      BY <1>1, <1>7, <3>1, FaultCounts DEF Gather, TypeOK
  <2>3. Placed(worker'[w])
    BY <2>1, <2>2 DEF Placed, Places, Of
  <2>4. \A v \in Worker : Placed(worker'[v])
    BY <2>2, <2>3 DEF Others, Shape
  <2> QED
    BY <1>1, <1>7, <2>2, <2>4, <2>5 DEF Shape, TypeOK, Gather, runs
<1>8. CASE Publish(w)
  <2>1. Of(w).run \in Run
    BY <1>8, Standing DEF Publish, At
  <2>2. current' \in [run : 0..MaxRuns, complete : BOOLEAN]
    <3>1. Complete(Of(w).run) \in BOOLEAN
      BY DEF Complete
    <3>2. Of(w).run \in 0..MaxRuns
      BY <2>1, SMT DEF Run, CoverageConstants
    <3> QED
      BY <1>1, <1>8, <3>1, <3>2 DEF Publish, TypeOK
  <2>3. worker' \in [Worker -> Local] /\ \A v \in Worker : Placed(worker'[v])
    BY <1>8, DonePlaced DEF Publish
  <2> QED
    BY <1>1, <1>8, <2>2, <2>3 DEF Shape, TypeOK, Publish, runs
<1> QED
  BY <1>2, <1>3, <1>4, <1>5, <1>6, <1>7, <1>8 DEF Step

LEMMA ShapeNext == ASSUME CoverageConstants, Shape, [Next]_vars PROVE Shape'
<1>1. CASE UNCHANGED vars
  BY <1>1 DEF vars, runs, Shape, TypeOK
<1> QED
  BY <1>1, ShapeStart, ShapeReceive, ShapeStops, ShapeStep DEF Next

-----------------------------------------------------------------------------
(* What is published                                                       *)

\* A marker that is set stays, and so do complete rows.
Grows ==
    \A r \in Run, g \in Region :
        /\ marker[r][g] # None => marker'[r][g] = marker[r][g]
        /\ whole[r][g] \subseteq whole'[r][g]

LEMMA Growing == ASSUME Shape, [Next]_vars PROVE Grows
<1>1. TypeOK
  BY DEF Shape
<1>2. CASE UNCHANGED <<marker, whole>>
  BY <1>2 DEF Grows
<1>3. ASSUME NEW w \in Worker, WriteRows(w) PROVE Grows
  <2>1. Of(w).run \in Run /\ Of(w).region \in Region
    BY <1>3, Standing DEF WriteRows, At
  <2>2. \A r \in Run, g \in Region : whole[r][g] \subseteq whole'[r][g]
    <3>1. PICK read :
              whole' = [whole EXCEPT ![Of(w).run][Of(w).region] = @ \cup {read}]
      BY <1>3 DEF WriteRows
    <3> QED
      BY <1>1, <2>1, <3>1 DEF TypeOK
  <2> QED
    BY <1>3, <2>2 DEF WriteRows, Grows
<1>4. ASSUME NEW w \in Worker, Mark(w) PROVE Grows
  <2>1. Of(w).run \in Run /\ Of(w).region \in Region
    BY <1>4, Standing DEF Mark, At
  <2>2. \A r \in Run, g \in Region : marker[r][g] # None => marker'[r][g] = marker[r][g]
    BY <1>1, <1>4, <2>1 DEF Mark, TypeOK
  <2> QED
    BY <1>4, <2>2 DEF Mark, Grows
<1> QED
  BY <1>2, <1>3, <1>4 DEF Next, Step, vars, runs, StartRun, Receive, WorkerStops,
     SendRegions, CheckMarker, Notify, Gather, Publish

\* Nobody unlearns what is so.
LEMMA KnowsStays ==
    ASSUME Shape, Backed, Grows, NEW v \in Worker, worker'[v] = worker[v]
    PROVE  Knows(v)'
<1>1. Knows(v) /\ TypeOK
  BY DEF Backed, Shape
<1>2. /\ ~At(v, "idle") => Of(v).run \in Run
      /\ At(v, "mark") \/ At(v, "notify") => Of(v).region \in Region
  BY Standing DEF At
<1>3. worker[v].ready \subseteq Region
  BY <1>1 DEF TypeOK, Local
<1>4. At(v, "mark") => From(Of(v).source) \cap whole'[Of(v).run][Of(v).region] # {}
  BY <1>1, <1>2 DEF Knows, Grows, At, Held
<1>5. At(v, "notify") => marker'[Of(v).run][Of(v).region] # None
  BY <1>1, <1>2 DEF Knows, Grows, At
<1>6. At(v, "publish") => \A g \in worker[v].ready : marker'[Of(v).run][g] # None
  BY <1>1, <1>2, <1>3 DEF Knows, Grows, At
<1> QED
  BY <1>4, <1>5, <1>6 DEF Knows, At, Of, Held

\* So only the invocation that moves has to know where it goes.
LEMMA AllKnow ==
    ASSUME Shape, Backed, Grows, NEW w \in Worker, Others(w), Knows(w)'
    PROVE  \A v \in Worker : Knows(v)'
<1> SUFFICES ASSUME NEW v \in Worker PROVE Knows(v)'
  OBVIOUS
<1> QED
  BY KnowsStays DEF Others

\* What is current stays backed when neither it nor a table loses anything.
LEMMA CurrentStays ==
    ASSUME Shape, Backed, Grows, UNCHANGED current
    PROVE  CurrentBacked'
<1>1. TypeOK
  BY DEF Shape
<1>2. current.run # 0 => current.run \in Run
  BY <1>1, SMT DEF TypeOK, Run
<1>3. current.run # 0 => \A g \in Region : /\ marker[current.run][g] # None
                                           /\ marker'[current.run][g] = marker[current.run][g]
  BY <1>2 DEF Backed, CurrentBacked, Grows
<1> QED
  BY <1>3 DEF Backed, CurrentBacked

LEMMA MarkersStay ==
    ASSUME Backed, Grows, UNCHANGED marker
    PROVE  MarkersBacked'
BY DEF Backed, MarkersBacked, Grows, Held

LEMMA BackedStep ==
    ASSUME CoverageConstants, Shape, Backed, Grows, NEW w \in Worker, Step(w)
    PROVE  Backed'
<1>1. TypeOK
  BY DEF Shape
<1>2. worker \in [Worker -> Local]
  BY <1>1 DEF TypeOK
<1>3. ASSUME Done(w), UNCHANGED <<marker, current>> PROVE Backed'
  <2>1. Others(w) /\ worker'[w].at = "idle"
    BY <1>2, <1>3, DoneMoves
  <2>2. Knows(w)'
    BY <2>1 DEF Knows, At
  <2> QED
    BY <1>3, <2>1, <2>2, AllKnow, CurrentStays, MarkersStay DEF Backed
<1>4. CASE SendRegions(w)
  BY <1>3, <1>4 DEF SendRegions, runs
<1>5. CASE CheckMarker(w)
  <2>3. /\ Others(w) /\ worker'[w].job = worker[w].job
        /\ \/ worker'[w].at = "notify" /\ marker[Of(w).run][Of(w).region] # None
           \/ worker'[w].at = "write"
    BY <1>2, <1>5, CheckGoes, ToMoves DEF Spots
  <2>4. UNCHANGED <<marker, current>>
    BY <1>5 DEF CheckMarker, runs
  <2>5. Knows(w)'
    BY <2>3, <2>4 DEF Knows, At, Of
  <2> QED
    BY <2>3, <2>4, <2>5, AllKnow, CurrentStays, MarkersStay DEF Backed
<1>6. CASE WriteRows(w)
  <2>1. Of(w).run \in Run /\ Of(w).region \in Region
    BY <1>6, Standing DEF WriteRows, At
  <2>2. Others(w) /\ worker'[w].at = "mark" /\ worker'[w].job = worker[w].job
    BY <1>2, <1>6, ToMoves DEF WriteRows, Spots
  <2>3. From(Of(w).source) \cap whole'[Of(w).run][Of(w).region] # {}
    <3>1. PICK read \in From(Of(w).source) :
              whole' = [whole EXCEPT ![Of(w).run][Of(w).region] = @ \cup {read}]
      BY <1>6 DEF WriteRows
    <3>2. read \in whole'[Of(w).run][Of(w).region]
      BY <1>1, <2>1, <3>1 DEF TypeOK
    <3> QED
      BY <3>1, <3>2
  <2>4. Knows(w)'
    BY <2>2, <2>3 DEF Knows, At, Of, Held
  <2>5. UNCHANGED <<marker, current>>
    BY <1>6 DEF WriteRows
  <2> QED
    BY <2>2, <2>4, <2>5, AllKnow, CurrentStays, MarkersStay DEF Backed
<1>7. CASE Mark(w)
  <2> DEFINE r == Of(w).run  g == Of(w).region  s == Of(w).source
  <2>1. r \in Run /\ g \in Region /\ s \in Inventory
    BY <1>7, Standing DEF Mark, At
  <2>2. Others(w) /\ worker'[w].at = "notify" /\ worker'[w].job = worker[w].job
    BY <1>2, <1>7, ToMoves DEF Mark, Spots
  <2>3. Held(s, r, g) /\ s # None
    BY <1>7, <2>1 DEF Mark, Backed, Knows, CoverageConstants
  <2>4. /\ marker'[r][g] = IF marker[r][g] = None THEN s ELSE marker[r][g]
        /\ \A q \in Run, h \in Region : <<q, h>> # <<r, g>> => marker'[q][h] = marker[q][h]
    BY <1>1, <1>7, <2>1 DEF Mark, TypeOK
  <2>5. UNCHANGED <<whole, current>>
    BY <1>7 DEF Mark
  <2>6. Knows(w)'
    BY <2>2, <2>3, <2>4 DEF Knows, At, Of
  <2>7. MarkersBacked'
    BY <2>3, <2>4, <2>5 DEF Backed, MarkersBacked, Held
  <2> QED
    BY <2>2, <2>5, <2>6, <2>7, AllKnow, CurrentStays DEF Backed
<1>8. CASE Notify(w)
  BY <1>3, <1>8 DEF Notify, runs
<1>9. CASE Gather(w)
  <2>1. /\ Others(w) /\ worker'[w].at = "publish" /\ worker'[w].job = worker[w].job
        /\ worker'[w].ready \subseteq Marked(Of(w).run)
    BY <1>2, <1>9, GatherMoves
  <2>2. UNCHANGED <<marker, current>>
    BY <1>9 DEF Gather, runs
  <2>3. Knows(w)'
    BY <2>1, <2>2 DEF Knows, At, Of, Marked
  <2> QED
    BY <2>1, <2>2, <2>3, AllKnow, CurrentStays, MarkersStay DEF Backed
<1>10. CASE Publish(w)
  <2>1. CASE AllReady(worker[w].ready) /\ current.run < Of(w).run
    <3>1. Of(w).run \in Run /\ Of(w).run # 0
      BY <1>10, Standing, SMT DEF Publish, At, Run
    <3>2. current' = [run |-> Of(w).run, complete |-> Complete(Of(w).run)]
      BY <1>10, <2>1 DEF Publish
    <3>3. \A g \in Region : marker[Of(w).run][g] # None
      BY <1>10, <2>1 DEF Publish, Backed, Knows, AllReady
    <3>4. Done(w) /\ UNCHANGED <<marker, whole>>
      BY <1>10 DEF Publish, runs
    <3>5. Others(w) /\ worker'[w].at = "idle"
      BY <1>2, <3>4, DoneMoves
    <3>6. Knows(w)'
      BY <3>5 DEF Knows, At
    <3>7. current'.run = Of(w).run /\ (current'.complete => Complete(Of(w).run))
      BY <3>2
    <3>8. CurrentBacked'
      BY <3>1, <3>3, <3>4, <3>7 DEF CurrentBacked, Complete
    <3> QED
      BY <3>4, <3>5, <3>6, <3>8, AllKnow, MarkersStay DEF Backed
  <2>2. CASE ~(AllReady(worker[w].ready) /\ current.run < Of(w).run)
    BY <1>3, <1>10, <2>2 DEF Publish, runs
  <2> QED
    BY <2>1, <2>2
<1> QED
  BY <1>4, <1>5, <1>6, <1>7, <1>8, <1>9, <1>10 DEF Step

LEMMA BackedNext ==
    ASSUME CoverageConstants, Shape, Backed, [Next]_vars PROVE Backed'
<1>1. Grows /\ TypeOK
  BY Growing DEF Shape
<1>2. CASE UNCHANGED worker /\ UNCHANGED <<marker, current>>
  BY <1>1, <1>2, KnowsStays, CurrentStays, MarkersStay DEF Backed
<1>3. ASSUME NEW w \in Worker, NEW m \in queue, Receive(w, m) PROVE Backed'
  <2>1. UNCHANGED <<marker, current>>
    BY <1>3 DEF Receive, runs
  <2>2. Others(w)
    BY <1>1, <1>3 DEF Receive, Others, TypeOK
  <2>3. worker'[w].at = Start(m)
    BY <1>1, <1>3 DEF Receive, TypeOK, Idle
  <2>4. m.job \in {"inventory", "region", "finalize"}
    BY <1>1 DEF TypeOK, Message
  <2>5. Knows(w)'
    BY <2>3, <2>4 DEF Knows, At, Start
  <2> QED
    BY <1>1, <2>1, <2>2, <2>5, AllKnow, CurrentStays, MarkersStay DEF Backed
<1>4. ASSUME NEW w \in Worker, WorkerStops(w) PROVE Backed'
  <2>1. UNCHANGED <<marker, current>>
    BY <1>4 DEF WorkerStops
  <2>2. Others(w) /\ worker'[w].at = "idle"
    BY <1>1, <1>4, DoneMoves DEF WorkerStops, TypeOK
  <2>3. Knows(w)'
    BY <2>2 DEF Knows, At
  <2> QED
    BY <1>1, <2>1, <2>2, <2>3, AllKnow, CurrentStays, MarkersStay DEF Backed
<1> QED
  BY <1>1, <1>2, <1>3, <1>4, BackedStep DEF Next, StartRun, vars, runs

-----------------------------------------------------------------------------
(* No run is lost                                                          *)

\* What SQS has given up on, and what was missed, stays so.
Kept == dead \subseteq dead' /\ missed \subseteq missed'

LEMMA Keeping == ASSUME [Next]_vars PROVE Kept
BY DEF Kept, Next, Step, vars, runs, StartRun, Receive, WorkerStops, SendRegions,
   CheckMarker, WriteRows, Mark, Notify, Gather, Publish

\* What has to be shown of a step for a run to be pursued after it.
LEMMA PursuedStays ==
    ASSUME Grows, Kept, NEW r \in Run, Pursued(r),
           current.run >= r => current'.run >= r,
           Listing(r) => Listing(r)',
           \A g \in Region : Analysing(r, g) => marker'[r][g] # None \/ Analysing(r, g)',
           Covered(r) /\ Asked(r) => Asked(r)' \/ r \in missed'
    PROVE  Pursued(r)'
<1>1. Covered(r) => Covered(r)'
  BY DEF Covered, Grows
<1>2. (GivenUp(r) => GivenUp(r)') /\ (r \in missed => r \in missed')
  BY DEF GivenUp, Kept
<1> QED
  BY <1>1, <1>2 DEF Pursued

\* The messages of others remain; the invocation that moves has its own looked at.
LEMMA LiveStays ==
    ASSUME NEW w \in Worker, Others(w), queue \subseteq queue', NEW m \in Message, Live(m),
           ~At(w, "idle") /\ Of(w) = m => Live(m)'
    PROVE  Live(m)'
BY DEF Live, Others, At, Of

LEMMA AskedStays ==
    ASSUME NEW w \in Worker, Others(w), queue \subseteq queue', NEW r \in Run, Asked(r),
           /\ ~At(w, "idle") /\ Leads(Of(w), r)
           /\ At(w, "publish") => worker[w].ready = Region
           => Asked(r)'
    PROVE  Asked(r)'
BY DEF Asked, Others, At, Of

LEMMA AskedInQueue == ASSUME NEW r \in Run, NEW m \in queue', Leads(m, r) PROVE Asked(r)'
BY DEF Asked, Leads

\* An invocation that goes on with its message.
LEMMA OnwardPursues ==
    ASSUME Shape, Grows, Kept, NEW w \in Worker, ~At(w, "idle"), Others(w),
           worker'[w].at # "idle", worker'[w].job = worker[w].job,
           UNCHANGED <<queue, current>>,
           NEW r \in Run, Pursued(r),
           worker'[w].at = "publish" /\ Leads(Of(w), r) /\ Covered(r)
               => Asked(r)' \/ r \in missed'
    PROVE  Pursued(r)'
<1>1. \A m \in Message : Live(m) => Live(m)'
  BY DEF Live, Others, At, Of
<1>2. Covered(r) /\ Asked(r) => Asked(r)' \/ r \in missed'
  <2> SUFFICES ASSUME Covered(r), Asked(r) PROVE Asked(r)' \/ r \in missed'
    OBVIOUS
  <2>1. CASE Leads(Of(w), r) /\ worker'[w].at = "publish"
    BY <2>1
  <2>2. CASE Leads(Of(w), r) /\ worker'[w].at # "publish"
    BY <2>2 DEF Asked, Leads, At, Of
  <2>3. CASE ~Leads(Of(w), r)
    BY <2>3, AskedStays
  <2> QED
    BY <2>1, <2>2, <2>3
<1> QED
  BY <1>1, <1>2, PursuedStays DEF Listing, Analysing

LEMMA GatherPursues ==
    ASSUME Shape, Grows, Kept, NEW w \in Worker, Gather(w), NEW r \in Run, Pursued(r)
    PROVE  Pursued(r)'
<1>1. worker \in [Worker -> Local]
  BY DEF Shape, TypeOK
<1>2. /\ Others(w) /\ worker'[w].at = "publish" /\ worker'[w].job = worker[w].job
      /\ worker'[w].ready = Marked(Of(w).run) \/ missed' = missed \cup {Of(w).run}
  BY <1>1, GatherMoves
<1>3. ~At(w, "idle") /\ UNCHANGED <<queue, current>>
  BY DEF Gather, At
<1>4. ASSUME Leads(Of(w), r), Covered(r) PROVE Asked(r)' \/ r \in missed'
  <2>1. CASE \A g \in Region : marker[r][g] # None
    <3>1. worker'[w].ready = Region \/ r \in missed'
      BY <1>2, <1>4, <2>1 DEF Leads, Marked
    <3> QED
      BY <1>2, <1>4, <3>1 DEF Asked, Leads, At, Of
  <2>2. CASE \E g \in Region : marker[r][g] = None
    <3>1. PICK m \in Message : Live(m) /\ m.job = "region" /\ m.run = r
      BY <1>4, <2>2 DEF Covered, Analysing
    <3>2. Leads(m, r)
      BY <3>1 DEF Leads
    <3>3. CASE m \in queue
      BY <1>3, <3>2, <3>3, AskedInQueue
    <3>4. ASSUME NEW v \in Worker, ~At(v, "idle"), Of(v) = m PROVE Asked(r)'
      <4>1. ~At(v, "gather") /\ ~At(v, "publish")
        BY <3>1, <3>4, Standing
      <4>2. v # w
        BY <4>1 DEF Gather
      <4>3. worker'[v] = worker[v]
        BY <1>2, <4>2 DEF Others
      <4> QED
        BY <3>2, <3>4, <4>1, <4>3 DEF Asked, At, Of
    <3> QED
      BY <3>1, <3>3, <3>4 DEF Live
  <2> QED
    BY <2>1, <2>2
<1> QED
  BY <1>2, <1>3, <1>4, OnwardPursues

LEMMA SendPursues ==
    ASSUME CoverageConstants, Shape, Grows, Kept, NEW w \in Worker, SendRegions(w), NEW r \in Run, Pursued(r)
    PROVE  Pursued(r)'
<1>1. ~At(w, "idle") /\ Of(w) \in Message /\ Of(w).job = "inventory"
  BY Standing DEF SendRegions, At
<1>2. Others(w) /\ queue \subseteq queue' /\ UNCHANGED <<marker, current>>
  BY DoneMoves DEF SendRegions, Shape, TypeOK, runs
<1>3. CASE Of(w).run = r
  <2>1. PICK s \in Inventory : queue' = queue \cup {RegionJob(r, g, s) : g \in Region}
    BY <1>3 DEF SendRegions
  <2>2. \A g \in Region :
            /\ RegionJob(r, g, s) \in Message /\ RegionJob(r, g, s) \in queue'
            /\ RegionJob(r, g, s).job = "region" /\ RegionJob(r, g, s).run = r
            /\ RegionJob(r, g, s).region = g
    BY <2>1, Jobs DEF Waiting, Fit, RegionJob, Job
  <2>3. Covered(r)'
    BY <2>2 DEF Covered, Analysing, Live
  <2>4. PICK g \in Region : TRUE
    BY DEF CoverageConstants
  <2>5. Asked(r)'
    BY <2>2, <2>4, AskedInQueue DEF Leads
  <2> QED
    BY <2>3, <2>5 DEF Pursued
<1>4. CASE Of(w).run # r
  <2>1. \A m \in Message : Live(m) /\ m.run = r => Live(m)'
    BY <1>2, <1>4, LiveStays
  <2>2. Asked(r) => Asked(r)'
    BY <1>2, <1>4, AskedStays DEF Leads
  <2> QED
    BY <1>2, <2>1, <2>2, PursuedStays DEF Listing, Analysing
<1> QED
  BY <1>3, <1>4

LEMMA NotifyPursues ==
    ASSUME Shape, Backed, Grows, Kept, NEW w \in Worker, Notify(w), NEW r \in Run, Pursued(r)
    PROVE  Pursued(r)'
<1>1. ~At(w, "idle") /\ Of(w).job = "region" /\ Of(w).run \in Run
  BY Standing DEF Notify, At
<1>2. Others(w) /\ queue \subseteq queue' /\ UNCHANGED <<marker, current>>
  BY DoneMoves DEF Notify, Shape, TypeOK, runs
<1>3. marker[Of(w).run][Of(w).region] # None
  BY DEF Notify, Backed, Knows
<1>4. Listing(r) => Listing(r)'
  BY <1>1, <1>2, LiveStays DEF Listing
<1>5. \A g \in Region : Analysing(r, g) => marker'[r][g] # None \/ Analysing(r, g)'
  <2> SUFFICES ASSUME NEW g \in Region, Analysing(r, g), marker[r][g] = None
               PROVE  Analysing(r, g)'
    BY <1>2
  <2>1. PICK m \in Message : Live(m) /\ m.job = "region" /\ m.run = r /\ m.region = g
    BY DEF Analysing
  <2>2. Of(w) # m
    BY <1>3, <2>1
  <2> QED
    BY <1>2, <2>1, <2>2, LiveStays DEF Analysing
<1>6. Asked(r) => Asked(r)'
  <2>1. FinalizeJob(Of(w).run) \in queue'
    BY DEF Notify
  <2>2. Of(w).run = r => Asked(r)'
    BY <2>1, AskedInQueue DEF Leads, FinalizeJob, Job
  <2> QED
    BY <1>2, <2>2, AskedStays DEF Leads
<1> QED
  BY <1>2, <1>4, <1>5, <1>6, PursuedStays

LEMMA PublishPursues ==
    ASSUME CoverageConstants, Shape, Grows, Kept, NEW w \in Worker, Publish(w), NEW r \in Run, Pursued(r)
    PROVE  Pursued(r)'
<1>1. ~At(w, "idle") /\ Of(w).job = "finalize" /\ Of(w).run \in Run
  BY Standing DEF Publish, At
<1>2. Others(w) /\ queue' = queue
  BY DoneMoves DEF Publish, Shape, TypeOK, runs
<1>3. /\ AllReady(worker[w].ready) => current'.run >= Of(w).run
      /\ current'.run >= current.run
  <2>1. /\ current.run \in Nat /\ Of(w).run \in Nat
    BY <1>1, SMT DEF Shape, TypeOK, Run, CoverageConstants
  <2>2. CASE AllReady(worker[w].ready) /\ current.run < Of(w).run
    <3>1. current'.run = Of(w).run
      BY <2>2 DEF Publish
    <3> QED
      BY <2>1, <2>2, <3>1, SMT
  <2>3. CASE ~(AllReady(worker[w].ready) /\ current.run < Of(w).run)
    <3>1. current' = current
      BY <2>3 DEF Publish
    <3> QED
      BY <2>1, <2>3, <3>1, SMT
  <2> QED
    BY <2>2, <2>3
<1>4. current.run \in Nat /\ current'.run \in Nat /\ r \in Nat
  <2>1. current.run \in Nat /\ Of(w).run \in Nat /\ r \in Nat
    BY <1>1, SMT DEF Shape, TypeOK, Run, CoverageConstants
  <2>2. current'.run = Of(w).run \/ current' = current
    BY DEF Publish
  <2> QED
    BY <2>1, <2>2
<1>5. CASE AllReady(worker[w].ready) /\ Of(w).run = r
  BY <1>3, <1>5 DEF Pursued
<1>6. CASE ~(AllReady(worker[w].ready) /\ Of(w).run = r)
  <2>1. \A m \in Message : Live(m) /\ m.job # "finalize" => Live(m)'
    BY <1>1, <1>2, LiveStays
  <2>2. Asked(r) => Asked(r)'
    BY <1>2, <1>6, AskedStays DEF Leads, AllReady, Publish
  <2>3. current.run >= r => current'.run >= r
    BY <1>3, <1>4, SMT
  <2> QED
    BY <2>1, <2>2, <2>3, PursuedStays DEF Listing, Analysing
<1> QED
  BY <1>5, <1>6

LEMMA StepPursues ==
    ASSUME CoverageConstants, Shape, Backed, Grows, Kept, NEW w \in Worker, Step(w),
           NEW r \in Run, Pursued(r)
    PROVE  Pursued(r)'
<1>1. worker \in [Worker -> Local]
  BY DEF Shape, TypeOK
<1>2. ASSUME NEW at \in Spots \ {"idle", "publish"}, To(w, at), ~At(w, "idle"),
             UNCHANGED <<queue, current>>
      PROVE  Pursued(r)'
  BY <1>1, <1>2, ToMoves, OnwardPursues
<1>3. CASE CheckMarker(w)
  <2>1. To(w, "notify") \/ To(w, "write")
    BY <1>3, CheckGoes
  <2> QED
    BY <1>2, <1>3, <2>1 DEF CheckMarker, At, Spots
<1>4. CASE WriteRows(w)
  BY <1>2, <1>4 DEF WriteRows, At, Spots
<1>5. CASE Mark(w)
  BY <1>2, <1>5 DEF Mark, At, Spots
<1> QED
  BY <1>3, <1>4, <1>5, SendPursues, NotifyPursues, GatherPursues, PublishPursues DEF Step

LEMMA ReceivePursues ==
    ASSUME Shape, Grows, Kept, NEW w \in Worker, NEW m \in queue, Receive(w, m),
           NEW r \in Run, Pursued(r)
    PROVE  Pursued(r)'
<1>1. TypeOK /\ Waiting(m)
  BY DEF Shape
<1>2. At(w, "idle") /\ UNCHANGED <<marker, current>> /\ queue \ {m} \subseteq queue'
  BY DEF Receive, runs
<1>3. Others(w) /\ worker'[w].at = Start(m) /\ worker'[w].job = Got(m)
  BY <1>1 DEF Receive, Others, Idle, TypeOK
<1>4. Start(m) \in Spots \ {"idle", "publish"}
  BY <1>1 DEF Start, Spots, TypeOK, Message
<1>7. /\ Got(m) \in Message /\ Got(m).job = m.job /\ Got(m).run = m.run
      /\ Got(m).region = m.region /\ Live(Got(m))'
  BY <1>1, <1>3, <1>4, Receiving DEF Fit, Live, At, Of
<1>5. ASSUME NEW n \in Message, Live(n)
      PROVE  \E k \in Message : Live(k)' /\ k.job = n.job /\ k.run = n.run /\ k.region = n.region
  <2>1. CASE n = m
    BY <1>7, <2>1
  <2>2. CASE n # m
    BY <1>2, <1>3, <1>5, <2>2 DEF Live, Others, At, Of
  <2> QED
    BY <2>1, <2>2
<1>6. Asked(r) => Asked(r)'
  <2> SUFFICES ASSUME Asked(r) PROVE Asked(r)'
    OBVIOUS
  <2>1. CASE Leads(m, r)
    BY <1>3, <1>4, <1>7, <2>1 DEF Asked, At, Of, Leads
  <2>2. ASSUME NEW n \in queue, n # m, Leads(n, r) PROVE Asked(r)'
    BY <1>2, <2>2, AskedInQueue
  <2>3. ASSUME NEW v \in Worker, ~At(v, "idle"), Leads(Of(v), r),
               At(v, "publish") => worker[v].ready = Region
        PROVE  Asked(r)'
    <3>1. worker'[v] = worker[v]
      BY <1>2, <1>3, <2>3 DEF Others
    <3> QED
      BY <2>3, <3>1 DEF Asked, At, Of
  <2> QED
    BY <2>1, <2>2, <2>3 DEF Asked
<1> QED
  BY <1>2, <1>5, <1>6, PursuedStays DEF Listing, Analysing

LEMMA StopsPursues ==
    ASSUME Shape, Grows, Kept, NEW w \in Worker, WorkerStops(w), NEW r \in Run, Pursued(r)
    PROVE  Pursued(r)'
<1>1. Others(w) /\ UNCHANGED <<marker, current>>
  BY DoneMoves DEF WorkerStops, Shape, TypeOK
<1>2. CASE Of(w).received < MaxReceives
  <2>1. queue' = queue \cup {Of(w)}
    BY <1>2 DEF WorkerStops
  <2>2. \A m \in Message : Live(m) => Live(m)'
    <3>1. \A m \in Message : Of(w) = m => Live(m)'
      BY <2>1 DEF Live
    <3> QED
      BY <1>1, <2>1, <3>1, LiveStays
  <2>3. Asked(r) => Asked(r)'
    <3>1. Leads(Of(w), r) => Asked(r)'
      BY <2>1, AskedInQueue
    <3> QED
      BY <1>1, <2>1, <3>1, AskedStays
  <2> QED
    BY <1>1, <2>2, <2>3, PursuedStays DEF Listing, Analysing
<1>3. CASE ~(Of(w).received < MaxReceives)
  <2>1. dead' = dead \cup {Of(w)} /\ queue' = queue
    BY <1>3 DEF WorkerStops
  <2>2. CASE Of(w).run = r
    BY <2>1, <2>2 DEF Pursued, GivenUp
  <2>3. CASE Of(w).run # r
    <3>1. \A m \in Message : Live(m) /\ m.run = r => Live(m)'
      BY <1>1, <2>1, <2>3, LiveStays
    <3>2. Asked(r) => Asked(r)'
      BY <1>1, <2>1, <2>3, AskedStays DEF Leads
    <3> QED
      BY <1>1, <3>1, <3>2, PursuedStays DEF Listing, Analysing
  <2> QED
    BY <2>2, <2>3
<1> QED
  BY <1>2, <1>3

LEMMA StartPursues ==
    ASSUME Shape, Grows, Kept, NoRunLost, NEW q \in Run, StartRun(q)
    PROVE  NoRunLost'
<1>1. queue \subseteq queue' /\ UNCHANGED <<marker, current, worker>>
  BY DEF StartRun
<1>2. ASSUME NEW r \in Run, meta'[r] = "sent" PROVE Pursued(r)'
  <2>1. CASE meta[r] = "sent"
    <3>1. Pursued(r)
      BY <2>1 DEF NoRunLost
    <3>2. \A m \in Message : Live(m) => Live(m)'
      BY <1>1 DEF Live, At, Of
    <3>3. Asked(r) => Asked(r)'
      BY <1>1 DEF Asked, At, Of
    <3> QED
      BY <1>1, <3>1, <3>2, <3>3, PursuedStays DEF Listing, Analysing
  <2>2. CASE meta[r] # "sent"
    <3>1. r = q /\ queue' = queue \cup {InventoryJob(q)}
      BY <1>2, <2>2 DEF StartRun, Shape, TypeOK
    <3>2. /\ InventoryJob(q) \in Message /\ InventoryJob(q).job = "inventory"
          /\ InventoryJob(q).run = q
      BY Jobs DEF Waiting, Fit, InventoryJob, Job
    <3>3. Listing(r)'
      BY <3>1, <3>2 DEF Listing, Live
    <3> QED
      BY <3>3 DEF Pursued
  <2> QED
    BY <2>1, <2>2
<1> QED
  BY <1>2 DEF NoRunLost

LEMMA NoRunLostNext ==
    ASSUME CoverageConstants, Shape, Backed, NoRunLost, [Next]_vars PROVE NoRunLost'
<1>1. Grows /\ Kept
  BY Growing, Keeping
<1>2. ASSUME NEW w \in Worker, Step(w) \/ WorkerStops(w) \/ \E m \in queue : Receive(w, m)
      PROVE  NoRunLost'
  <2>1. meta' = meta
    BY <1>2 DEF Step, WorkerStops, Receive, SendRegions, CheckMarker, WriteRows, Mark,
       Notify, Gather, Publish, runs
  <2>2. ASSUME NEW r \in Run, Pursued(r) PROVE Pursued(r)'
    BY <1>1, <1>2, <2>2, StepPursues, StopsPursues, ReceivePursues
  <2> QED
    BY <2>1, <2>2 DEF NoRunLost
<1>3. CASE UNCHANGED vars
  BY <1>3 DEF vars, runs, NoRunLost, Pursued, GivenUp, Listing, Covered, Analysing, Asked, Live, At, Of
<1> QED
  BY <1>1, <1>2, <1>3, StartPursues DEF Next

-----------------------------------------------------------------------------
(* Theorems                                                                *)

\* The invariant holds initially and after every step.
LEMMA Inductive == Spec => []IInv
<1>1. Init => IInv
  <2> SUFFICES ASSUME Init PROVE IInv
    OBVIOUS
  <2>1. Shape
    BY CoverageConstants, ShapeInit
  <2>2. Backed
    <3>1. \A w \in Worker : worker[w].at = "idle"
      BY DEF Init, Idle
    <3> QED
      BY <3>1 DEF Init, Backed, MarkersBacked, CurrentBacked, Knows, At
  <2>3. NoRunLost
    BY DEF Init, NoRunLost
  <2> QED
    BY <2>1, <2>2, <2>3 DEF IInv
<1>2. IInv /\ [Next]_vars => IInv'
  BY CoverageConstants, ShapeNext, BackedNext, NoRunLostNext DEF IInv
<1> QED
  BY <1>1, <1>2, PTL DEF Spec

\* The current snapshot has all rows of every region, however many invocations
\* overlap, stop or get a message again: Publish read that every region has a
\* marker, a marker is only set over whole rows, and neither is ever taken back.
THEOREM SnapshotsAreWhole == Spec => []PublishedIsWhole
<1>1. IInv => PublishedIsWhole
  <2> SUFFICES ASSUME IInv, current.run # 0, NEW g \in Region
               PROVE  whole[current.run][g] # {}
    BY DEF PublishedIsWhole
  <2>1. current.run \in Run
    BY SMT DEF IInv, Shape, TypeOK, Run
  <2>2. Held(marker[current.run][g], current.run, g)
    BY <2>1 DEF IInv, Backed, MarkersBacked, CurrentBacked
  <2> QED
    BY <2>2 DEF Held
<1> QED
  BY <1>1, Inductive, PTL

\* A snapshot that is served as complete was taken with the complete inventory
\* of every region, whatever a later attempt at a region fell back to.
THEOREM CompletenessIsTrue == Spec => []CompleteIsTrue
<1>1. IInv => CompleteIsTrue
  <2> SUFFICES ASSUME IInv, current.complete, NEW g \in Region
               PROVE  whole[current.run][g] \cap From("resource_explorer") # {}
    BY DEF CompleteIsTrue
  <2>1. current.run # 0 /\ marker[current.run][g] = "resource_explorer"
    BY DEF IInv, Backed, CurrentBacked
  <2>2. current.run \in Run
    BY <2>1, SMT DEF IInv, Shape, TypeOK, Run
  <2>3. marker[current.run][g] # None
    BY <2>1 DEF IInv, Backed, CurrentBacked
  <2> QED
    BY <2>1, <2>2, <2>3 DEF IInv, Backed, MarkersBacked, Held
<1> QED
  BY <1>1, Inductive, PTL

\* When nothing is left to do, every run whose inventory job was sent has been
\* published or overtaken, or SQS has given up on a message of it, or a finalize
\* job missed a marker of a run that has them all: until then it is being listed,
\* or each of its regions is marked or still has a job and, unless a marker was
\* missed, a message leads to its publication.
THEOREM NoRunIsLost == Spec => []RunIsPublished
<1>1. IInv => RunIsPublished
  <2> SUFFICES ASSUME IInv, Quiet, NEW r \in Run, meta[r] = "sent"
               PROVE  \/ current.run >= r
                      \/ GivenUp(r)
                      \/ r \in missed /\ Marked(r) = Region
    BY DEF RunIsPublished, GivenUp
  <2>1. Pursued(r)
    BY DEF IInv, NoRunLost
  <2>2. ~Listing(r) /\ ~Asked(r) /\ \A g \in Region : ~Analysing(r, g)
    BY DEF Quiet, Listing, Analysing, Live, Asked
  <2>3. Covered(r) => Marked(r) = Region
    BY <2>2 DEF Covered, Marked
  <2> QED
    BY <2>1, <2>2, <2>3 DEF Pursued
<1> QED
  BY <1>1, Inductive, PTL
=============================================================================
