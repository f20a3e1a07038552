--------------------------- MODULE ChatTurnProofs ---------------------------
(***************************************************************************)
(* What the turns of a chat keep to, for any number of turns, titles,      *)
(* events and faults.                                                      *)
(***************************************************************************)
EXTENDS ChatTurn, TLAPS

-----------------------------------------------------------------------------
(* The invariant                                                           *)

\* Between two awaits: the turn holds the event loop.
Holding == Working \ {"run", "finished"}
Early == {"new", "check", "question", "mark", "blocked", "failed"}
After == {"title", "last", "idle", "ended"}
Unsettled == {"run", "drop", "persist", "finished", "error", "answer"}

\* A turn that holds the loop is the one whose code runs.
HoldsLoop(t) == turn[t].at \in Holding => loop = t

\* The answer is in Memory, or there is none to be found there.
Settled(t) == Remembered(t, "assistant") \/ turn[t].unsaved \/ ~turn[t].traced

\* Nothing to save before the stream; everything saved after it.
SaveFits(t) ==
    /\ turn[t].at \in Early => ~turn[t].traced
    /\ turn[t].at \in After => Settled(t)

\* A turn that counts as alone is.
AloneFits(t) ==
    Busy(t) /\ turn[t].alone => \A u \in Turn \ {t} : ~Busy(u)

\* The activity row of a turn: written at its start, idle at its end.
RowFits(t) ==
    activity.run = t =>
        /\ turn[t].at \notin {"new", "check", "question", "mark"}
        /\ activity.status = "idle" /\ turn[t].alone => turn[t].at \notin Unsettled

Titles(s) == {s[i].title : i \in DOMAIN s}

\* What the tools of a turn made is in the list, then with the turn.
OwedFits(t) ==
    /\ turn[t].owed \cap turn[t].announced = {}
    /\ turn[t].at = "new" => turn[t].owed = {}
    /\ turn[t].alone =>
        /\ turn[t].at = "run" /\ turn[t].tool = "returned"
               => turn[t].owed \subseteq Titles(pending)
        /\ turn[t].at \in {"drop", "persist"} => turn[t].owed \subseteq Titles(turn[t].todo)
        /\ turn[t].at \in Working \ {"drop", "persist"}
           /\ ~(turn[t].at = "run" /\ turn[t].tool = "returned") => turn[t].owed = {}

\* The user has been told that a turn is over only when it is settled.
Finished == {"idle", "ended", "blocked", "lost"}
Told(t) == turn[t].at \in Finished /\ Settled(t)
Finishes(t) == \E i \in DOMAIN queue[t] : queue[t][i][1] = "finished"
ToldFits(t) == client[t].saw \/ Finishes(t) => Told(t)

\* What the user knew when asking, and what the agent knows.
KnewFits(t) ==
    turn[t].at \in Working => \A u \in turn[t].knew :
        /\ Told(u)
        /\ \/ turn[t].at = "check" \/ u \in turn[t].history \/ turn[t].blind
           \/ ~turn[t].named \/ turn[u].unsaved \/ ~turn[u].traced

\* A marker is not sent or kept before its report is written.
Ids == {r.id : r \in reports}
MarkersFit(t) ==
    /\ \A title \in turn[t].announced : <<t, title>> \in Ids
    /\ \A i \in DOMAIN queue[t] : queue[t][i][2] \subseteq Ids
    /\ client[t].markers \subseteq Ids

Good(t) ==
    /\ HoldsLoop(t) /\ SaveFits(t) /\ AloneFits(t) /\ RowFits(t)
    /\ OwedFits(t) /\ ToldFits(t) /\ KnewFits(t) /\ MarkersFit(t)

MemoryFits == \A i \in DOMAIN memory : memory[i].markers \subseteq Ids

IInv == TypeOK /\ (\A t \in Turn : Good(t)) /\ MemoryFits

-----------------------------------------------------------------------------
(* Sequences                                                               *)

LEMMA Appended ==
    ASSUME NEW S, NEW s \in Seq(S), NEW e \in S
    PROVE  /\ Append(s, e) \in Seq(S)
           /\ \A i \in DOMAIN Append(s, e) :
                  Append(s, e)[i] = e \/ (i \in DOMAIN s /\ Append(s, e)[i] = s[i])
           /\ \A i \in DOMAIN s : i \in DOMAIN Append(s, e) /\ Append(s, e)[i] = s[i]
           /\ \E i \in DOMAIN Append(s, e) : Append(s, e)[i] = e
<1>1. Append(s, e) \in Seq(S) /\ Len(s) \in Nat /\ Len(Append(s, e)) = Len(s) + 1
  OBVIOUS
<1>2. DOMAIN s = 1..Len(s) /\ DOMAIN Append(s, e) = 1..(Len(s) + 1)
  BY <1>1
<1>3. \A i \in 1..Len(s) : Append(s, e)[i] = s[i]
  OBVIOUS
<1>4. Append(s, e)[Len(s) + 1] = e
  OBVIOUS
<1>5. \A i \in 1..(Len(s) + 1) : i \in 1..Len(s) \/ i = Len(s) + 1
  BY <1>1, SMT
<1>6. Len(s) + 1 \in 1..(Len(s) + 1) /\ \A i \in 1..Len(s) : i \in 1..(Len(s) + 1)
  BY <1>1, SMT
<1> QED
  BY <1>1, <1>2, <1>3, <1>4, <1>5, <1>6

LEMMA Tailed ==
    ASSUME NEW S, NEW s \in Seq(S), s # <<>>
    PROVE  /\ Tail(s) \in Seq(S) /\ Head(s) \in S
           /\ \E j \in DOMAIN s : s[j] = Head(s)
           /\ \A i \in DOMAIN Tail(s) : \E j \in DOMAIN s : s[j] = Tail(s)[i]
           /\ \A j \in DOMAIN s :
                  s[j] = Head(s) \/ \E i \in DOMAIN Tail(s) : s[j] = Tail(s)[i]
<1>1. /\ Len(s) \in Nat \ {0} /\ DOMAIN s = 1..Len(s)
      /\ Tail(s) \in Seq(S) /\ Head(s) \in S /\ Head(s) = s[1] /\ Len(Tail(s)) = Len(s) - 1
  OBVIOUS
<1>2. DOMAIN Tail(s) = 1..(Len(s) - 1)
  BY <1>1
<1>3. \A i \in 1..(Len(s) - 1) : Tail(s)[i] = s[i + 1]
  BY <1>1
<1>4. \A i \in 1..(Len(s) - 1) : i + 1 \in 1..Len(s)
  BY <1>1, SMT
<1>5. \A j \in 1..Len(s) : j = 1 \/ (j - 1 \in 1..(Len(s) - 1) /\ (j - 1) + 1 = j)
  BY <1>1, SMT
<1>6. 1 \in 1..Len(s)
  BY <1>1, SMT
<1> QED
  BY <1>1, <1>2, <1>3, <1>4, <1>5, <1>6

-----------------------------------------------------------------------------
(* How a turn moves                                                        *)

Stay(t) == \A u \in Turn \ {t} : turn'[u] = turn[u]
Spots == {"new"} \cup Working \cup Over

\* What the actions of the stream may change, and what only ends.
SameWork(t) ==
    /\ turn'[t].tool = turn[t].tool /\ turn'[t].todo = turn[t].todo
    /\ turn'[t].owed = turn[t].owed /\ turn'[t].announced = turn[t].announced
SameKnown(t) ==
    /\ turn'[t].alone = turn[t].alone /\ turn'[t].unsaved = turn[t].unsaved
    /\ turn'[t].knew = turn[t].knew
    /\ turn'[t].history = turn[t].history /\ turn'[t].blind = turn[t].blind /\ turn'[t].named = turn[t].named

Lands(t, at) == turn' \in [Turn -> Local] /\ Stay(t) /\ turn'[t].at = at

\* Nothing but the place changes.
Goes(t, at) ==
    Lands(t, at) /\ SameWork(t) /\ SameKnown(t) /\ turn'[t].traced = turn[t].traced

LEMMA Land ==
    ASSUME turn \in [Turn -> Local], NEW t \in Turn, NEW l \in Local,
           turn' = [turn EXCEPT ![t] = l]
    PROVE  Lands(t, l.at) /\ turn'[t] = l
BY DEF Lands, Stay

LEMMA Fields ==
    ASSUME turn \in [Turn -> Local], NEW t \in Turn
    PROVE  /\ turn[t] \in Local /\ turn[t].at \in Spots
           /\ turn[t].events \in 0..MaxEvents
           /\ turn[t].tool \in {"none", "called", "returned"}
           /\ turn[t].todo \in Seq(Artifact) /\ turn[t].owed \in SUBSET Title
           /\ turn[t].announced \in SUBSET Title
           /\ turn[t].traced \in BOOLEAN /\ turn[t].unsaved \in BOOLEAN
           /\ turn[t].alone \in BOOLEAN /\ turn[t].blind \in BOOLEAN
           /\ turn[t].named \in BOOLEAN
           /\ turn[t].knew \in SUBSET Turn /\ turn[t].history \in SUBSET Turn
<1>1. turn[t] \in Local
  OBVIOUS
<1> QED
  BY <1>1 DEF Local, Spots

LEMMA AtGoes ==
    ASSUME turn \in [Turn -> Local], NEW t \in Turn, NEW at \in Spots, At(t, at)
    PROVE  Goes(t, at)
<1> DEFINE l == [turn[t] EXCEPT !.at = at]
<1>1. turn[t] \in Local /\ turn' = [turn EXCEPT ![t] = l]
  BY DEF At
<1>2. l \in Local /\ l.at = at
  BY <1>1 DEF Local, Spots
<1>3. /\ l.tool = turn[t].tool /\ l.todo = turn[t].todo /\ l.owed = turn[t].owed
      /\ l.announced = turn[t].announced /\ l.alone = turn[t].alone
      /\ l.unsaved = turn[t].unsaved /\ l.knew = turn[t].knew /\ l.history = turn[t].history
      /\ l.blind = turn[t].blind /\ l.named = turn[t].named /\ l.traced = turn[t].traced
  BY <1>1 DEF Local
<1> HIDE DEF l
<1>4. Lands(t, l.at) /\ turn'[t] = l
  BY <1>1, <1>2, Land
<1> QED
  BY <1>2, <1>3, <1>4 DEF Goes, SameWork, SameKnown

LEMMA BuildLands ==
    ASSUME turn \in [Turn -> Local], NEW t \in Turn, Build(t)
    PROVE  /\ Lands(t, "question") /\ SameWork(t) /\ turn'[t].traced = turn[t].traced
           /\ turn'[t].alone = turn[t].alone /\ turn'[t].unsaved = turn[t].unsaved
           /\ turn'[t].knew = turn[t].knew /\ turn'[t].named = turn[t].named
           /\ turn'[t].history = Past(t) \/ turn'[t].blind
<1> DEFINE past == Past(t)
           l == [turn[t] EXCEPT !.at = "question", !.history = past]
           m == [turn[t] EXCEPT !.at = "question", !.blind = TRUE]
<1>1. turn[t] \in Local /\ past \in SUBSET Turn
  BY DEF Past
<1>2. turn' = [turn EXCEPT ![t] = l] \/ turn' = [turn EXCEPT ![t] = m]
  BY DEF Build
<1> HIDE DEF past
<1>3. /\ l \in Local /\ l.at = "question" /\ l.history = past
      /\ l.tool = turn[t].tool /\ l.todo = turn[t].todo /\ l.owed = turn[t].owed
      /\ l.announced = turn[t].announced /\ l.alone = turn[t].alone
      /\ l.unsaved = turn[t].unsaved /\ l.knew = turn[t].knew /\ l.traced = turn[t].traced
      /\ l.named = turn[t].named
  BY <1>1 DEF Local, Working
<1>4. /\ m \in Local /\ m.at = "question" /\ m.blind
      /\ m.tool = turn[t].tool /\ m.todo = turn[t].todo /\ m.owed = turn[t].owed
      /\ m.announced = turn[t].announced /\ m.alone = turn[t].alone
      /\ m.unsaved = turn[t].unsaved /\ m.knew = turn[t].knew /\ m.traced = turn[t].traced
      /\ m.named = turn[t].named
  BY <1>1 DEF Local, Working
<1> HIDE DEF l, m
<1>5. CASE turn' = [turn EXCEPT ![t] = l]
  BY <1>1, <1>3, <1>5, Land DEF SameWork, past
<1>6. CASE turn' = [turn EXCEPT ![t] = m]
  BY <1>1, <1>4, <1>6, Land DEF SameWork
<1> QED
  BY <1>2, <1>5, <1>6

LEMMA TextLands ==
    ASSUME turn \in [Turn -> Local], NEW t \in Turn, Text(t)
    PROVE  /\ Lands(t, turn[t].at) /\ SameWork(t) /\ SameKnown(t)
           /\ turn'[t].traced = TRUE
<1> DEFINE events == turn[t].events + 1
           l == [turn[t] EXCEPT !.events = events, !.text = TRUE, !.traced = TRUE]
<1>1. turn[t] \in Local /\ turn' = [turn EXCEPT ![t] = l]
  BY DEF Text
<1>2. events \in 0..MaxEvents
  BY <1>1, ChatAssumption, SMT DEF ChatAssumption, Local, Streaming, Text
<1> HIDE DEF events
<1>3. l \in Local /\ l.at = turn[t].at
  BY <1>1, <1>2 DEF Local, Working
<1>4. /\ l.tool = turn[t].tool /\ l.todo = turn[t].todo /\ l.owed = turn[t].owed
      /\ l.announced = turn[t].announced /\ l.alone = turn[t].alone
      /\ l.unsaved = turn[t].unsaved /\ l.knew = turn[t].knew
      /\ l.history = turn[t].history /\ l.blind = turn[t].blind /\ l.named = turn[t].named /\ l.traced = TRUE
  BY <1>1, <1>2 DEF Local
<1> HIDE DEF l
<1>5. Lands(t, l.at) /\ turn'[t] = l
  BY <1>1, <1>3, Land
<1> QED
  BY <1>3, <1>4, <1>5 DEF SameWork, SameKnown, events

LEMMA CallLands ==
    ASSUME turn \in [Turn -> Local], NEW t \in Turn, CallTool(t)
    PROVE  /\ Lands(t, turn[t].at) /\ SameKnown(t) /\ turn'[t].todo = turn[t].todo
           /\ turn'[t].owed = turn[t].owed /\ turn'[t].announced = turn[t].announced
           /\ turn'[t].traced = turn[t].traced /\ turn'[t].tool = "called"
<1> DEFINE events == turn[t].events + 1
           l == [turn[t] EXCEPT !.events = events, !.tool = "called"]
<1>1. turn[t] \in Local /\ turn' = [turn EXCEPT ![t] = l]
  BY DEF CallTool
<1>2. events \in 0..MaxEvents
  BY <1>1, ChatAssumption, SMT DEF ChatAssumption, Local, Streaming, CallTool
<1> HIDE DEF events
<1>3. l \in Local /\ l.at = turn[t].at
  BY <1>1, <1>2 DEF Local, Working
<1>4. /\ l.todo = turn[t].todo /\ l.owed = turn[t].owed
      /\ l.announced = turn[t].announced /\ l.traced = turn[t].traced
      /\ l.alone = turn[t].alone /\ l.unsaved = turn[t].unsaved
      /\ l.knew = turn[t].knew /\ l.history = turn[t].history
      /\ l.blind = turn[t].blind /\ l.named = turn[t].named /\ l.tool = "called"
  BY <1>1, <1>2 DEF Local
<1> HIDE DEF l
<1>5. Lands(t, l.at) /\ turn'[t] = l
  BY <1>1, <1>3, Land
<1> QED
  BY <1>3, <1>4, <1>5 DEF SameKnown, events

LEMMA LegacyLands ==
    ASSUME turn \in [Turn -> Local], NEW t \in Turn, NEW title \in Title,
           Streaming(t),
           turn' = [turn EXCEPT ![t].events = @ + 1, ![t].at = "persist",
                     ![t].todo = <<[owner |-> t, title |-> title]>>,
                     ![t].owed = @ \cup ({title} \ turn[t].announced)]
    PROVE  /\ Lands(t, "persist") /\ SameKnown(t) /\ turn'[t].tool = turn[t].tool
           /\ turn'[t].announced = turn[t].announced
           /\ turn'[t].traced = turn[t].traced
           /\ turn'[t].todo = <<[owner |-> t, title |-> title]>>
           /\ turn'[t].owed = turn[t].owed \cup ({title} \ turn[t].announced)
<1> DEFINE events == turn[t].events + 1
           todo == <<[owner |-> t, title |-> title]>>
           owed == turn[t].owed \cup ({title} \ turn[t].announced)
           l == [turn[t] EXCEPT !.events = events, !.at = "persist", !.todo = todo,
                              !.owed = owed]
<1>1. turn[t] \in Local /\ turn' = [turn EXCEPT ![t] = l]
  OBVIOUS
<1>2. events \in 0..MaxEvents
  BY <1>1, ChatAssumption, SMT DEF ChatAssumption, Local, Streaming
<1>3. todo \in Seq(Artifact)
  BY DEF Artifact
<1>4. owed \in SUBSET Title
  BY <1>1 DEF Local
<1> HIDE DEF events, todo, owed
<1>5. l \in Local /\ l.at = "persist"
  BY <1>1, <1>2, <1>3, <1>4 DEF Local, Working
<1>6. /\ l.tool = turn[t].tool /\ l.announced = turn[t].announced
      /\ l.traced = turn[t].traced /\ l.alone = turn[t].alone
      /\ l.unsaved = turn[t].unsaved /\ l.knew = turn[t].knew
      /\ l.history = turn[t].history /\ l.blind = turn[t].blind /\ l.named = turn[t].named /\ l.todo = todo
      /\ l.owed = owed
  BY <1>1, <1>2, <1>3, <1>4 DEF Local
<1> HIDE DEF l
<1>7. Lands(t, l.at) /\ turn'[t] = l
  BY <1>1, <1>5, Land
<1> QED
  BY <1>5, <1>6, <1>7 DEF SameKnown, events, todo, owed

LEMMA ReturnLands ==
    ASSUME turn \in [Turn -> Local], NEW t \in Turn, NEW title \in Title,
           turn' = [turn EXCEPT ![t].tool = "returned",
                                ![t].owed = @ \cup ({title} \ turn[t].announced)]
    PROVE  /\ Lands(t, turn[t].at) /\ SameKnown(t) /\ turn'[t].todo = turn[t].todo
           /\ turn'[t].announced = turn[t].announced
           /\ turn'[t].traced = turn[t].traced /\ turn'[t].tool = "returned"
           /\ turn'[t].owed = turn[t].owed \cup ({title} \ turn[t].announced)
<1> DEFINE owed == turn[t].owed \cup ({title} \ turn[t].announced)
           l == [turn[t] EXCEPT !.tool = "returned", !.owed = owed]
<1>1. turn[t] \in Local /\ turn' = [turn EXCEPT ![t] = l]
  OBVIOUS
<1>2. owed \in SUBSET Title
  BY <1>1 DEF Local
<1> HIDE DEF owed
<1>3. l \in Local /\ l.at = turn[t].at
  BY <1>1, <1>2 DEF Local, Working
<1>4. /\ l.todo = turn[t].todo /\ l.announced = turn[t].announced
      /\ l.traced = turn[t].traced /\ l.alone = turn[t].alone
      /\ l.unsaved = turn[t].unsaved /\ l.knew = turn[t].knew
      /\ l.history = turn[t].history /\ l.blind = turn[t].blind /\ l.named = turn[t].named
      /\ l.tool = "returned" /\ l.owed = owed
  BY <1>1, <1>2 DEF Local
<1> HIDE DEF l
<1>5. Lands(t, l.at) /\ turn'[t] = l
  BY <1>1, <1>3, Land
<1> QED
  BY <1>3, <1>4, <1>5 DEF SameKnown, owed

LEMMA ReturnBareLands ==
    ASSUME turn \in [Turn -> Local], NEW t \in Turn, turn' = [turn EXCEPT ![t].tool = "returned"]
    PROVE  /\ Lands(t, turn[t].at) /\ SameKnown(t) /\ turn'[t].todo = turn[t].todo
           /\ turn'[t].owed = turn[t].owed /\ turn'[t].announced = turn[t].announced
           /\ turn'[t].traced = turn[t].traced /\ turn'[t].tool = "returned"
<1> DEFINE l == [turn[t] EXCEPT !.tool = "returned"]
<1>1. turn[t] \in Local /\ turn' = [turn EXCEPT ![t] = l]
  OBVIOUS
<1>2. l \in Local /\ l.at = turn[t].at
  BY <1>1 DEF Local, Working
<1>3. /\ l.todo = turn[t].todo /\ l.owed = turn[t].owed
      /\ l.announced = turn[t].announced /\ l.traced = turn[t].traced
      /\ l.alone = turn[t].alone /\ l.unsaved = turn[t].unsaved
      /\ l.knew = turn[t].knew /\ l.history = turn[t].history
      /\ l.blind = turn[t].blind /\ l.named = turn[t].named /\ l.tool = "returned"
  BY <1>1 DEF Local
<1> HIDE DEF l
<1>4. Lands(t, l.at) /\ turn'[t] = l
  BY <1>1, <1>2, Land
<1> QED
  BY <1>2, <1>3, <1>4 DEF SameKnown

LEMMA DrainLands ==
    ASSUME turn \in [Turn -> Local], NEW t \in Turn, pending \in Seq(Artifact), Drain(t)
    PROVE  /\ Lands(t, "drop") /\ SameKnown(t) /\ turn'[t].tool = turn[t].tool
           /\ turn'[t].owed = turn[t].owed /\ turn'[t].announced = turn[t].announced
           /\ turn'[t].todo = pending /\ turn'[t].traced = TRUE
<1> DEFINE l == [turn[t] EXCEPT !.at = "drop", !.todo = pending, !.traced = TRUE]
<1>1. turn[t] \in Local /\ turn' = [turn EXCEPT ![t] = l]
  BY DEF Drain
<1>2. l \in Local /\ l.at = "drop"
  BY <1>1 DEF Local, Working
<1>3. /\ l.tool = turn[t].tool /\ l.owed = turn[t].owed
      /\ l.announced = turn[t].announced /\ l.alone = turn[t].alone
      /\ l.unsaved = turn[t].unsaved /\ l.knew = turn[t].knew
      /\ l.history = turn[t].history /\ l.blind = turn[t].blind /\ l.named = turn[t].named /\ l.todo = pending
      /\ l.traced = TRUE
  BY <1>1 DEF Local
<1> HIDE DEF l
<1>4. Lands(t, l.at) /\ turn'[t] = l
  BY <1>1, <1>2, Land
<1> QED
  BY <1>2, <1>3, <1>4 DEF SameKnown

LEMMA PersistedLands ==
    ASSUME turn \in [Turn -> Local], NEW t \in Turn, Persisted(t)
    PROVE  /\ Lands(t, "run") /\ SameKnown(t) /\ turn'[t].todo = turn[t].todo
           /\ turn'[t].owed = turn[t].owed /\ turn'[t].announced = turn[t].announced
           /\ turn'[t].traced = turn[t].traced /\ turn'[t].tool = "none"
<1> DEFINE l == [turn[t] EXCEPT !.at = "run", !.tool = "none"]
<1>1. turn[t] \in Local /\ turn' = [turn EXCEPT ![t] = l]
  BY DEF Persisted
<1>2. l \in Local /\ l.at = "run"
  BY <1>1 DEF Local, Working
<1>3. /\ l.todo = turn[t].todo /\ l.owed = turn[t].owed
      /\ l.announced = turn[t].announced /\ l.traced = turn[t].traced
      /\ l.alone = turn[t].alone /\ l.unsaved = turn[t].unsaved
      /\ l.knew = turn[t].knew /\ l.history = turn[t].history
      /\ l.blind = turn[t].blind /\ l.named = turn[t].named /\ l.tool = "none"
  BY <1>1 DEF Local
<1> HIDE DEF l
<1>4. Lands(t, l.at) /\ turn'[t] = l
  BY <1>1, <1>2, Land
<1> QED
  BY <1>2, <1>3, <1>4 DEF SameKnown

LEMMA FinishLands ==
    ASSUME turn \in [Turn -> Local], NEW t \in Turn, Finish(t)
    PROVE  Goes(t, "finished")
<1> DEFINE l == [turn[t] EXCEPT !.at = "finished", !.finish = TRUE]
<1>1. turn[t] \in Local /\ turn' = [turn EXCEPT ![t] = l]
  BY DEF Finish
<1>2. l \in Local /\ l.at = "finished"
  BY <1>1 DEF Local, Working
<1>3. /\ l.tool = turn[t].tool /\ l.todo = turn[t].todo /\ l.owed = turn[t].owed
      /\ l.announced = turn[t].announced /\ l.traced = turn[t].traced
      /\ l.alone = turn[t].alone /\ l.unsaved = turn[t].unsaved
      /\ l.knew = turn[t].knew /\ l.history = turn[t].history
      /\ l.blind = turn[t].blind /\ l.named = turn[t].named
  BY <1>1 DEF Local
<1> HIDE DEF l
<1>4. Lands(t, l.at) /\ turn'[t] = l
  BY <1>1, <1>2, Land
<1> QED
  BY <1>2, <1>3, <1>4 DEF Goes, SameWork, SameKnown

LEMMA StreamEndLands ==
    ASSUME turn \in [Turn -> Local], NEW t \in Turn, End(t)
    PROVE  Goes(t, "answer")
<1> DEFINE l == [turn[t] EXCEPT !.at = "answer", !.events = 0]
<1>1. turn[t] \in Local /\ turn' = [turn EXCEPT ![t] = l]
  BY DEF End
<1>2. 0 \in 0..MaxEvents
  BY ChatAssumption, SMT DEF ChatAssumption
<1>3. l \in Local /\ l.at = "answer"
  BY <1>1, <1>2 DEF Local, Working
<1>4. /\ l.tool = turn[t].tool /\ l.todo = turn[t].todo /\ l.owed = turn[t].owed
      /\ l.announced = turn[t].announced /\ l.traced = turn[t].traced
      /\ l.alone = turn[t].alone /\ l.unsaved = turn[t].unsaved
      /\ l.knew = turn[t].knew /\ l.history = turn[t].history
      /\ l.blind = turn[t].blind /\ l.named = turn[t].named
  BY <1>1, <1>2 DEF Local
<1> HIDE DEF l
<1>5. Lands(t, l.at) /\ turn'[t] = l
  BY <1>1, <1>3, Land
<1> QED
  BY <1>3, <1>4, <1>5 DEF Goes, SameWork, SameKnown

LEMMA RaiseLands ==
    ASSUME turn \in [Turn -> Local], NEW t \in Turn, Raise(t)
    PROVE  /\ Lands(t, "error") /\ SameKnown(t) /\ turn'[t].todo = turn[t].todo
           /\ turn'[t].announced = turn[t].announced
           /\ turn'[t].traced = turn[t].traced /\ turn'[t].tool = "none"
           /\ turn'[t].owed = {}
<1> DEFINE l == [turn[t] EXCEPT !.at = "error", !.tool = "none", !.owed = {}, !.events = 0]
<1>1. turn[t] \in Local /\ turn' = [turn EXCEPT ![t] = l]
  BY DEF Raise
<1>2. 0 \in 0..MaxEvents
  BY ChatAssumption, SMT DEF ChatAssumption
<1>3. l \in Local /\ l.at = "error"
  BY <1>1, <1>2 DEF Local, Working
<1>4. /\ l.todo = turn[t].todo /\ l.announced = turn[t].announced
      /\ l.traced = turn[t].traced /\ l.alone = turn[t].alone
      /\ l.unsaved = turn[t].unsaved /\ l.knew = turn[t].knew
      /\ l.history = turn[t].history /\ l.blind = turn[t].blind /\ l.named = turn[t].named /\ l.tool = "none"
      /\ l.owed = {}
  BY <1>1, <1>2 DEF Local
<1> HIDE DEF l
<1>5. Lands(t, l.at) /\ turn'[t] = l
  BY <1>1, <1>3, Land
<1> QED
  BY <1>3, <1>4, <1>5 DEF SameKnown

LEMMA UnsavedLands ==
    ASSUME turn \in [Turn -> Local], NEW t \in Turn, turn' = [turn EXCEPT ![t].at = "title", ![t].unsaved = TRUE]
    PROVE  /\ Lands(t, "title") /\ SameWork(t) /\ turn'[t].alone = turn[t].alone
           /\ turn'[t].knew = turn[t].knew /\ turn'[t].history = turn[t].history
           /\ turn'[t].blind = turn[t].blind /\ turn'[t].named = turn[t].named /\ turn'[t].traced = turn[t].traced
           /\ turn'[t].unsaved = TRUE
<1> DEFINE l == [turn[t] EXCEPT !.at = "title", !.unsaved = TRUE]
<1>1. turn[t] \in Local /\ turn' = [turn EXCEPT ![t] = l]
  OBVIOUS
<1>2. l \in Local /\ l.at = "title"
  BY <1>1 DEF Local, Working
<1>3. /\ l.tool = turn[t].tool /\ l.todo = turn[t].todo /\ l.owed = turn[t].owed
      /\ l.announced = turn[t].announced /\ l.traced = turn[t].traced
      /\ l.alone = turn[t].alone /\ l.knew = turn[t].knew
      /\ l.history = turn[t].history /\ l.blind = turn[t].blind /\ l.named = turn[t].named /\ l.unsaved = TRUE
  BY <1>1 DEF Local
<1> HIDE DEF l
<1>4. Lands(t, l.at) /\ turn'[t] = l
  BY <1>1, <1>2, Land
<1> QED
  BY <1>2, <1>3, <1>4 DEF SameWork

LEMMA SendLands ==
    ASSUME turn \in [Turn -> Local], NEW t \in Turn, SendFinish(t)
    PROVE  Goes(t, "idle")
<1> DEFINE l == [turn[t] EXCEPT !.at = "idle", !.finish = FALSE]
<1>1. turn[t] \in Local /\ turn' = [turn EXCEPT ![t] = l]
  BY DEF SendFinish
<1>2. l \in Local /\ l.at = "idle"
  BY <1>1 DEF Local, Working
<1>3. /\ l.tool = turn[t].tool /\ l.todo = turn[t].todo /\ l.owed = turn[t].owed
      /\ l.announced = turn[t].announced /\ l.traced = turn[t].traced
      /\ l.alone = turn[t].alone /\ l.unsaved = turn[t].unsaved
      /\ l.knew = turn[t].knew /\ l.history = turn[t].history
      /\ l.blind = turn[t].blind /\ l.named = turn[t].named
  BY <1>1 DEF Local
<1> HIDE DEF l
<1>4. Lands(t, l.at) /\ turn'[t] = l
  BY <1>1, <1>2, Land
<1> QED
  BY <1>2, <1>3, <1>4 DEF Goes, SameWork, SameKnown

\* One artifact less to persist; it is announced when it was written.
LEMMA PersistLands ==
    ASSUME turn \in [Turn -> Local], NEW t \in Turn, Persist(t)
    PROVE  /\ Lands(t, "persist") /\ SameKnown(t) /\ turn'[t].tool = turn[t].tool
           /\ turn'[t].todo = Tail(turn[t].todo)
           /\ \/ /\ Head(turn[t].todo).title \in turn[t].announced
                 /\ turn'[t].announced = turn[t].announced /\ turn'[t].owed = turn[t].owed
                 /\ UNCHANGED <<queue, reports, faults>>
              \/ /\ turn'[t].announced \in
                        {turn[t].announced, turn[t].announced \cup {Head(turn[t].todo).title}}
                 /\ turn'[t].owed = turn[t].owed \ {Head(turn[t].todo).title}
                 /\ Head(turn[t].todo).title \in Title
<1> DEFINE x == Head(turn[t].todo).title
           todo == Tail(turn[t].todo)
           owed == turn[t].owed \ {x}
           l == [turn[t] EXCEPT !.todo = todo]
           m(a) == [turn[t] EXCEPT !.todo = todo, !.text = TRUE, !.traced = TRUE,
                                   !.announced = a, !.owed = owed]
<1>1. turn[t] \in Local /\ turn[t].at = "persist" /\ turn[t].todo # <<>>
  BY DEF Persist
<1>2. turn[t].todo \in Seq(Artifact)
  BY <1>1 DEF Local
<1>3. todo \in Seq(Artifact) /\ x \in Title
  <2>1. Tail(turn[t].todo) \in Seq(Artifact) /\ Head(turn[t].todo) \in Artifact
    BY <1>1, <1>2, Tailed
  <2> QED
    BY <2>1 DEF Artifact
<1>4. owed \in SUBSET Title /\ turn[t].announced \in SUBSET Title
  BY <1>1 DEF Local
<1>5. \/ /\ x \in turn[t].announced /\ turn' = [turn EXCEPT ![t] = l]
         /\ UNCHANGED <<queue, reports, faults>>
      \/ \E a \in {turn[t].announced, turn[t].announced \cup {x}} :
             turn' = [turn EXCEPT ![t] = m(a)]
  <2>1. CASE Answered(t, x, TRUE)
    BY <2>1 DEF Answered
  <2>2. CASE Answered(t, x, FALSE)
    BY <2>2 DEF Answered
  <2> QED
    BY <2>1, <2>2 DEF Persist
<1> HIDE DEF x, todo, owed
<1>6. /\ l \in Local /\ l.at = "persist" /\ l.todo = todo
      /\ l.tool = turn[t].tool /\ l.owed = turn[t].owed
      /\ l.announced = turn[t].announced /\ l.alone = turn[t].alone
      /\ l.unsaved = turn[t].unsaved /\ l.knew = turn[t].knew
      /\ l.history = turn[t].history /\ l.blind = turn[t].blind /\ l.named = turn[t].named
  BY <1>1, <1>3 DEF Local
<1>7. ASSUME NEW a \in SUBSET Title
      PROVE  /\ m(a) \in Local /\ m(a).at = "persist" /\ m(a).todo = todo
             /\ m(a).tool = turn[t].tool /\ m(a).owed = owed
             /\ m(a).announced = a /\ m(a).alone = turn[t].alone
             /\ m(a).unsaved = turn[t].unsaved /\ m(a).knew = turn[t].knew
             /\ m(a).history = turn[t].history /\ m(a).blind = turn[t].blind
             /\ m(a).named = turn[t].named
  BY <1>1, <1>3, <1>4 DEF Local
<1> HIDE DEF l, m
<1>8. CASE x \in turn[t].announced /\ turn' = [turn EXCEPT ![t] = l]
           /\ UNCHANGED <<queue, reports, faults>>
  BY <1>1, <1>6, <1>8, Land DEF SameKnown, x, todo
<1>9. ASSUME NEW a \in {turn[t].announced, turn[t].announced \cup {x}},
             turn' = [turn EXCEPT ![t] = m(a)]
      PROVE  /\ Lands(t, "persist") /\ SameKnown(t) /\ turn'[t].tool = turn[t].tool
             /\ turn'[t].todo = todo /\ turn'[t].announced = a /\ turn'[t].owed = owed
  <2>1. a \in SUBSET Title
    BY <1>3, <1>4
  <2>2. Lands(t, m(a).at) /\ turn'[t] = m(a)
    BY <1>7, <1>9, <2>1, Land
  <2> QED
    BY <1>7, <2>1, <2>2 DEF SameKnown
<1> QED
  BY <1>3, <1>5, <1>8, <1>9 DEF x, todo, owed

LEMMA GoneTyped ==
    ASSUME turn \in [Turn -> Local], NEW t \in Turn, NEW at \in Spots
    PROVE  /\ Gone(t, at) \in Local /\ Gone(t, at).at = at
           /\ Gone(t, at).traced = turn[t].traced /\ Gone(t, at).unsaved = turn[t].unsaved
           /\ Gone(t, at).alone = turn[t].alone
           /\ Gone(t, at).owed = {} /\ Gone(t, at).announced = {}
           /\ Fresh \in Local
<1>1. 0 \in 0..MaxEvents
  BY ChatAssumption, SMT DEF ChatAssumption
<1>2. <<>> \in Seq(Artifact)
  OBVIOUS
<1>3. Fresh \in Local
  BY <1>1, <1>2 DEF Fresh, Local
<1>4. turn[t].traced \in BOOLEAN /\ turn[t].unsaved \in BOOLEAN /\ turn[t].alone \in BOOLEAN
  BY Fields
<1>5. Gone(t, at) \in Local
  BY <1>3, <1>4 DEF Gone, Local, Spots
<1> QED
  BY <1>3, <1>5 DEF Gone, Fresh

LEMMA EndLands ==
    ASSUME turn \in [Turn -> Local], NEW t \in Turn, EndTurn(t)
    PROVE  /\ Lands(t, "ended")
           /\ turn'[t].traced = turn[t].traced /\ turn'[t].unsaved = turn[t].unsaved
           /\ turn'[t].alone = turn[t].alone
           /\ turn'[t].owed = {} /\ turn'[t].announced = {}
<1> DEFINE l == Gone(t, "ended")
<1>1. turn' = [turn EXCEPT ![t] = l]
  BY DEF EndTurn
<1>2. /\ l \in Local /\ l.at = "ended" /\ l.traced = turn[t].traced
      /\ l.unsaved = turn[t].unsaved /\ l.alone = turn[t].alone
      /\ l.owed = {} /\ l.announced = {}
  BY GoneTyped DEF Spots, Over
<1> HIDE DEF l
<1> QED
  BY <1>1, <1>2, Land

LEMMA CrashLands ==
    ASSUME turn \in [Turn -> Local], Crash
    PROVE  /\ turn' \in [Turn -> Local]
           /\ \A t \in Turn :
                  /\ turn'[t].traced = turn[t].traced /\ turn'[t].unsaved = turn[t].unsaved
                  /\ turn'[t].alone = turn[t].alone
                  /\ \/ /\ turn'[t].at = "lost" /\ Busy(t)
                        /\ turn'[t].owed = {} /\ turn'[t].announced = {}
                     \/ turn'[t] = turn[t] /\ ~Busy(t)
<1> DEFINE l(t) == Gone(t, "lost")
<1>1. turn' = [t \in Turn |-> IF Busy(t) THEN l(t) ELSE turn[t]]
  BY DEF Crash
<1>2. \A t \in Turn :
          /\ l(t) \in Local /\ l(t).at = "lost" /\ l(t).traced = turn[t].traced
          /\ l(t).unsaved = turn[t].unsaved /\ l(t).alone = turn[t].alone
          /\ l(t).owed = {} /\ l(t).announced = {}
  BY GoneTyped DEF Spots, Over
<1> HIDE DEF l
<1> QED
  BY <1>1, <1>2

LEMMA AskLands ==
    ASSUME turn \in [Turn -> Local], NEW t \in Turn, Ask(t)
    PROVE  /\ turn' \in [Turn -> Local] /\ turn'[t].at = "check"
           /\ turn'[t].knew = {v \in Turn : client[v].saw} /\ SameWork(t)
           /\ turn'[t].traced = turn[t].traced /\ turn'[t].unsaved = turn[t].unsaved
           /\ turn'[t].alone => \A u \in Turn : ~Busy(u)
           /\ \A u \in Turn \ {t} :
                  /\ turn'[u].at = turn[u].at
                  /\ turn'[u].tool = turn[u].tool /\ turn'[u].todo = turn[u].todo
                  /\ turn'[u].owed = turn[u].owed
                  /\ turn'[u].announced = turn[u].announced
                  /\ turn'[u].traced = turn[u].traced /\ turn'[u].unsaved = turn[u].unsaved
                  /\ turn'[u].knew = turn[u].knew
                  /\ turn'[u].history = turn[u].history /\ turn'[u].blind = turn[u].blind /\ turn'[u].named = turn[u].named
                  /\ turn'[u].alone => turn[u].alone /\ ~Busy(u)
<1> DEFINE others == {u \in Turn : Busy(u)}
           alone == others = {}
           knew == {v \in Turn : client[v].saw}
           l(named) == [turn[t] EXCEPT !.at = "check", !.alone = alone, !.knew = knew,
                                       !.named = named]
           m(u) == [turn[u] EXCEPT !.alone = FALSE]
<1>1. PICK named \in BOOLEAN :
          turn' = [u \in Turn |-> IF u = t THEN l(named)
                                  ELSE IF u \in others THEN m(u) ELSE turn[u]]
  BY DEF Ask
<1> DEFINE k == l(named)
<1>2. alone \in BOOLEAN /\ knew \in SUBSET Turn /\ (alone => \A u \in Turn : ~Busy(u))
  OBVIOUS
<1>3. \A u \in Turn : u \in others <=> Busy(u)
  OBVIOUS
<1> HIDE DEF alone, knew, others
<1>4. turn[t] \in Local
  OBVIOUS
<1>5. /\ k \in Local /\ k.at = "check" /\ k.alone = alone /\ k.knew = knew
      /\ k.tool = turn[t].tool /\ k.todo = turn[t].todo /\ k.owed = turn[t].owed
      /\ k.announced = turn[t].announced
      /\ k.unsaved = turn[t].unsaved /\ k.traced = turn[t].traced
  BY <1>2, <1>4 DEF Local, Working
<1>6. ASSUME NEW u \in Turn
      PROVE  /\ m(u) \in Local /\ m(u).at = turn[u].at /\ m(u).alone = FALSE
             /\ m(u).tool = turn[u].tool /\ m(u).todo = turn[u].todo
             /\ m(u).owed = turn[u].owed /\ m(u).announced = turn[u].announced
             /\ m(u).unsaved = turn[u].unsaved /\ m(u).traced = turn[u].traced
             /\ m(u).knew = turn[u].knew /\ m(u).history = turn[u].history
             /\ m(u).blind = turn[u].blind /\ m(u).named = turn[u].named
  <2>1. turn[u] \in Local
    OBVIOUS
  <2> QED
    BY <2>1 DEF Local
<1> HIDE DEF k, l, m
<1>7. turn' \in [Turn -> Local]
  BY <1>1, <1>5, <1>6 DEF k
<1>8. turn'[t] = k
  BY <1>1 DEF k
<1>9. ASSUME NEW u \in Turn \ {t}
      PROVE  turn'[u] = m(u) \/ (turn'[u] = turn[u] /\ ~Busy(u))
  BY <1>1, <1>3
<1>10. /\ turn'[t].at = "check" /\ turn'[t].knew = {v \in Turn : client[v].saw} /\ SameWork(t)
       /\ turn'[t].traced = turn[t].traced /\ turn'[t].unsaved = turn[t].unsaved
       /\ turn'[t].alone => \A u \in Turn : ~Busy(u)
  BY <1>2, <1>5, <1>8 DEF knew, SameWork
<1>11. ASSUME NEW u \in Turn \ {t}
      PROVE  /\ turn'[u].at = turn[u].at
             /\ turn'[u].tool = turn[u].tool /\ turn'[u].todo = turn[u].todo
             /\ turn'[u].owed = turn[u].owed
             /\ turn'[u].announced = turn[u].announced
             /\ turn'[u].traced = turn[u].traced /\ turn'[u].unsaved = turn[u].unsaved
             /\ turn'[u].knew = turn[u].knew
             /\ turn'[u].history = turn[u].history /\ turn'[u].blind = turn[u].blind /\ turn'[u].named = turn[u].named
             /\ turn'[u].alone => turn[u].alone /\ ~Busy(u)
  <2>1. CASE turn'[u] = m(u)
    <3>1. u \in Turn
      OBVIOUS
    <3> QED
      BY <1>6, <2>1, <3>1
  <2>2. CASE turn'[u] = turn[u] /\ ~Busy(u)
    BY <2>2
  <2> QED
    BY <1>9, <2>1, <2>2
<1> QED
  BY <1>7, <1>10, <1>11

-----------------------------------------------------------------------------
(* What a step keeps of what is known                                      *)

\* Memory and the report table only grow.
Grows ==
    /\ \A i \in DOMAIN memory : \E j \in DOMAIN memory' : memory'[j] = memory[i]
    /\ reports \subseteq reports'

QueuesStay(t) == \A u \in Turn \ {t} : queue'[u] = queue[u] /\ client'[u] = client[u]

\* A turn the user has been told about does not change any more.
TellStays(t) ==
    turn[t].at \in Finished =>
        /\ turn'[t].at \in Finished
        /\ turn'[t].traced = turn[t].traced /\ turn'[t].unsaved = turn[t].unsaved

\* What a step of turn t may do to the others.
Moved(t) ==
    /\ Stay(t) /\ QueuesStay(t) /\ Grows /\ TellStays(t)
    /\ loop' = loop \/ loop \in {t, NoTurn}
    /\ activity'.run \in {activity.run, t}

LEMMA RememberedStays ==
    ASSUME Grows, NEW u, NEW role, Remembered(u, role) PROVE Remembered(u, role)'
BY DEF Grows, Remembered, ToSet

LEMMA IdsStay ==
    ASSUME Grows PROVE Ids \subseteq Ids'
BY DEF Grows, Ids

LEMMA SettledStays ==
    ASSUME Grows, NEW u, Settled(u),
           turn'[u].traced = turn[u].traced, turn'[u].unsaved = turn[u].unsaved
    PROVE  Settled(u)'
BY RememberedStays DEF Settled

LEMMA ToldStays ==
    ASSUME Grows, NEW u, TellStays(u), Told(u) PROVE Told(u)'
BY SettledStays DEF TellStays, Told

\* What the user knew stays true.
LEMMA KnewStays ==
    ASSUME TypeOK, Grows, NEW u \in Turn, KnewFits(u), \A v \in Turn : TellStays(v),
           turn'[u].at \in Working =>
               /\ turn[u].at \in Working
               /\ turn[u].at = "check" => turn'[u].at = "check"
               /\ turn'[u].knew = turn[u].knew /\ turn'[u].history = turn[u].history
               /\ turn'[u].blind = turn[u].blind /\ turn'[u].named = turn[u].named
    PROVE  KnewFits(u)'
<1> SUFFICES ASSUME turn'[u].at \in Working, NEW v \in turn[u].knew
             PROVE  /\ Told(v)'
                    /\ \/ turn'[u].at = "check" \/ v \in turn[u].history \/ turn[u].blind
                       \/ ~turn[u].named \/ turn'[v].unsaved \/ ~turn'[v].traced
  BY DEF KnewFits
<1>1. v \in Turn
  BY Fields DEF TypeOK
<1>2. Told(v) /\ Told(v)'
  BY <1>1, ToldStays DEF KnewFits
<1>3. turn'[v].traced = turn[v].traced /\ turn'[v].unsaved = turn[v].unsaved
  BY <1>1, <1>2 DEF TellStays, Told
<1> QED
  BY <1>2, <1>3 DEF KnewFits

LEMMA OthersTell ==
    ASSUME NEW t \in Turn, Moved(t) PROVE \A v \in Turn : TellStays(v)
BY DEF Moved, Stay, TellStays

LEMMA OthersGood ==
    ASSUME TypeOK, NEW t \in Turn, Busy(t), Moved(t), NEW u \in Turn, u # t, Good(u)
    PROVE  Good(u)'
<1>1. turn'[u] = turn[u] /\ queue'[u] = queue[u] /\ client'[u] = client[u] /\ Grows
  BY DEF Moved, Stay, QueuesStay
<1>2. ~(Busy(u) /\ turn[u].alone)
  BY DEF Good, AloneFits
<1>3. u # NoTurn
  BY SMT DEF Turn, NoTurn
<1>4. HoldsLoop(u)'
  BY <1>1, <1>3 DEF Good, HoldsLoop, Moved
<1>5. SaveFits(u)'
  BY <1>1, SettledStays DEF Good, SaveFits
<1>6. AloneFits(u)'
  BY <1>1, <1>2 DEF AloneFits, Busy
<1>7. RowFits(u)'
  BY <1>1, <1>2 DEF Good, RowFits, Moved, Unsettled, Busy, Working
<1>8. OwedFits(u)'
  BY <1>1, <1>2 DEF Good, OwedFits, Busy, Working
<1>9. TellStays(u)
  BY OthersTell
<1>10. ToldFits(u)'
  BY <1>1, <1>9, ToldStays DEF Good, ToldFits, Finishes
<1>11. KnewFits(u)'
  BY <1>1, KnewStays, OthersTell DEF Good
<1>12. MarkersFit(u)'
  BY <1>1, IdsStay DEF Good, MarkersFit
<1> QED
  BY <1>4, <1>5, <1>6, <1>7, <1>8, <1>10, <1>11, <1>12 DEF Good

-----------------------------------------------------------------------------
(* What a step of a turn has to be shown to do                             *)

Typed == TypeOK /\ (\A t \in Turn : Good(t)) /\ MemoryFits

Preserves(t) == TypeOK' /\ Moved(t) /\ Good(t)' /\ MemoryFits'

LEMMA StepTyped ==
    ASSUME Typed, NEW t \in Turn, Busy(t), Preserves(t) PROVE Typed'
BY OthersGood DEF Preserves, Typed

\* Alone before, alone after.
LEMMA AloneStays ==
    ASSUME NEW t \in Turn, Busy(t), Stay(t), AloneFits(t), turn'[t].alone = turn[t].alone
    PROVE  AloneFits(t)'
BY DEF AloneFits, Stay, Busy

LEMMA FaultCounts ==
    ASSUME TypeOK, Fails \/ UNCHANGED faults PROVE faults' \in 0..MaxFaults
BY ChatAssumption, SMT DEF ChatAssumption, TypeOK, Fails

\* The writes of the activity row.
LEMMA ActivityMoves ==
    ASSUME TypeOK, NEW t \in Turn,
           \/ MarkRunning(t) \/ UpdateStep \/ MarkIdle \/ MarkError \/ GoStale
           \/ UNCHANGED activity
    PROVE  /\ ActivityTypeOK'
           /\ \/ activity'.run = t /\ activity'.status = "running"
              \/ activity'.run = activity.run
           /\ ~MarkIdle /\ activity'.status = "idle" => activity.status = "idle"
           /\ ~MarkRunning(t) => activity'.run = activity.run
<1>1. activity \in [status : {"absent", "running", "idle", "error"},
                    run : Turn \cup {NoTurn}, fresh : BOOLEAN]
  BY DEF TypeOK, ActivityTypeOK, ActivityRow
<1>2. CASE MarkRunning(t)
  BY <1>2 DEF MarkRunning, ActivityTypeOK, ActivityRow
<1>3. CASE UpdateStep
  <2> DEFINE fresh == activity.fresh \/ activity.status = "running"
  <2>1. activity' = [activity EXCEPT !.fresh = fresh] /\ fresh \in BOOLEAN
    BY <1>3 DEF UpdateStep
  <2> HIDE DEF fresh
  <2> QED
    BY <1>1, <2>1 DEF ActivityTypeOK, ActivityRow
<1>4. CASE MarkIdle
  BY <1>1, <1>4 DEF MarkIdle, ActivityTypeOK, ActivityRow
<1>5. CASE MarkError
  BY <1>1, <1>5 DEF MarkError, ActivityTypeOK, ActivityRow
<1>6. CASE GoStale
  BY <1>1, <1>6 DEF GoStale, ActivityTypeOK, ActivityRow
<1>7. CASE UNCHANGED activity
  BY <1>1, <1>7 DEF ActivityTypeOK, ActivityRow
<1> QED
  BY <1>2, <1>3, <1>4, <1>5, <1>6, <1>7

\* A step from one place of a turn's work to another.
LEMMA WorkKeeps ==
    ASSUME Typed, NEW t \in Turn, NEW at \in Working \ {"check"},
           turn[t].at \in Working \ {"check", "idle"}, Lands(t, at),
           turn'[t].alone = turn[t].alone, turn'[t].knew = turn[t].knew,
           turn'[t].history = turn[t].history, turn'[t].blind = turn[t].blind /\ turn'[t].named = turn[t].named,
           Grows, UNCHANGED client, QueuesStay(t), ~Finishes(t)', MarkersFit(t)', MemoryFits',
           at \in Holding => loop' = t, loop' = loop \/ loop \in {t, NoTurn},
           activity'.run \in {activity.run, t},
           SaveFits(t)', RowFits(t)', OwedFits(t)', TypeOK'
    PROVE  Preserves(t)
<1>1. TypeOK /\ Good(t) /\ Busy(t) /\ turn'[t].at = at /\ Stay(t)
  BY DEF Typed, Busy, Lands
<1>2. TellStays(t)
  BY DEF TellStays, Finished, Working
<1>3. Moved(t)
  BY <1>1, <1>2 DEF Moved
<1>4. HoldsLoop(t)'
  BY <1>1 DEF HoldsLoop
<1>5. AloneFits(t)'
  BY <1>1, AloneStays DEF Good
<1>6. ToldFits(t)'
  BY <1>1 DEF Good, ToldFits, Told, Finished, Working
<1>7. KnewFits(t)'
  <2>1. /\ turn[t].at \in Working
        /\ turn[t].at = "check" => turn'[t].at = "check"
    OBVIOUS
  <2> QED
    BY <1>1, <1>3, <2>1, KnewStays, OthersTell DEF Good
<1> QED
  BY <1>3, <1>4, <1>5, <1>6, <1>7 DEF Preserves, Good

\* The same where Memory, the reports and the queues stay as they are.
LEMMA QuietKeeps ==
    ASSUME Typed, NEW t \in Turn, NEW at \in Working \ {"check"},
           turn[t].at \in Working \ {"check", "idle"}, Lands(t, at), SameKnown(t),
           turn'[t].announced = turn[t].announced,
           UNCHANGED <<queue, client, reports, memory>>,
           pending' \in Seq(Artifact), ActivityTypeOK', faults' \in 0..MaxFaults,
           loop' \in Turn \cup {NoTurn},
           at \in Holding => loop' = t, loop' = loop \/ loop \in {t, NoTurn},
           activity'.run \in {activity.run, t},
           SaveFits(t)', RowFits(t)', OwedFits(t)'
    PROVE  Preserves(t)
<1>1. TypeOK /\ Good(t) /\ MemoryFits
  BY DEF Typed
<1>2. TypeOK'
  BY <1>1 DEF TypeOK, Lands
<1>3. Grows /\ QueuesStay(t) /\ Ids' = Ids /\ MemoryFits'
  BY <1>1 DEF Grows, QueuesStay, Ids, MemoryFits
<1>4. ~Finishes(t)'
  BY <1>1 DEF Good, ToldFits, Told, Finished, Working, Finishes
<1>5. MarkersFit(t)'
  BY <1>1, <1>3 DEF Good, MarkersFit
<1> QED
  BY <1>2, <1>3, <1>4, <1>5, WorkKeeps DEF SameKnown

-----------------------------------------------------------------------------
(* The stream                                                              *)

\* What SaveFits asks of a turn that is not over.
LEMMA SaveStays ==
    ASSUME NEW t \in Turn, SaveFits(t), Grows, turn'[t].unsaved = turn[t].unsaved,
           \/ turn'[t].at \in Unsettled
           \/ /\ turn'[t].traced = turn[t].traced
              /\ turn'[t].at \in Early => turn[t].at \in Early
              /\ turn'[t].at \in After => turn[t].at \in After
    PROVE  SaveFits(t)'
BY SettledStays DEF SaveFits, Early, After, Unsettled

LEMMA StartKeeps ==
    ASSUME Typed, NEW t \in Turn, Start(t) PROVE Preserves(t)
<1>1. TypeOK /\ Good(t) /\ turn \in [Turn -> Local]
  BY DEF Typed, TypeOK
<1>2. turn[t].at = "mark" /\ UNCHANGED <<queue, client, pending, reports, memory>>
      /\ loop' = NoTurn /\ loop = t
  BY <1>1 DEF Start, Release, Good, HoldsLoop, Holding, Working
<1>3. Goes(t, "run")
  BY <1>1, AtGoes DEF Start, Spots, Working
<1>4. /\ ActivityTypeOK' /\ activity'.run \in {activity.run, t}
      /\ activity'.run = t => activity'.status = "running" \/ activity.run = t
  BY <1>1, ActivityMoves DEF Start, Written
<1>5. faults' \in 0..MaxFaults
  BY <1>1, FaultCounts DEF Start, Written, Works
<1>6. SaveFits(t)'
  BY <1>3 DEF SaveFits, Goes, Lands, Early, After
<1>7. RowFits(t)'
  BY <1>1, <1>2, <1>3, <1>4 DEF Good, RowFits, Goes, Lands
<1>8. OwedFits(t)'
  BY <1>1, <1>2, <1>3 DEF Good, OwedFits, Goes, Lands, SameWork, SameKnown, Working
<1>9. pending' \in Seq(Artifact)
  BY <1>1, <1>2 DEF TypeOK
<1>10. "run" \in Working \ {"check"} /\ "run" \notin Holding
       /\ turn[t].at \in Working \ {"check", "idle"}
  BY <1>2 DEF Working, Holding
<1> QED
  BY <1>2, <1>3, <1>4, <1>5, <1>6, <1>7, <1>8, <1>9, <1>10, QuietKeeps DEF Goes, SameWork

\* A step within the stream, where nothing is persisted.
LEMMA StreamKeeps ==
    ASSUME Typed, NEW t \in Turn, NEW at \in Unsettled,
           turn[t].at \in Unsettled, Lands(t, at), SameKnown(t),
           turn'[t].announced = turn[t].announced,
           UNCHANGED <<queue, client, reports, memory>>,
           pending' \in Seq(Artifact), faults' \in 0..MaxFaults,
           UpdateStep \/ MarkError \/ UNCHANGED activity,
           loop' \in Turn \cup {NoTurn},
           at \in Holding => loop' = t, loop' = loop \/ loop \in {t, NoTurn},
           OwedFits(t)'
    PROVE  Preserves(t)
<1>1. TypeOK /\ Good(t) /\ at \in Working \ {"check"}
      /\ turn[t].at \in Working \ {"check", "idle"}
  BY DEF Typed, Unsettled, Working
<1>2. /\ ActivityTypeOK' /\ activity'.run = activity.run
      /\ activity'.status = "idle" => activity.status = "idle"
  <2>1. CASE UNCHANGED activity
    BY <1>1, <2>1 DEF TypeOK, ActivityTypeOK, ActivityRow
  <2>2. CASE UpdateStep
    BY <1>1, <2>2 DEF TypeOK, ActivityTypeOK, ActivityRow, UpdateStep
  <2>3. CASE MarkError
    BY <1>1, <2>3 DEF TypeOK, ActivityTypeOK, ActivityRow, MarkError
  <2> QED
    BY <2>1, <2>2, <2>3
<1>3. RowFits(t)'
  BY <1>1, <1>2 DEF Good, RowFits, Lands, SameKnown, Unsettled
<1>4. SaveFits(t)'
  BY DEF SaveFits, Lands, Early, After, Unsettled
<1> QED
  BY <1>1, <1>2, <1>3, <1>4, QuietKeeps

LEMMA TextKeeps ==
    ASSUME Typed, NEW t \in Turn, Text(t) PROVE Preserves(t)
<1>1. TypeOK /\ Good(t) /\ turn \in [Turn -> Local]
  BY DEF Typed, TypeOK
<1>2. turn[t].at = "run" /\ UNCHANGED <<queue, client, pending, reports, memory, activity, loop, faults>>
  BY DEF Text, Streaming
<1>3. Lands(t, "run") /\ SameWork(t) /\ SameKnown(t)
  BY <1>1, <1>2, TextLands
<1>4. OwedFits(t)'
  BY <1>1, <1>2, <1>3 DEF Good, OwedFits, Lands, SameWork, SameKnown, Working
<1>5. "run" \in Unsettled /\ "run" \notin Holding
  BY DEF Unsettled, Holding
<1> QED
  BY <1>1, <1>2, <1>3, <1>4, <1>5, StreamKeeps DEF TypeOK, SameWork

LEMMA LegacyKeeps ==
    ASSUME Typed, NEW t \in Turn, LegacyArtifact(t) PROVE Preserves(t)
<1>1. TypeOK /\ Good(t) /\ turn \in [Turn -> Local]
  BY DEF Typed, TypeOK
<1>2. /\ turn[t].at = "run" /\ turn[t].tool = "none" /\ Free /\ loop' = t
      /\ UNCHANGED <<queue, client, pending, reports, memory, activity, faults>>
  BY DEF LegacyArtifact, Streaming, Hold
<1>3. PICK title \in Title :
          /\ Lands(t, "persist") /\ SameKnown(t)
          /\ turn'[t].announced = turn[t].announced
          /\ turn'[t].todo = <<[owner |-> t, title |-> title]>>
          /\ turn'[t].owed = turn[t].owed \cup ({title} \ turn[t].announced)
  BY <1>1, LegacyLands DEF LegacyArtifact
<1>4. Titles(turn'[t].todo) = {title}
  BY <1>3 DEF Titles
<1>5. turn[t].alone => turn[t].owed = {}
  BY <1>1, <1>2 DEF Good, OwedFits, Working
<1>6. OwedFits(t)'
  BY <1>1, <1>3, <1>4, <1>5 DEF Good, OwedFits, Lands, SameKnown, Titles
<1>7. "persist" \in Unsettled /\ "run" \in Unsettled
  BY DEF Unsettled
<1> QED
  BY <1>1, <1>2, <1>3, <1>6, <1>7, StreamKeeps DEF TypeOK, Free

LEMMA CallKeeps ==
    ASSUME Typed, NEW t \in Turn, CallTool(t) PROVE Preserves(t)
<1>1. TypeOK /\ Good(t) /\ turn \in [Turn -> Local]
  BY DEF Typed, TypeOK
<1>2. /\ turn[t].at = "run" /\ turn[t].tool = "none"
      /\ UNCHANGED <<queue, client, pending, reports, memory, loop>>
      /\ UpdateStep \/ UNCHANGED activity
      /\ faults' \in 0..MaxFaults
  BY <1>1, FaultCounts DEF CallTool, Streaming, Written, Works
<1>3. Lands(t, "run") /\ SameKnown(t) /\ turn'[t].owed = turn[t].owed
      /\ turn'[t].announced = turn[t].announced /\ turn'[t].tool = "called"
  BY <1>1, <1>2, CallLands
<1>4. OwedFits(t)'
  BY <1>1, <1>2, <1>3 DEF Good, OwedFits, Lands, SameKnown, Working
<1>5. "run" \in Unsettled /\ "run" \notin Holding
  BY DEF Unsettled, Holding
<1> QED
  BY <1>1, <1>2, <1>3, <1>4, <1>5, StreamKeeps DEF TypeOK

LEMMA ReturnKeeps ==
    ASSUME Typed, NEW t \in Turn, ToolReturns(t) PROVE Preserves(t)
<1>1. TypeOK /\ Good(t) /\ turn \in [Turn -> Local] /\ pending \in Seq(Artifact)
  BY DEF Typed, TypeOK
<1>2. /\ turn[t].at = "run" /\ turn[t].tool = "called"
      /\ UNCHANGED <<queue, client, reports, memory, activity, loop, faults>>
  BY DEF ToolReturns
<1>3. turn[t].alone => turn[t].owed = {}
  BY <1>1, <1>2 DEF Good, OwedFits, Working
<1>4. "run" \in Unsettled /\ "run" \notin Holding
  BY DEF Unsettled, Holding
<1>5. CASE turn' = [turn EXCEPT ![t].tool = "returned"] /\ UNCHANGED pending
  <2>1. Lands(t, "run") /\ SameKnown(t) /\ turn'[t].owed = turn[t].owed
        /\ turn'[t].announced = turn[t].announced
    BY <1>1, <1>2, <1>5, ReturnBareLands
  <2>2. OwedFits(t)'
    BY <1>1, <1>3, <2>1 DEF Good, OwedFits, Lands, SameKnown, Titles
  <2> QED
    BY <1>1, <1>2, <1>4, <1>5, <2>1, <2>2, StreamKeeps DEF TypeOK
<1>6. ASSUME NEW title \in Title,
             turn' = [turn EXCEPT ![t].tool = "returned",
                                  ![t].owed = @ \cup ({title} \ turn[t].announced)],
             pending' = Append(pending, [owner |-> t, title |-> title])
      PROVE  Preserves(t)
  <2>1. Lands(t, "run") /\ SameKnown(t)
        /\ turn'[t].owed = turn[t].owed \cup ({title} \ turn[t].announced)
        /\ turn'[t].announced = turn[t].announced
    BY <1>1, <1>2, <1>6, ReturnLands
  <2>2. [owner |-> t, title |-> title] \in Artifact
    BY DEF Artifact
  <2>3. pending' \in Seq(Artifact)
        /\ \E i \in DOMAIN pending' : pending'[i] = [owner |-> t, title |-> title]
    BY <1>1, <1>6, <2>2, Appended
  <2>4. title \in Titles(pending')
    BY <2>3 DEF Titles
  <2>5. /\ turn'[t].owed \cap turn'[t].announced = {}
        /\ turn'[t].alone => turn'[t].owed \subseteq Titles(pending')
    <3>1. turn[t].owed \cap turn[t].announced = {}
      BY <1>1 DEF Good, OwedFits
    <3>2. turn'[t].owed \cap turn'[t].announced = {}
      BY <2>1, <3>1
    <3>3. turn'[t].alone => turn'[t].owed \subseteq {title}
      BY <1>3, <2>1 DEF SameKnown
    <3> QED
      BY <2>4, <3>2, <3>3
  <2>6. turn'[t].tool = "returned"
    BY <1>1, <1>6, ReturnLands
  <2>7. OwedFits(t)'
    BY <1>2, <2>1, <2>5, <2>6 DEF OwedFits, Lands, Titles
  <2> QED
    BY <1>1, <1>2, <1>4, <2>1, <2>3, <2>7, StreamKeeps DEF TypeOK
<1> QED
  BY <1>5, <1>6 DEF ToolReturns

LEMMA DrainKeeps ==
    ASSUME Typed, NEW t \in Turn, Drain(t) PROVE Preserves(t)
<1>1. TypeOK /\ Good(t) /\ turn \in [Turn -> Local] /\ pending \in Seq(Artifact)
  BY DEF Typed, TypeOK
<1>2. /\ turn[t].at = "run" /\ turn[t].tool = "returned" /\ Free /\ loop' = t
      /\ UNCHANGED <<queue, client, pending, reports, memory, activity, faults>>
  BY DEF Drain, Hold
<1>3. Lands(t, "drop") /\ SameKnown(t) /\ turn'[t].owed = turn[t].owed
      /\ turn'[t].announced = turn[t].announced /\ turn'[t].todo = pending
  BY <1>1, DrainLands
<1>4. OwedFits(t)'
  BY <1>1, <1>2, <1>3 DEF Good, OwedFits, Lands, SameKnown, Titles
<1>5. "run" \in Unsettled /\ "drop" \in Unsettled
  BY DEF Unsettled
<1> QED
  BY <1>1, <1>2, <1>3, <1>4, <1>5, StreamKeeps DEF TypeOK, Free

LEMMA DropKeeps ==
    ASSUME Typed, NEW t \in Turn, Drop(t) PROVE Preserves(t)
<1>1. TypeOK /\ Good(t) /\ turn \in [Turn -> Local]
  BY DEF Typed, TypeOK
<1>2. /\ turn[t].at = "drop" /\ loop = t /\ pending' = <<>>
      /\ UNCHANGED <<queue, client, reports, memory, activity, loop, faults>>
  BY <1>1 DEF Drop, Good, HoldsLoop, Holding, Working
<1>3. Goes(t, "persist")
  BY <1>1, AtGoes DEF Drop, Spots, Working
<1>4. OwedFits(t)'
  BY <1>1, <1>2, <1>3 DEF Good, OwedFits, Goes, Lands, SameWork, SameKnown, Titles
<1>5. "persist" \in Unsettled /\ "drop" \in Unsettled /\ pending' \in Seq(Artifact)
  BY <1>2 DEF Unsettled
<1> QED
  BY <1>1, <1>2, <1>3, <1>4, <1>5, StreamKeeps DEF TypeOK, Goes, SameWork

LEMMA PersistedKeeps ==
    ASSUME Typed, NEW t \in Turn, Persisted(t) PROVE Preserves(t)
<1>1. TypeOK /\ Good(t) /\ turn \in [Turn -> Local]
  BY DEF Typed, TypeOK
<1>2. /\ turn[t].at = "persist" /\ turn[t].todo = <<>> /\ loop = t /\ loop' = NoTurn
      /\ UNCHANGED <<queue, client, pending, reports, memory, activity, faults>>
  BY <1>1 DEF Persisted, Good, HoldsLoop, Holding, Working, Release
<1>3. Lands(t, "run") /\ SameKnown(t) /\ turn'[t].owed = turn[t].owed
      /\ turn'[t].announced = turn[t].announced /\ turn'[t].tool = "none"
  BY <1>1, PersistedLands
<1>4. Titles(turn[t].todo) = {}
  BY <1>2 DEF Titles
<1>5. OwedFits(t)'
  BY <1>1, <1>2, <1>3, <1>4 DEF Good, OwedFits, Lands, SameKnown
<1>6. "persist" \in Unsettled /\ "run" \in Unsettled /\ "run" \notin Holding
  BY DEF Unsettled, Holding
<1> QED
  BY <1>1, <1>2, <1>3, <1>5, <1>6, StreamKeeps DEF TypeOK

LEMMA FinishKeeps ==
    ASSUME Typed, NEW t \in Turn, Finish(t) \/ End(t) \/ Raise(t) PROVE Preserves(t)
<1>1. TypeOK /\ Good(t) /\ turn \in [Turn -> Local]
  BY DEF Typed, TypeOK
<1>2. /\ turn[t].at \in {"run", "finished"} /\ Free
      /\ turn[t].at = "run" => turn[t].tool # "called"
      /\ UNCHANGED <<queue, client, pending, reports, memory, activity, faults>>
  BY DEF Finish, End, Raise
<1>3. turn[t].at \in Unsettled /\ "finished" \in Unsettled /\ "answer" \in Unsettled
      /\ "error" \in Unsettled /\ "finished" \notin Holding
  BY <1>2 DEF Unsettled, Holding
<1>4. CASE Finish(t)
  <2>1. Goes(t, "finished") /\ UNCHANGED loop /\ turn[t].tool = "none" /\ turn[t].at = "run"
    BY <1>1, <1>4, FinishLands DEF Finish
  <2>2. OwedFits(t)'
    BY <1>1, <2>1 DEF Good, OwedFits, Goes, Lands, SameWork, SameKnown, Working
  <2> QED
    BY <1>1, <1>2, <1>3, <2>1, <2>2, StreamKeeps DEF TypeOK, Goes, SameWork
<1>5. CASE End(t)
  <2>1. Goes(t, "answer") /\ loop' = t
        /\ (turn[t].at = "finished" \/ turn[t].tool = "none")
    BY <1>1, <1>5, StreamEndLands DEF End, Hold
  <2>2. OwedFits(t)'
    BY <1>1, <1>2, <2>1 DEF Good, OwedFits, Goes, Lands, SameWork, SameKnown, Working
  <2> QED
    BY <1>1, <1>2, <1>3, <2>1, <2>2, StreamKeeps DEF TypeOK, Free, Goes, SameWork
<1>6. CASE Raise(t)
  <2>1. Lands(t, "error") /\ SameKnown(t) /\ loop' = t /\ turn'[t].owed = {}
        /\ turn'[t].announced = turn[t].announced
    BY <1>1, <1>6, RaiseLands DEF Raise, Hold
  <2>2. OwedFits(t)'
    BY <2>1 DEF OwedFits
  <2> QED
    BY <1>1, <1>2, <1>3, <2>1, <2>2, StreamKeeps DEF TypeOK, Free
<1> QED
  BY <1>4, <1>5, <1>6

LEMMA FailedKeeps ==
    ASSUME Typed, NEW t \in Turn, MarkFailed(t) PROVE Preserves(t)
<1>1. TypeOK /\ Good(t) /\ turn \in [Turn -> Local]
  BY DEF Typed, TypeOK
<1>2. /\ turn[t].at = "error" /\ loop = t /\ loop' = t
      /\ UNCHANGED <<queue, client, pending, reports, memory>>
      /\ MarkError \/ UNCHANGED activity
      /\ faults' \in 0..MaxFaults
  BY <1>1, FaultCounts DEF MarkFailed, Good, HoldsLoop, Holding, Working, Written, Works
<1>3. Goes(t, "answer")
  BY <1>1, AtGoes DEF MarkFailed, Spots, Working
<1>4. OwedFits(t)'
  BY <1>1, <1>2, <1>3 DEF Good, OwedFits, Goes, Lands, SameWork, SameKnown, Working
<1>5. "error" \in Unsettled /\ "answer" \in Unsettled
  BY DEF Unsettled
<1> QED
  BY <1>1, <1>2, <1>3, <1>4, <1>5, StreamKeeps DEF TypeOK, Goes, SameWork

-----------------------------------------------------------------------------
(* Writes                                                                  *)

LEMMA QueuedFits ==
    ASSUME TypeOK, NEW t \in Turn, NEW item \in Item, Queued(t, item)
    PROVE  /\ queue' \in [Turn -> Seq(Item)]
           /\ \A u \in Turn \ {t} : queue'[u] = queue[u]
           /\ \A i \in DOMAIN queue'[t] :
                  queue'[t][i] = item \/ \E j \in DOMAIN queue[t] : queue[t][j] = queue'[t][i]
<1>1. queue \in [Turn -> Seq(Item)] /\ queue[t] \in Seq(Item)
  BY DEF TypeOK
<1> DEFINE q == IF client[t].state # "reading" THEN queue[t] ELSE Append(queue[t], item)
<1>2. queue' = [queue EXCEPT ![t] = q]
  BY DEF Queued
<1>3. /\ q \in Seq(Item)
      /\ \A i \in DOMAIN q : q[i] = item \/ \E j \in DOMAIN queue[t] : queue[t][j] = q[i]
  BY <1>1, Appended
<1> HIDE DEF q
<1> QED
  BY <1>1, <1>2, <1>3

LEMMA SaveFitsMemory ==
    ASSUME TypeOK, NEW e \in Event, Save(e), reports \subseteq reports'
    PROVE  /\ memory' \in Seq(Event) /\ Grows
           /\ \E i \in DOMAIN memory' : memory'[i] = e
           /\ MemoryFits /\ e.markers \subseteq Ids' => MemoryFits'
<1>1. memory \in Seq(Event) /\ memory' = Append(memory, e)
  BY DEF TypeOK, Save
<1>2. /\ memory' \in Seq(Event)
      /\ \A i \in DOMAIN memory' : memory'[i] = e \/ (i \in DOMAIN memory /\ memory'[i] = memory[i])
      /\ \A i \in DOMAIN memory : i \in DOMAIN memory' /\ memory'[i] = memory[i]
      /\ \E i \in DOMAIN memory' : memory'[i] = e
  BY <1>1, Appended
<1> HIDE DEF Save
<1>3. Grows
  BY <1>2 DEF Grows
<1>4. ASSUME MemoryFits, e.markers \subseteq Ids' PROVE MemoryFits'
  BY <1>2, <1>3, <1>4, IdsStay DEF MemoryFits
<1> QED
  BY <1>2, <1>3, <1>4

LEMMA PersistKeeps ==
    ASSUME Typed, NEW t \in Turn, Persist(t) PROVE Preserves(t)
<1>1. TypeOK /\ Good(t) /\ turn \in [Turn -> Local] /\ MemoryFits
  BY DEF Typed, TypeOK
<1> DEFINE x == Head(turn[t].todo).title
           row == [id |-> <<t, x>>, owner |-> Head(turn[t].todo).owner]
<1>2. /\ turn[t].at = "persist" /\ turn[t].todo # <<>> /\ loop = t
      /\ UNCHANGED <<client, pending, memory, activity, loop>>
  BY <1>1 DEF Persist, Good, HoldsLoop, Holding, Working
<1>3. /\ Lands(t, "persist") /\ SameKnown(t) /\ turn'[t].todo = Tail(turn[t].todo)
      /\ \/ /\ x \in turn[t].announced
            /\ turn'[t].announced = turn[t].announced /\ turn'[t].owed = turn[t].owed
            /\ UNCHANGED <<queue, reports, faults>>
         \/ /\ turn'[t].announced \in {turn[t].announced, turn[t].announced \cup {x}}
            /\ turn'[t].owed = turn[t].owed \ {x}
            /\ x \in Title
  BY <1>1, PersistLands
<1>4. turn[t].todo \in Seq(Artifact)
  BY <1>1, Fields
<1>5. /\ Head(turn[t].todo) \in Artifact
      /\ \A j \in DOMAIN turn[t].todo :
             \/ turn[t].todo[j] = Head(turn[t].todo)
             \/ \E i \in DOMAIN Tail(turn[t].todo) : turn[t].todo[j] = Tail(turn[t].todo)[i]
  BY <1>2, <1>4, Tailed
<1>6. Titles(turn[t].todo) \subseteq {x} \cup Titles(turn'[t].todo)
  BY <1>3, <1>5 DEF Titles
<1>7. x \in Title /\ row \in [id : ReportId, owner : Turn \cup {NoTurn}] /\ row.id = <<t, x>>
  BY <1>5 DEF Artifact, ReportId
<1>8. /\ <<"marker", {<<t, x>>}>> \in Item
      /\ <<"marker", {<<t, x>>}>>[1] # "finished" /\ <<"marker", {<<t, x>>}>>[2] = {<<t, x>>}
  <2>1. {<<t, x>>} \in {{i} : i \in ReportId}
    BY <1>7 DEF ReportId
  <2> QED
    BY <2>1 DEF Item
<1> DEFINE item == <<"marker", {<<t, x>>}>>
\* What is written and what is announced go together.
<1>9. /\ reports' \in {reports, reports \cup {row}} /\ faults' \in 0..MaxFaults
      /\ \/ UNCHANGED queue /\ turn'[t].announced = turn[t].announced
         \/ Queued(t, item) /\ reports' = reports \cup {row}
  <2>1. CASE x \in turn[t].announced
    BY <1>1, <1>3, <2>1, FaultCounts DEF Persist
  <2>2. CASE x \notin turn[t].announced
    <3>1. \/ reports' = reports \cup {row} /\ Answered(t, x, TRUE) /\ Works
          \/ Fails /\ reports' \in {reports, reports \cup {row}} /\ Answered(t, x, FALSE)
      BY <2>2 DEF Persist
    <3>2. CASE reports' = reports \cup {row} /\ Answered(t, x, TRUE) /\ Works
      BY <1>1, <3>2, FaultCounts DEF Answered, Works
    <3>3. CASE Fails /\ reports' \in {reports, reports \cup {row}} /\ Answered(t, x, FALSE)
      <4>1. turn'[t].announced = turn[t].announced
        <5> DEFINE l == [turn[t] EXCEPT !.todo = Tail(@), !.text = TRUE, !.traced = TRUE,
                                       !.announced = turn[t].announced, !.owed = @ \ {x}]
        <5>1. turn' = [turn EXCEPT ![t] = l] /\ turn[t] \in Local
          BY <1>1, <3>3 DEF Answered
        <5>2. l.announced = turn[t].announced
          BY <5>1 DEF Local
        <5> HIDE DEF l
        <5> QED
          BY <1>1, <5>1, <5>2
      <4> QED
        BY <1>1, <3>3, <4>1, FaultCounts DEF Answered
    <3> QED
      BY <3>1, <3>2, <3>3
  <2> QED
    BY <2>1, <2>2
<1> HIDE DEF row, item
<1>10. Grows /\ Ids' \subseteq Ids \cup {<<t, x>>} /\ Ids \subseteq Ids'
       /\ (reports' = reports \cup {row} => <<t, x>> \in Ids')
  BY <1>2, <1>7, <1>9 DEF Grows, Ids
<1>11. /\ queue' \in [Turn -> Seq(Item)] /\ QueuesStay(t) /\ ~Finishes(t)'
       /\ \A i \in DOMAIN queue'[t] : queue'[t][i][2] \subseteq Ids'
  <2>1. ~Finishes(t)
    BY <1>1, <1>2 DEF Good, ToldFits, Told, Finished
  <2>2. CASE UNCHANGED queue
    BY <1>1, <1>2, <1>10, <2>1, <2>2 DEF QueuesStay, Finishes, Good, MarkersFit, TypeOK
  <2>3. CASE Queued(t, item) /\ reports' = reports \cup {row}
    <3>1. /\ queue' \in [Turn -> Seq(Item)]
          /\ \A u \in Turn \ {t} : queue'[u] = queue[u]
          /\ \A i \in DOMAIN queue'[t] :
                 queue'[t][i] = item \/ \E j \in DOMAIN queue[t] : queue[t][j] = queue'[t][i]
      BY <1>1, <1>8, <2>3, QueuedFits DEF item
    <3>2. item[1] # "finished" /\ item[2] \subseteq Ids'
      BY <1>8, <1>10, <2>3 DEF item
    <3>3. \A i \in DOMAIN queue'[t] : queue'[t][i][1] # "finished"
      BY <2>1, <3>1, <3>2 DEF Finishes
    <3>4. \A i \in DOMAIN queue'[t] : queue'[t][i][2] \subseteq Ids'
      BY <1>1, <1>10, <3>1, <3>2 DEF Good, MarkersFit
    <3> QED
      BY <1>2, <3>1, <3>3, <3>4 DEF QueuesStay, Finishes
  <2> QED
    BY <1>9, <2>2, <2>3
<1>12. \A title \in turn'[t].announced : <<t, title>> \in Ids'
  BY <1>1, <1>3, <1>9, <1>10 DEF Good, MarkersFit
<1>13. MarkersFit(t)' /\ MemoryFits'
  BY <1>1, <1>2, <1>10, <1>11, <1>12 DEF Good, MarkersFit, MemoryFits
<1>14. OwedFits(t)'
  <2>1. turn'[t].owed \cap turn'[t].announced = {}
    BY <1>1, <1>3 DEF Good, OwedFits
  <2>2. turn'[t].alone => turn'[t].owed \subseteq Titles(turn'[t].todo)
    BY <1>1, <1>2, <1>3, <1>6 DEF Good, OwedFits, SameKnown
  <2> QED
    BY <1>3, <2>1, <2>2 DEF OwedFits, Lands, Titles
<1>15. SaveFits(t)'
  BY <1>3 DEF SaveFits, Lands, Early, After
<1>16. RowFits(t)'
  BY <1>1, <1>2, <1>3 DEF Good, RowFits, Lands, SameKnown, Unsettled
<1>17. TypeOK'
  BY <1>1, <1>2, <1>3, <1>7, <1>9, <1>11 DEF TypeOK, Lands, row, ActivityTypeOK
<1>18. "persist" \in Working \ {"check", "idle"}
  BY DEF Working
<1> QED
  BY <1>2, <1>3, <1>10, <1>11, <1>13, <1>14, <1>15, <1>16, <1>17, <1>18, WorkKeeps
     DEF SameKnown

-----------------------------------------------------------------------------
(* The request                                                             *)

LEMMA BuildKeeps ==
    ASSUME Typed, NEW t \in Turn, Build(t) PROVE Preserves(t)
<1>1. TypeOK /\ Good(t) /\ turn \in [Turn -> Local] /\ MemoryFits
  BY DEF Typed, TypeOK
<1>2. /\ turn[t].at = "check" /\ Busy(t) /\ loop = t
      /\ UNCHANGED <<queue, client, pending, reports, memory, activity, loop>>
      /\ faults' \in 0..MaxFaults
  BY <1>1, FaultCounts DEF Build, Works, Busy, Good, HoldsLoop, Holding, Working
<1>3. /\ Lands(t, "question") /\ SameWork(t) /\ turn'[t].traced = turn[t].traced
      /\ turn'[t].alone = turn[t].alone /\ turn'[t].unsaved = turn[t].unsaved
      /\ turn'[t].knew = turn[t].knew /\ turn'[t].named = turn[t].named
      /\ turn'[t].history = Past(t) \/ turn'[t].blind
  BY <1>1, BuildLands
<1>4. TypeOK'
  BY <1>1, <1>2, <1>3 DEF TypeOK, Lands, ActivityTypeOK
<1>5. Grows /\ QueuesStay(t) /\ Ids' = Ids /\ MemoryFits'
  BY <1>1, <1>2 DEF Grows, QueuesStay, Ids, MemoryFits
<1>6. Moved(t)
  BY <1>2, <1>3, <1>5 DEF Moved, Lands, TellStays, Finished
<1>7. HoldsLoop(t)' /\ AloneFits(t)'
  BY <1>1, <1>2, <1>3, AloneStays DEF HoldsLoop, Lands, Good
<1>8. SaveFits(t)' /\ RowFits(t)'
  BY <1>1, <1>2, <1>3 DEF Good, SaveFits, RowFits, Lands, Early, After, Unsettled
<1>9. OwedFits(t)'
  BY <1>1, <1>2, <1>3 DEF Good, OwedFits, Lands, SameWork, Working
<1>10. ToldFits(t)'
  BY <1>1, <1>2 DEF Good, ToldFits, Told, Finished, Finishes
<1>11. KnewFits(t)'
  <2> SUFFICES ASSUME NEW u \in turn[t].knew
               PROVE  /\ Told(u)'
                      /\ \/ u \in turn'[t].history \/ turn'[t].blind
                         \/ ~turn'[t].named \/ turn'[u].unsaved \/ ~turn'[u].traced
    BY <1>3 DEF KnewFits
  <2>1. u \in Turn
    BY <1>1, Fields
  <2>2. Told(u)
    BY <1>1, <1>2 DEF Good, KnewFits, Working
  <2>3. TellStays(u) /\ Told(u)'
    BY <1>5, <1>6, <2>1, <2>2, OthersTell, ToldStays
  <2>4. turn'[u].traced = turn[u].traced /\ turn'[u].unsaved = turn[u].unsaved
    BY <2>2, <2>3 DEF TellStays, Told
  <2> QED
    BY <1>3, <2>1, <2>2, <2>3, <2>4 DEF Told, Settled, Past
<1>12. MarkersFit(t)'
  BY <1>1, <1>2, <1>3, <1>5 DEF Good, MarkersFit, SameWork
<1> QED
  BY <1>4, <1>5, <1>6, <1>7, <1>8, <1>9, <1>10, <1>11, <1>12 DEF Preserves, Good

\* A request that is refused, or whose agent cannot be built.
LEMMA RefusedKeeps ==
    ASSUME Typed, NEW t \in Turn, Block(t) \/ BuildFails(t) PROVE Preserves(t)
<1>1. TypeOK /\ Good(t) /\ turn \in [Turn -> Local] /\ MemoryFits
  BY DEF Typed, TypeOK
<1>2. /\ turn[t].at = "check" /\ Busy(t) /\ loop = t /\ loop' = NoTurn
      /\ UNCHANGED <<client, pending, reports, memory, activity>>
      /\ faults' \in 0..MaxFaults
  BY <1>1, FaultCounts DEF Block, BuildFails, Works, Busy, Good, HoldsLoop, Holding, Working,
     Release
<1>3. PICK at \in {"blocked", "failed"} :
          /\ Goes(t, at)
          /\ at = "failed" => BuildFails(t)
  BY <1>1, AtGoes DEF Block, BuildFails, Spots, Over
<1>4. ~Finishes(t) /\ ~client[t].saw /\ ~turn[t].traced
  BY <1>1, <1>2 DEF Good, ToldFits, Told, Finished, SaveFits, Early
<1>5. /\ queue' \in [Turn -> Seq(Item)] /\ QueuesStay(t)
      /\ \A i \in DOMAIN queue'[t] : queue'[t][i][2] \subseteq Ids
      /\ at = "failed" => ~Finishes(t)'
  <2>1. <<"done", {}>> \in Item /\ <<"finished", {}>> \in Item
    BY DEF Item
  <2>2. CASE Block(t)
    <3> DEFINE q == <<<<"finished", {}>>, <<"done", {}>>>>
    <3>1. q \in Seq(Item) /\ \A i \in DOMAIN q : q[i][2] = {}
      BY <2>1
    <3>2. queue' = [queue EXCEPT ![t] = q] /\ at = "blocked"
      <4>1. turn'[t].at = "blocked"
        BY <1>1, <2>2, AtGoes DEF Block, Spots, Over, Goes, Lands
      <4> QED
        BY <1>3, <2>2, <4>1 DEF Block, Goes, Lands
    <3> HIDE DEF q
    <3> QED
      BY <1>1, <1>2, <3>1, <3>2 DEF TypeOK, QueuesStay
  <2>3. CASE BuildFails(t)
    <3>1. Queued(t, <<"done", {}>>)
      BY <2>3 DEF BuildFails, Put
    <3> DEFINE item == <<"done", {}>>
    <3>2. item[1] # "finished" /\ item[2] = {} /\ item \in Item /\ Queued(t, item)
      BY <2>1, <3>1
    <3> HIDE DEF item
    <3>3. /\ queue' \in [Turn -> Seq(Item)]
          /\ \A u \in Turn \ {t} : queue'[u] = queue[u]
          /\ \A i \in DOMAIN queue'[t] :
                 queue'[t][i] = item \/ \E j \in DOMAIN queue[t] : queue[t][j] = queue'[t][i]
      BY <1>1, <3>2, QueuedFits
    <3>4. ~Finishes(t)'
      BY <1>4, <3>2, <3>3 DEF Finishes
    <3> QED
      BY <1>1, <1>2, <3>2, <3>3, <3>4 DEF QueuesStay, Good, MarkersFit
  <2> QED
    BY <2>2, <2>3
<1>6. TypeOK'
  BY <1>1, <1>2, <1>3, <1>5 DEF TypeOK, Goes, Lands, ActivityTypeOK
<1>7. Grows /\ Ids' = Ids /\ MemoryFits'
  BY <1>1, <1>2 DEF Grows, Ids, MemoryFits
<1>8. Moved(t)
  BY <1>2, <1>3, <1>5, <1>7 DEF Moved, Goes, Lands, TellStays, Finished
<1>9. HoldsLoop(t)' /\ AloneFits(t)' /\ KnewFits(t)'
  BY <1>3 DEF HoldsLoop, AloneFits, KnewFits, Busy, Goes, Lands, Holding, Working
<1>10. SaveFits(t)' /\ RowFits(t)'
  BY <1>1, <1>2, <1>3, <1>4 DEF Good, SaveFits, RowFits, Goes, Lands, After, Unsettled
<1>11. OwedFits(t)'
  BY <1>1, <1>2, <1>3 DEF Good, OwedFits, Goes, Lands, SameWork, Working
<1>12. ToldFits(t)'
  BY <1>2, <1>3, <1>4, <1>5 DEF ToldFits, Told, Settled, Finished, Goes, Lands
<1>13. MarkersFit(t)'
  BY <1>1, <1>2, <1>3, <1>5, <1>7 DEF Good, MarkersFit, Goes, SameWork
<1> QED
  BY <1>6, <1>7, <1>8, <1>9, <1>10, <1>11, <1>12, <1>13 DEF Preserves, Good

\* A step that may write to Memory, between two places of the handler or of
\* the end of the turn.
LEMMA MemoryKeeps ==
    ASSUME Typed, NEW t \in Turn, NEW at \in Holding \ {"check"},
           turn[t].at \in Holding \ {"check", "idle"}, Lands(t, at), SameWork(t),
           turn'[t].alone = turn[t].alone, turn'[t].knew = turn[t].knew,
           turn'[t].history = turn[t].history, turn'[t].blind = turn[t].blind /\ turn'[t].named = turn[t].named,
           turn[t].at \notin {"drop", "persist"}, at \notin {"drop", "persist"},
           UNCHANGED <<queue, client, pending, reports, activity, loop>>,
           faults' \in 0..MaxFaults, memory' \in Seq(Event), Grows, MemoryFits',
           SaveFits(t)',
           turn[t].at \in Unsettled \/ at \notin Unsettled,
           turn[t].at \in {"question", "mark"} \/ at \notin {"question", "mark"}
    PROVE  Preserves(t)
<1>1. TypeOK /\ Good(t) /\ at \in Working \ {"check"} /\ loop = t
      /\ turn[t].at \in Working \ {"check", "idle"}
  BY DEF Typed, Holding, Good, HoldsLoop
<1>2. TypeOK'
  BY <1>1 DEF TypeOK, Lands, ActivityTypeOK
<1>3. QueuesStay(t) /\ Ids' = Ids
  BY DEF QueuesStay, Ids
<1>4. ~Finishes(t)'
  BY <1>1 DEF Good, ToldFits, Told, Finished, Working, Finishes
<1>5. MarkersFit(t)'
  BY <1>1, <1>3 DEF Good, MarkersFit, SameWork
<1>6. RowFits(t)'
  BY <1>1 DEF Good, RowFits, Lands, Holding, Working
<1>7. OwedFits(t)'
  BY <1>1 DEF Good, OwedFits, Lands, SameWork, Holding, Working
<1> QED
  BY <1>1, <1>2, <1>3, <1>4, <1>5, <1>6, <1>7, WorkKeeps

LEMMA QuestionKeeps ==
    ASSUME Typed, NEW t \in Turn, SaveQuestion(t) PROVE Preserves(t)
<1>1. TypeOK /\ Good(t) /\ turn \in [Turn -> Local] /\ MemoryFits
  BY DEF Typed, TypeOK
<1>2. /\ turn[t].at = "question" /\ faults' \in 0..MaxFaults
      /\ UNCHANGED <<queue, client, pending, reports, activity, loop>>
  BY <1>1, FaultCounts DEF SaveQuestion, Works
<1>3. Goes(t, "mark")
  BY <1>1, AtGoes DEF SaveQuestion, Spots, Working
<1>4. memory' \in Seq(Event) /\ Grows /\ MemoryFits'
  <2> DEFINE e == [turn |-> t, role |-> "user", markers |-> {}]
  <2>1. e \in Event /\ e.markers = {}
    BY DEF Event
  <2>2. CASE Save(e)
    <3> HIDE DEF e
    <3> QED
      BY <1>1, <1>2, <2>1, <2>2, SaveFitsMemory
  <2>3. CASE UNCHANGED memory
    BY <1>1, <1>2, <2>3 DEF TypeOK, Grows, MemoryFits, Ids
  <2> QED
    BY <2>2, <2>3 DEF SaveQuestion
<1>5. SaveFits(t)'
  BY <1>1, <1>2, <1>3 DEF Good, SaveFits, Goes, Lands, Early, After
<1>6. "mark" \in Holding \ {"check"} /\ turn[t].at \in Holding \ {"check", "idle"}
      /\ "mark" \notin Unsettled
  BY <1>2 DEF Holding, Working, Unsettled
<1> QED
  BY <1>2, <1>3, <1>4, <1>5, <1>6, MemoryKeeps DEF Goes, SameKnown

-----------------------------------------------------------------------------
(* The end of a turn                                                       *)

LEMMA AnswerKeeps ==
    ASSUME Typed, NEW t \in Turn, SaveAnswer(t) PROVE Preserves(t)
<1>1. TypeOK /\ Good(t) /\ turn \in [Turn -> Local] /\ MemoryFits
  BY DEF Typed, TypeOK
<1>2. /\ turn[t].at = "answer" /\ faults' \in 0..MaxFaults
      /\ UNCHANGED <<queue, client, pending, reports, activity, loop>>
  BY <1>1, FaultCounts DEF SaveAnswer, Works
<1>3. "title" \in Holding \ {"check"} /\ turn[t].at \in Holding \ {"check", "idle"}
      /\ "title" \notin Unsettled
  BY <1>2 DEF Holding, Working, Unsettled
<1>4. CASE UNCHANGED memory /\ At(t, "title") /\ ~turn[t].traced
  <2>1. Goes(t, "title")
    BY <1>1, <1>4, AtGoes DEF Spots, Working
  <2>2. Grows /\ MemoryFits' /\ memory' \in Seq(Event)
    BY <1>1, <1>2, <1>4 DEF TypeOK, Grows, MemoryFits, Ids
  <2>3. SaveFits(t)'
    BY <1>4, <2>1 DEF SaveFits, Settled, Goes, Lands, Early
  <2> QED
    BY <1>2, <1>3, <2>1, <2>2, <2>3, MemoryKeeps DEF Goes, SameKnown
<1>5. CASE /\ At(t, "title")
           /\ Save([turn |-> t, role |-> "assistant",
                    markers |-> {<<t, title>> : title \in turn[t].announced}])
  <2> DEFINE e == [turn |-> t, role |-> "assistant",
                   markers |-> {<<t, title>> : title \in turn[t].announced}]
  <2>1. e \in Event /\ e.turn = t /\ e.role = "assistant"
    BY <1>1, Fields DEF Event, ReportId
  <2>2. e.markers \subseteq Ids'
    BY <1>1, <1>2 DEF Good, MarkersFit, Ids
  <2>3. Save(e)
    BY <1>5
  <2> HIDE DEF e
  <2>4. memory' \in Seq(Event) /\ Grows /\ MemoryFits'
        /\ \E i \in DOMAIN memory' : memory'[i] = e
    BY <1>1, <1>2, <2>1, <2>2, <2>3, SaveFitsMemory
  <2>5. Remembered(t, "assistant")'
    BY <2>1, <2>4 DEF Remembered, ToSet
  <2>6. Goes(t, "title")
    BY <1>1, <1>5, AtGoes DEF Spots, Working
  <2>7. SaveFits(t)'
    BY <2>5, <2>6 DEF SaveFits, Settled, Goes, Lands, Early
  <2> QED
    BY <1>2, <1>3, <2>4, <2>6, <2>7, MemoryKeeps DEF Goes, SameKnown
<1>6. CASE /\ turn' = [turn EXCEPT ![t].at = "title", ![t].unsaved = TRUE]
           /\ UNCHANGED memory
  <2>1. /\ Lands(t, "title") /\ SameWork(t) /\ turn'[t].alone = turn[t].alone
        /\ turn'[t].knew = turn[t].knew /\ turn'[t].history = turn[t].history
        /\ turn'[t].blind = turn[t].blind /\ turn'[t].named = turn[t].named /\ turn'[t].unsaved = TRUE
    BY <1>1, <1>6, UnsavedLands
  <2>2. Grows /\ MemoryFits' /\ memory' \in Seq(Event)
    BY <1>1, <1>2, <1>6 DEF TypeOK, Grows, MemoryFits, Ids
  <2>3. SaveFits(t)'
    BY <2>1 DEF SaveFits, Settled, Lands, Early
  <2> QED
    BY <1>2, <1>3, <2>1, <2>2, <2>3, MemoryKeeps
<1> QED
  BY <1>4, <1>5, <1>6 DEF SaveAnswer

LEMMA TitleKeeps ==
    ASSUME Typed, NEW t \in Turn, SaveTitle(t) PROVE Preserves(t)
<1>1. TypeOK /\ Good(t) /\ turn \in [Turn -> Local] /\ MemoryFits
  BY DEF Typed, TypeOK
<1>2. /\ turn[t].at = "title" /\ faults' \in 0..MaxFaults
      /\ UNCHANGED <<queue, client, pending, reports, activity, loop>>
  BY <1>1, FaultCounts DEF SaveTitle, Works
<1>3. Goes(t, "last")
  BY <1>1, AtGoes DEF SaveTitle, Spots, Working
<1>4. memory' \in Seq(Event) /\ Grows /\ MemoryFits'
  <2> DEFINE e == [turn |-> t, role |-> "title", markers |-> {}]
  <2>1. e \in Event /\ e.markers = {}
    BY DEF Event
  <2>2. CASE Save(e)
    <3> HIDE DEF e
    <3> QED
      BY <1>1, <1>2, <2>1, <2>2, SaveFitsMemory
  <2>3. CASE UNCHANGED memory
    BY <1>1, <1>2, <2>3 DEF TypeOK, Grows, MemoryFits, Ids
  <2> QED
    BY <2>2, <2>3 DEF SaveTitle
<1>5. SaveFits(t)'
  <2>1. Settled(t)
    BY <1>1, <1>2 DEF Good, SaveFits, After
  <2>2. Settled(t)'
    BY <1>3, <1>4, <2>1, SettledStays DEF Goes, SameKnown
  <2> QED
    BY <1>3, <2>2 DEF SaveFits, Goes, Lands, Early
<1>6. "last" \in Holding \ {"check"} /\ turn[t].at \in Holding \ {"check", "idle"}
      /\ "last" \notin Unsettled
  BY <1>2 DEF Holding, Working, Unsettled
<1> QED
  BY <1>2, <1>3, <1>4, <1>5, <1>6, MemoryKeeps DEF Goes, SameKnown

\* RUN_FINISHED leaves when the answer is saved, or is known to be lost.
LEMMA SendKeeps ==
    ASSUME Typed, NEW t \in Turn, SendFinish(t) PROVE Preserves(t)
<1>1. TypeOK /\ Good(t) /\ turn \in [Turn -> Local] /\ MemoryFits
  BY DEF Typed, TypeOK
<1>2. /\ turn[t].at = "last" /\ Busy(t) /\ loop = t
      /\ UNCHANGED <<client, pending, reports, memory, activity, loop, faults>>
  BY <1>1 DEF SendFinish, Good, HoldsLoop, Holding, Working, Busy
<1>3. Goes(t, "idle")
  BY <1>1, SendLands
<1>4. Grows /\ Ids' = Ids /\ MemoryFits'
  BY <1>1, <1>2 DEF Grows, Ids, MemoryFits
<1>5. /\ queue' \in [Turn -> Seq(Item)] /\ QueuesStay(t)
      /\ \A i \in DOMAIN queue'[t] : queue'[t][i][2] \subseteq Ids
  <2>1. CASE UNCHANGED queue
    BY <1>1, <1>2, <2>1 DEF TypeOK, QueuesStay, Good, MarkersFit
  <2>2. CASE Put(t, "finished")
    <3> DEFINE item == <<"finished", {}>>
    <3>1. item[2] = {} /\ item \in Item /\ Queued(t, item)
      BY <2>2 DEF Put, Item
    <3> HIDE DEF item
    <3>2. /\ queue' \in [Turn -> Seq(Item)]
          /\ \A u \in Turn \ {t} : queue'[u] = queue[u]
          /\ \A i \in DOMAIN queue'[t] :
                 queue'[t][i] = item \/ \E j \in DOMAIN queue[t] : queue[t][j] = queue'[t][i]
      BY <1>1, <3>1, QueuedFits
    <3> QED
      BY <1>1, <1>2, <3>1, <3>2 DEF QueuesStay, Good, MarkersFit
  <2> QED
    BY <2>1, <2>2 DEF SendFinish
<1>6. TypeOK'
  BY <1>1, <1>2, <1>3, <1>5 DEF TypeOK, Goes, Lands, ActivityTypeOK
<1>7. Moved(t)
  BY <1>2, <1>3, <1>4, <1>5 DEF Moved, Goes, Lands, TellStays, Finished
<1>8. Settled(t)'
  <2>1. Settled(t)
    BY <1>1, <1>2 DEF Good, SaveFits, After
  <2> QED
    BY <1>3, <1>4, <2>1, SettledStays DEF Goes, SameKnown
<1>9. HoldsLoop(t)' /\ AloneFits(t)' /\ SaveFits(t)' /\ ToldFits(t)'
  BY <1>1, <1>2, <1>3, <1>8, AloneStays
     DEF Good, HoldsLoop, SaveFits, ToldFits, Told, Finished, Goes, Lands, SameKnown, Early
<1>10. RowFits(t)'
  BY <1>1, <1>2, <1>3 DEF Good, RowFits, Goes, Lands, Unsettled
<1>11. OwedFits(t)'
  BY <1>1, <1>2, <1>3 DEF Good, OwedFits, Goes, Lands, SameWork, SameKnown, Working
<1>12. KnewFits(t)'
  <2>1. turn[t].at \in Working /\ turn[t].at # "check"
    BY <1>2 DEF Working
  <2> QED
    BY <1>1, <1>3, <1>7, <2>1, KnewStays, OthersTell DEF Good, Goes, SameKnown, Moved
<1>13. MarkersFit(t)'
  BY <1>1, <1>2, <1>3, <1>4, <1>5 DEF Good, MarkersFit, Goes, SameWork
<1> QED
  BY <1>4, <1>6, <1>7, <1>9, <1>10, <1>11, <1>12, <1>13 DEF Preserves, Good

LEMMA EndKeeps ==
    ASSUME Typed, NEW t \in Turn, EndTurn(t) PROVE Preserves(t)
<1>1. TypeOK /\ Good(t) /\ turn \in [Turn -> Local] /\ MemoryFits
  BY DEF Typed, TypeOK
<1>2. /\ turn[t].at = "idle" /\ Busy(t) /\ loop = t /\ loop' = NoTurn
      /\ UNCHANGED <<client, pending, reports, memory>> /\ faults' \in 0..MaxFaults
  BY <1>1, FaultCounts
     DEF EndTurn, Good, HoldsLoop, Holding, Working, Busy, Release, Written, Works
<1>3. /\ Lands(t, "ended")
      /\ turn'[t].traced = turn[t].traced /\ turn'[t].unsaved = turn[t].unsaved
      /\ turn'[t].alone = turn[t].alone
      /\ turn'[t].owed = {} /\ turn'[t].announced = {}
  BY <1>1, EndLands
<1>4. Grows /\ Ids' = Ids /\ MemoryFits'
  BY <1>1, <1>2 DEF Grows, Ids, MemoryFits
<1>5. ActivityTypeOK' /\ activity'.run = activity.run
  <2>1. MarkIdle \/ UNCHANGED activity
    BY DEF EndTurn, Written
  <2> QED
    BY <1>1, <2>1 DEF TypeOK, ActivityTypeOK, ActivityRow, MarkIdle
<1>6. /\ queue' \in [Turn -> Seq(Item)] /\ QueuesStay(t)
      /\ \A i \in DOMAIN queue'[t] : queue'[t][i][2] \subseteq Ids
      /\ Finishes(t)' => Finishes(t)
  <2> DEFINE item == <<"done", {}>>
  <2>1. item[1] # "finished" /\ item[2] = {} /\ item \in Item /\ Queued(t, item)
    BY DEF EndTurn, Put, Item
  <2> HIDE DEF item
  <2>2. /\ queue' \in [Turn -> Seq(Item)]
        /\ \A u \in Turn \ {t} : queue'[u] = queue[u]
        /\ \A i \in DOMAIN queue'[t] :
               queue'[t][i] = item \/ \E j \in DOMAIN queue[t] : queue[t][j] = queue'[t][i]
    BY <1>1, <2>1, QueuedFits
  <2>3. Finishes(t)' => Finishes(t)
    BY <2>1, <2>2 DEF Finishes
  <2> QED
    BY <1>1, <1>2, <2>1, <2>2, <2>3 DEF QueuesStay, Good, MarkersFit
<1>7. TypeOK'
  BY <1>1, <1>2, <1>3, <1>5, <1>6 DEF TypeOK, Lands
<1>8. Moved(t)
  BY <1>2, <1>3, <1>4, <1>5, <1>6 DEF Moved, Lands, TellStays, Finished
<1>9. Settled(t)'
  <2>1. Settled(t)
    BY <1>1, <1>2 DEF Good, SaveFits, After
  <2> QED
    BY <1>3, <1>4, <2>1, SettledStays
<1>10. HoldsLoop(t)' /\ AloneFits(t)' /\ KnewFits(t)'
  BY <1>3 DEF HoldsLoop, AloneFits, KnewFits, Busy, Lands, Holding, Working
<1>11. SaveFits(t)' /\ ToldFits(t)'
  BY <1>3, <1>9 DEF SaveFits, ToldFits, Told, Finished, Lands, Early
<1>12. RowFits(t)' /\ OwedFits(t)'
  BY <1>3 DEF RowFits, OwedFits, Lands, Unsettled, Working
<1>13. MarkersFit(t)'
  BY <1>1, <1>2, <1>3, <1>4, <1>6 DEF Good, MarkersFit
<1> QED
  BY <1>4, <1>7, <1>8, <1>10, <1>11, <1>12, <1>13 DEF Preserves, Good

LEMMA StepKeeps ==
    ASSUME Typed, NEW t \in Turn, Step(t) PROVE Typed'
<1>1. Busy(t)
  BY DEF Busy, Working, Step, Handler, Agent, Artifacts, Ending, Block, Build, BuildFails,
         SaveQuestion, Start, Text, LegacyArtifact, CallTool, Streaming, Finish, End, Raise,
         ToolReturns, Drain, Drop, Persist, Persisted, MarkFailed, SaveAnswer, SaveTitle,
         SendFinish, EndTurn
<1>2. CASE Handler(t)
  BY <1>2, BuildKeeps, RefusedKeeps, QuestionKeeps, StartKeeps, <1>1, StepTyped DEF Handler
<1>3. CASE Agent(t)
  BY <1>3, TextKeeps, LegacyKeeps, CallKeeps, FinishKeeps, <1>1, StepTyped DEF Agent
<1>4. CASE ToolReturns(t)
  BY <1>4, ReturnKeeps, <1>1, StepTyped
<1>5. CASE Artifacts(t)
  BY <1>5, DrainKeeps, DropKeeps, PersistKeeps, PersistedKeeps, <1>1, StepTyped DEF Artifacts
<1>6. CASE Ending(t)
  BY <1>6, FailedKeeps, AnswerKeeps, TitleKeeps, SendKeeps, EndKeeps, <1>1, StepTyped
     DEF Ending
<1> QED
  BY <1>2, <1>3, <1>4, <1>5, <1>6 DEF Step

-----------------------------------------------------------------------------
(* Around the turns                                                        *)

\* A step that leaves the turns, Memory and the reports alone.
LEMMA AroundKeeps ==
    ASSUME Typed, UNCHANGED <<turn, reports, memory, loop>>, TypeOK',
           activity'.run = activity.run,
           activity'.status = "idle" => activity.status = "idle",
           Titles(pending) \subseteq Titles(pending'),
           \A t \in Turn : client'[t].saw \/ Finishes(t)' => client[t].saw \/ Finishes(t),
           \A t \in Turn : MarkersFit(t)'
    PROVE  Typed'
<1>1. Grows /\ Ids' = Ids /\ MemoryFits'
  BY DEF Typed, Grows, Ids, MemoryFits
<1>2. ASSUME NEW t \in Turn PROVE Good(t)'
  <2>1. Good(t)
    BY DEF Typed
  <2>2. HoldsLoop(t)' /\ AloneFits(t)' /\ SaveFits(t)'
    BY <2>1 DEF Good, HoldsLoop, AloneFits, Busy, SaveFits, Settled, Remembered
  <2>3. RowFits(t)'
    BY <2>1 DEF Good, RowFits
  <2>4. OwedFits(t)'
    BY <2>1 DEF Good, OwedFits
  <2>5. ToldFits(t)' /\ KnewFits(t)'
    BY <2>1 DEF Good, ToldFits, Told, KnewFits, Settled, Remembered
  <2> QED
    BY <2>2, <2>3, <2>4, <2>5 DEF Good
<1> QED
  BY <1>1, <1>2 DEF Typed

LEMMA ReceiveKeeps ==
    ASSUME Typed, NEW t \in Turn, Receive(t) PROVE Typed'
<1> DEFINE item == Head(queue[t])
           rest == IF item[1] = "finished" THEN <<>> ELSE Tail(queue[t])
           state == IF item[1] \in {"finished", "done"} THEN "closed" ELSE client[t].state
           saw == client[t].saw \/ item[1] = "finished"
           markers == client[t].markers \cup item[2]
           c == [client[t] EXCEPT !.state = state, !.saw = saw, !.markers = markers]
<1>1. /\ TypeOK /\ Good(t) /\ queue[t] \in Seq(Item) /\ queue[t] # <<>>
      /\ UNCHANGED <<turn, pending, reports, memory, activity, loop, faults>>
      /\ client[t] \in [state : {"reading", "closed", "gone"}, saw : BOOLEAN,
                        markers : SUBSET ReportId]
  BY DEF Typed, TypeOK, Receive
<1>2. queue' = [queue EXCEPT ![t] = rest] /\ client' = [client EXCEPT ![t] = c]
  BY DEF Receive
<1>3. /\ item \in Item /\ Tail(queue[t]) \in Seq(Item)
      /\ \E j \in DOMAIN queue[t] : queue[t][j] = item
      /\ \A i \in DOMAIN Tail(queue[t]) : \E j \in DOMAIN queue[t] : queue[t][j] = Tail(queue[t])[i]
  BY <1>1, Tailed
<1>4. item[2] \in SUBSET ReportId
  BY <1>3 DEF Item
<1>5. /\ rest \in Seq(Item)
      /\ \A i \in DOMAIN rest : \E j \in DOMAIN queue[t] : queue[t][j] = rest[i]
  BY <1>3
<1>6. state \in {"reading", "closed", "gone"} /\ saw \in BOOLEAN /\ markers \in SUBSET ReportId
  BY <1>1, <1>4
<1> HIDE DEF state, saw, markers, rest
<1>7. /\ c \in [state : {"reading", "closed", "gone"}, saw : BOOLEAN, markers : SUBSET ReportId]
      /\ c.saw = saw /\ c.markers = markers
  BY <1>1, <1>6
<1> HIDE DEF c
<1>8. TypeOK'
  BY <1>1, <1>2, <1>5, <1>7 DEF TypeOK, ActivityTypeOK
<1>9. /\ queue'[t] = rest /\ client'[t] = c
      /\ \A u \in Turn \ {t} : queue'[u] = queue[u] /\ client'[u] = client[u]
  BY <1>1, <1>2 DEF TypeOK
<1>10. client'[t].saw \/ Finishes(t)' => client[t].saw \/ Finishes(t)
  <2>1. saw => client[t].saw \/ Finishes(t)
    BY <1>3 DEF saw, Finishes
  <2>2. Finishes(t)' => Finishes(t)
    BY <1>5, <1>9 DEF Finishes
  <2> QED
    BY <1>7, <1>9, <2>1, <2>2
<1>11. Ids' = Ids
  BY <1>1 DEF Ids
<1>12. ASSUME NEW u \in Turn PROVE MarkersFit(u)'
  <2>1. CASE u = t
    <3>1. item[2] \subseteq Ids
      BY <1>1, <1>3 DEF Good, MarkersFit
    <3>2. c.markers \subseteq Ids
      BY <1>1, <1>7, <3>1 DEF markers, Good, MarkersFit
    <3>3. \A i \in DOMAIN rest : rest[i][2] \subseteq Ids
      BY <1>1, <1>5 DEF Good, MarkersFit
    <3> QED
      BY <1>1, <1>9, <1>11, <2>1, <3>2, <3>3 DEF Good, MarkersFit
  <2>2. CASE u # t
    BY <1>1, <1>9, <1>11, <2>2 DEF Typed, Good, MarkersFit
  <2> QED
    BY <2>1, <2>2
<1>13. ASSUME NEW u \in Turn
       PROVE  client'[u].saw \/ Finishes(u)' => client[u].saw \/ Finishes(u)
  BY <1>9, <1>10 DEF Finishes
<1> QED
  BY <1>1, <1>8, <1>12, <1>13, AroundKeeps

LEMMA DisconnectKeeps ==
    ASSUME Typed, NEW t \in Turn, Disconnect(t) PROVE Typed'
<1> DEFINE c == [client[t] EXCEPT !.state = "gone"]
<1>1. /\ TypeOK /\ \A u \in Turn : Good(u)
      /\ UNCHANGED <<turn, pending, reports, memory, activity, loop, faults>>
      /\ client[t] \in [state : {"reading", "closed", "gone"}, saw : BOOLEAN,
                        markers : SUBSET ReportId]
  BY DEF Typed, TypeOK, Disconnect
<1>2. queue' = [queue EXCEPT ![t] = <<>>] /\ client' = [client EXCEPT ![t] = c]
  BY DEF Disconnect
<1>3. /\ c \in [state : {"reading", "closed", "gone"}, saw : BOOLEAN, markers : SUBSET ReportId]
      /\ c.saw = client[t].saw /\ c.markers = client[t].markers
  BY <1>1
<1> HIDE DEF c
<1>4. TypeOK'
  BY <1>1, <1>2, <1>3 DEF TypeOK, ActivityTypeOK
<1>5. /\ \A u \in Turn : client'[u].saw = client[u].saw /\ client'[u].markers = client[u].markers
      /\ \A u \in Turn : queue'[u] = queue[u] \/ queue'[u] = <<>>
  BY <1>1, <1>2, <1>3 DEF TypeOK
<1>6. ASSUME NEW u \in Turn
      PROVE  /\ MarkersFit(u)'
             /\ client'[u].saw \/ Finishes(u)' => client[u].saw \/ Finishes(u)
  <2>1. Good(u) /\ client'[u].saw = client[u].saw /\ client'[u].markers = client[u].markers
    BY <1>1, <1>5
  <2>2. CASE queue'[u] = queue[u]
    BY <1>1, <2>1, <2>2 DEF Good, MarkersFit, Finishes, Ids
  <2>3. CASE queue'[u] = <<>>
    <3>1. ~\E i : i \in DOMAIN queue'[u]
      BY <2>3
    <3>2. ~Finishes(u)'
      BY <3>1 DEF Finishes
    <3>3. MarkersFit(u)'
      BY <1>1, <2>1, <3>1 DEF Good, MarkersFit, Ids
    <3> QED
      BY <3>2, <3>3, <2>1
  <2> QED
    BY <1>5, <2>2, <2>3
<1> QED
  BY <1>1, <1>4, <1>6, AroundKeeps

LEMMA QueuesKeep ==
    ASSUME Typed, ReportQueues PROVE Typed'
<1>1. /\ TypeOK /\ (\A u \in Turn : Good(u)) /\ pending \in Seq(Artifact)
      /\ UNCHANGED <<turn, queue, client, reports, memory, activity, loop>>
  BY DEF Typed, TypeOK, ReportQueues
<1>2. PICK title \in Title : pending' = Append(pending, [owner |-> NoTurn, title |-> title])
  BY DEF ReportQueues
<1>3. [owner |-> NoTurn, title |-> title] \in Artifact
  BY DEF Artifact
<1>4. /\ pending' \in Seq(Artifact)
      /\ \A i \in DOMAIN pending : i \in DOMAIN pending' /\ pending'[i] = pending[i]
  BY <1>1, <1>2, <1>3, Appended
<1>5. Titles(pending) \subseteq Titles(pending')
  BY <1>4 DEF Titles
<1>6. faults' \in 0..MaxFaults
  BY <1>1, FaultCounts DEF ReportQueues
<1>7. TypeOK'
  BY <1>1, <1>4, <1>6 DEF TypeOK, ActivityTypeOK
<1>8. ASSUME NEW u \in Turn
      PROVE  /\ MarkersFit(u)'
             /\ client'[u].saw \/ Finishes(u)' => client[u].saw \/ Finishes(u)
  BY <1>1 DEF Good, MarkersFit, Finishes, Ids
<1> QED
  BY <1>1, <1>5, <1>7, <1>8, AroundKeeps

LEMMA AgingKeeps ==
    ASSUME Typed, Aging PROVE Typed'
<1>1. /\ TypeOK /\ (\A u \in Turn : Good(u))
      /\ UNCHANGED <<turn, queue, client, pending, reports, memory, loop, faults>>
  BY DEF Typed, Aging
<1>2. ActivityTypeOK' /\ activity'.run = activity.run /\ activity'.status = activity.status
  BY <1>1 DEF Aging, GoStale, TypeOK, ActivityTypeOK, ActivityRow
<1>3. TypeOK'
  BY <1>1, <1>2 DEF TypeOK
<1>4. ASSUME NEW u \in Turn
      PROVE  /\ MarkersFit(u)'
             /\ client'[u].saw \/ Finishes(u)' => client[u].saw \/ Finishes(u)
  BY <1>1 DEF Good, MarkersFit, Finishes, Ids
<1> QED
  BY <1>1, <1>2, <1>3, <1>4, AroundKeeps

\* The container is stopped: the turns that worked are lost.
LEMMA CrashKeeps ==
    ASSUME Typed, Crash PROVE Typed'
<1>1. /\ TypeOK /\ turn \in [Turn -> Local] /\ \A u \in Turn : Good(u)
      /\ pending' = <<>> /\ loop' = NoTurn /\ UNCHANGED <<reports, memory, activity>>
      /\ queue' = [t \in Turn |-> <<>>]
  BY DEF Typed, TypeOK, Crash, Release
<1>2. /\ turn' \in [Turn -> Local]
      /\ \A t \in Turn :
             /\ turn'[t].traced = turn[t].traced /\ turn'[t].unsaved = turn[t].unsaved
             /\ turn'[t].alone = turn[t].alone
             /\ \/ /\ turn'[t].at = "lost" /\ Busy(t)
                   /\ turn'[t].owed = {} /\ turn'[t].announced = {}
                \/ turn'[t] = turn[t] /\ ~Busy(t)
  BY <1>1, CrashLands
<1>3. /\ client' \in [Turn -> [state : {"reading", "closed", "gone"}, saw : BOOLEAN,
                               markers : SUBSET ReportId]]
      /\ \A t \in Turn : client'[t].saw = client[t].saw /\ client'[t].markers = client[t].markers
  <2> DEFINE c(t) == [client[t] EXCEPT !.state = "closed"]
  <2>1. \A t \in Turn : client[t] \in [state : {"reading", "closed", "gone"}, saw : BOOLEAN,
                                       markers : SUBSET ReportId]
    BY <1>1 DEF TypeOK
  <2>2. client' = [t \in Turn |-> IF turn[t].at # "new" /\ client[t].state = "reading"
                                  THEN c(t) ELSE client[t]]
    BY DEF Crash
  <2>3. \A t \in Turn :
            /\ c(t) \in [state : {"reading", "closed", "gone"}, saw : BOOLEAN,
                         markers : SUBSET ReportId]
            /\ c(t).saw = client[t].saw /\ c(t).markers = client[t].markers
    BY <2>1
  <2> HIDE DEF c
  <2> QED
    BY <2>1, <2>2, <2>3
<1>4. faults' \in 0..MaxFaults
  BY <1>1, FaultCounts DEF Crash
<1>5. TypeOK'
  BY <1>1, <1>2, <1>3, <1>4 DEF TypeOK, ActivityTypeOK
<1>6. Grows /\ Ids' = Ids /\ MemoryFits'
  BY <1>1 DEF Typed, Grows, Ids, MemoryFits
<1>7. ASSUME NEW t \in Turn PROVE Good(t)'
  <2>1. Good(t) /\ turn'[t].at \notin Working
        /\ (turn'[t].at = "lost" \/ turn'[t].at = turn[t].at)
    BY <1>1, <1>2 DEF Busy, Working
  <2>2. HoldsLoop(t)' /\ AloneFits(t)' /\ KnewFits(t)'
    BY <2>1 DEF HoldsLoop, AloneFits, KnewFits, Busy, Holding
  <2>3. SaveFits(t)'
    BY <1>2, <1>6, <2>1, SettledStays DEF Good, SaveFits, Early, After
  <2>4. RowFits(t)'
    BY <1>1, <1>2, <2>1 DEF Good, RowFits, Unsettled
  <2>5. OwedFits(t)'
    BY <1>2, <2>1 DEF Good, OwedFits, Working
  <2>6. ToldFits(t)'
    <3>1. ~Finishes(t)'
      BY <1>1 DEF Finishes
    <3>2. Told(t) => Told(t)'
      BY <1>2, <1>6, <2>1, SettledStays DEF Told, Finished
    <3> QED
      BY <1>3, <2>1, <3>1, <3>2 DEF Good, ToldFits
  <2>7. MarkersFit(t)'
    BY <1>1, <1>2, <1>3, <1>6, <2>1 DEF Good, MarkersFit
  <2> QED
    BY <2>2, <2>3, <2>4, <2>5, <2>6, <2>7 DEF Good
<1> QED
  BY <1>5, <1>6, <1>7 DEF Typed

\* What the user has seen finished is settled: the next question starts there.
LEMMA AskKeeps ==
    ASSUME Typed, NEW t \in Turn, Ask(t) PROVE Typed'
<1>1. /\ TypeOK /\ turn \in [Turn -> Local] /\ (\A u \in Turn : Good(u))
      /\ turn[t].at = "new" /\ loop = NoTurn /\ loop' = t
      /\ UNCHANGED <<queue, client, pending, reports, memory, activity, faults>>
  BY DEF Typed, TypeOK, Ask, Free, Hold
<1>2. /\ turn' \in [Turn -> Local] /\ turn'[t].at = "check"
      /\ turn'[t].knew = {v \in Turn : client[v].saw} /\ SameWork(t)
      /\ turn'[t].traced = turn[t].traced /\ turn'[t].unsaved = turn[t].unsaved
      /\ turn'[t].alone => \A u \in Turn : ~Busy(u)
      /\ \A u \in Turn \ {t} :
             /\ turn'[u].at = turn[u].at
             /\ turn'[u].tool = turn[u].tool /\ turn'[u].todo = turn[u].todo
             /\ turn'[u].owed = turn[u].owed
             /\ turn'[u].announced = turn[u].announced
             /\ turn'[u].traced = turn[u].traced /\ turn'[u].unsaved = turn[u].unsaved
             /\ turn'[u].knew = turn[u].knew
             /\ turn'[u].history = turn[u].history /\ turn'[u].blind = turn[u].blind /\ turn'[u].named = turn[u].named
             /\ turn'[u].alone => turn[u].alone /\ ~Busy(u)
  BY <1>1, AskLands
<1>3. TypeOK'
  BY <1>1, <1>2 DEF TypeOK, ActivityTypeOK
<1>4. Grows /\ Ids' = Ids /\ MemoryFits'
  BY <1>1 DEF Typed, Grows, Ids, MemoryFits
<1>5. \A u \in Turn : TellStays(u)
  BY <1>1, <1>2 DEF TellStays, Finished
<1>6. Good(t)'
  <2>1. Good(t)
    BY <1>1
  <2>2. HoldsLoop(t)' /\ SaveFits(t)'
    BY <1>1, <1>2, <2>1 DEF Good, HoldsLoop, SaveFits, Early, After
  <2>3. AloneFits(t)'
    BY <1>2 DEF AloneFits, Busy
  <2>4. RowFits(t)'
    BY <1>1, <2>1 DEF Good, RowFits
  <2>5. OwedFits(t)'
    BY <1>1, <1>2, <2>1 DEF OwedFits, Good, SameWork, Working
  <2>6. ToldFits(t)'
    BY <1>1, <2>1 DEF Good, ToldFits, Told, Finished, Finishes
  <2>7. KnewFits(t)'
    <3> SUFFICES ASSUME NEW u \in Turn, client[u].saw PROVE Told(u)'
      BY <1>2 DEF KnewFits
    <3> QED
      BY <1>1, <1>4, <1>5, ToldStays DEF Good, ToldFits
  <2>8. MarkersFit(t)'
    BY <1>1, <1>2, <1>4, <2>1 DEF Good, MarkersFit, SameWork
  <2> QED
    BY <2>2, <2>3, <2>4, <2>5, <2>6, <2>7, <2>8 DEF Good
<1>7. ASSUME NEW u \in Turn, u # t PROVE Good(u)'
  <2>1. Good(u) /\ TellStays(u)
    BY <1>1, <1>5
  <2>10. /\ turn'[u].at = turn[u].at
         /\ turn'[u].tool = turn[u].tool /\ turn'[u].todo = turn[u].todo
         /\ turn'[u].owed = turn[u].owed
         /\ turn'[u].announced = turn[u].announced
         /\ turn'[u].traced = turn[u].traced /\ turn'[u].unsaved = turn[u].unsaved
         /\ turn'[u].knew = turn[u].knew
         /\ turn'[u].history = turn[u].history /\ turn'[u].blind = turn[u].blind /\ turn'[u].named = turn[u].named
         /\ turn'[u].alone => turn[u].alone /\ ~Busy(u)
    BY <1>2, <1>7
  <2>2. HoldsLoop(u)'
    BY <1>1, <1>2, <2>1 DEF Good, HoldsLoop, Turn, NoTurn
  <2>3. SaveFits(u)'
    BY <2>10, <1>4, <2>1, SettledStays DEF Good, SaveFits
  <2>4. AloneFits(u)'
    BY <1>2, <2>1 DEF AloneFits, Busy
  <2>5. RowFits(u)'
    BY <1>1, <2>10, <2>1 DEF Good, RowFits
  <2>6. OwedFits(u)'
    BY <1>1, <2>10, <2>1 DEF Good, OwedFits
  <2>7. ToldFits(u)'
    BY <1>1, <1>4, <2>1, ToldStays DEF Good, ToldFits, Finishes
  <2>8. KnewFits(u)'
    BY <1>1, <2>10, <1>4, <1>5, <2>1, KnewStays DEF Good
  <2>9. MarkersFit(u)'
    BY <1>1, <2>10, <1>4, <2>1 DEF Good, MarkersFit
  <2> QED
    BY <2>2, <2>3, <2>4, <2>5, <2>6, <2>7, <2>8, <2>9 DEF Good
<1> QED
  BY <1>3, <1>4, <1>6, <1>7 DEF Typed

-----------------------------------------------------------------------------
(* Init, Next                                                              *)

LEMMA InitKeeps ==
    Init => Typed
<1> SUFFICES ASSUME Init PROVE Typed
  OBVIOUS
<1>1. Fresh \in Local /\ Fresh.at = "new" /\ Fresh.owed = {} /\ Fresh.announced = {}
      /\ Fresh.traced = FALSE
  <2>1. 0 \in 0..MaxEvents /\ <<>> \in Seq(Artifact)
    BY ChatAssumption, SMT DEF ChatAssumption
  <2> QED
    BY <2>1 DEF Fresh, Local
<1>2. /\ \A t \in Turn : turn[t] = Fresh /\ queue[t] = <<>>
             /\ client[t].saw = FALSE /\ client[t].markers = {}
      /\ memory = <<>> /\ activity.run = NoTurn /\ loop = NoTurn
  BY DEF Init, ActivityInit
<1>3. TypeOK
  <2>1. ActivityTypeOK
    BY DEF Init, ActivityInit, ActivityTypeOK, ActivityRow
  <2>2. faults \in 0..MaxFaults
    BY ChatAssumption, SMT DEF ChatAssumption, Init
  <2> HIDE DEF Fresh
  <2> QED
    BY <1>1, <2>1, <2>2 DEF Init, TypeOK
<1>4. ~\E i : i \in DOMAIN <<>>
  OBVIOUS
<1>5. ASSUME NEW t \in Turn PROVE Good(t)
  <2>1. /\ turn[t].at = "new" /\ turn[t].owed = {} /\ turn[t].announced = {}
        /\ turn[t].traced = FALSE
    BY <1>1, <1>2
  <2>2. t # NoTurn
    BY SMT DEF Turn, NoTurn
  <2>3. HoldsLoop(t) /\ AloneFits(t) /\ SaveFits(t) /\ OwedFits(t) /\ KnewFits(t)
    BY <2>1 DEF HoldsLoop, AloneFits, SaveFits, OwedFits, KnewFits, Busy, Holding,
                Working, After
  <2>4. RowFits(t)
    BY <1>2, <2>2 DEF RowFits
  <2>5. ~Finishes(t)
    BY <1>2, <1>4 DEF Finishes
  <2>6. ToldFits(t) /\ MarkersFit(t)
    BY <1>2, <1>4, <2>1, <2>5 DEF ToldFits, MarkersFit
  <2> QED
    BY <2>3, <2>4, <2>6 DEF Good
<1>6. MemoryFits
  BY <1>2, <1>4 DEF MemoryFits
<1> QED
  BY <1>3, <1>5, <1>6 DEF Typed

LEMMA NextKeeps ==
    Typed /\ [Next]_vars => Typed'
<1> SUFFICES ASSUME Typed, [Next]_vars PROVE Typed'
  OBVIOUS
<1>1. CASE \E t \in Turn : Ask(t)
  BY <1>1, AskKeeps
<1>2. CASE \E t \in Turn : Step(t)
  BY <1>2, StepKeeps
<1>3. CASE \E t \in Turn : Receive(t)
  BY <1>3, ReceiveKeeps
<1>4. CASE \E t \in Turn : Disconnect(t)
  BY <1>4, DisconnectKeeps
<1>5. CASE ReportQueues \/ Aging \/ Crash
  BY <1>5, QueuesKeep, AgingKeeps, CrashKeeps
<1>6. CASE UNCHANGED vars
  <2>1. TypeOK' /\ MemoryFits' /\ Titles(pending) \subseteq Titles(pending')
    BY <1>6 DEF Typed, TypeOK, ActivityTypeOK, MemoryFits, Ids, vars
  <2>2. ASSUME NEW t \in Turn
        PROVE  /\ MarkersFit(t)'
               /\ client'[t].saw \/ Finishes(t)' => client[t].saw \/ Finishes(t)
    BY <1>6 DEF Typed, Good, MarkersFit, Finishes, Ids, vars
  <2> QED
    BY <1>6, <2>1, <2>2, AroundKeeps DEF vars
<1> QED
  BY <1>1, <1>2, <1>3, <1>4, <1>5, <1>6 DEF Next

-----------------------------------------------------------------------------
(* Theorems                                                                *)

\* The inductive invariant: the turns, their queues, Memory, the reports and
\* the activity row fit each other in every state (_producer and its finally
\* block, whatever the browser, the tools and the container do meanwhile).
THEOREM TurnsKeep == Spec => []IInv
<1>1. Typed <=> IInv
  BY DEF Typed, IInv
<1>2. Init => IInv
  BY <1>1, InitKeeps
<1>3. IInv /\ [Next]_vars => IInv'
  <2>1. Typed' <=> IInv'
    BY DEF Typed, IInv
  <2> QED
    BY <1>1, <2>1, NextKeeps
<1> QED
  BY <1>2, <1>3, PTL DEF Spec

\* A marker the browser has, or will find in Memory, leads to a report: it is
\* announced only once its row is written (_persist_cfn_artifact_as_report).
THEOREM MarkersLead == Spec => []MarkersResolve
<1>1. IInv => MarkersResolve
  <2> SUFFICES ASSUME IInv,
                      NEW id \in (UNION {client[t].markers : t \in Turn})
                                 \cup (UNION {e.markers : e \in ToSet(memory)})
               PROVE  id \in Ids
    BY DEF MarkersResolve, Ids
  <2>1. CASE id \in UNION {client[t].markers : t \in Turn}
    BY <2>1 DEF IInv, Good, MarkersFit
  <2>2. CASE id \in UNION {e.markers : e \in ToSet(memory)}
    <3>1. PICK i \in DOMAIN memory : id \in memory[i].markers
      BY <2>2 DEF ToSet
    <3> QED
      BY <3>1 DEF IInv, MemoryFits
  <2> QED
    BY <2>1, <2>2
<1> QED
  BY <1>1, TurnsKeep, PTL

\* Where the row of a turn is idle, its answer is saved or known to be lost
\* (the finally block saves first and marks the thread idle last).
THEOREM IdleRowsAreSaved == Spec => []IdleMeansSaved
<1>1. IInv => IdleMeansSaved
  <2> SUFFICES ASSUME IInv, NEW t \in Turn,
                      activity.status = "idle", activity.run = t, turn[t].alone
               PROVE  Settled(t) \/ turn[t].at = "lost"
    BY DEF IdleMeansSaved, Settled
  <2>1. Good(t) /\ turn[t].at \in Spots
    BY Fields DEF IInv, TypeOK
  <2>2. turn[t].at \notin {"new", "check", "question", "mark"} \cup Unsettled
    BY <2>1 DEF Good, RowFits
  <2>3. turn[t].at \in {"blocked", "failed"} \cup After \cup {"lost"}
    BY <2>1, <2>2 DEF Spots, Working, Over, Unsettled, After
  <2> QED
    BY <2>1, <2>3 DEF Good, SaveFits, Early, Settled
<1> QED
  BY <1>1, TurnsKeep, PTL

\* A turn alone in its container ends with nothing left to announce: what its
\* tools queued is drained and persisted at TOOL_CALL_RESULT.
THEOREM TemplatesAreAnnounced == Spec => []ArtifactsAnnounced
<1>1. IInv => ArtifactsAnnounced
  BY DEF IInv, Good, OwedFits, ArtifactsAnnounced, Working
<1> QED
  BY <1>1, TurnsKeep, PTL

\* The agent of a follow-up whose browser sent the actor of its token has the
\* answers of the turns its user had seen finish: RUN_FINISHED is held back
\* until the answer is saved.
THEOREM FollowUpsSeeAnswers == Spec => []FollowUpSeesAnswer
<1>1. IInv => FollowUpSeesAnswer
  BY DEF IInv, Good, KnewFits, FollowUpSeesAnswer, Answers
<1> QED
  BY <1>1, TurnsKeep, PTL
=============================================================================
