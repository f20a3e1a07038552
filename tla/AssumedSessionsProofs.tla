----------------------- MODULE AssumedSessionsProofs -----------------------
(***************************************************************************)
(* The refresh margin does what it is for, for any number of threads and   *)
(* any duration, margin and timeout that satisfy MarginFits.               *)
(***************************************************************************)
EXTENDS AssumedSessions, TLAPS

\* Credentials that are about to be stored or used outlast the invocation: what
\* is left of them and the age of the invocation exceed the margin together.
Outlasts(t) ==
    call.at[t] \in {"store", "client"} =>
        call.running /\ call.left[t] + call.age > Margin

\* The inductive invariant: ClientsOutlive alone says nothing of the sessions
\* that are still to be stored, nor of how long they have to last.
SessionInv == SessionTypeOK /\ \A t \in Thread : Outlasts(t)

\* No call goes on in a container at its start.
LEMMA SessionInit == ASSUME MarginFits PROVE Init => SessionInv
<1> SUFFICES ASSUME Init PROVE SessionInv
  OBVIOUS
<1>1. call \in Call
  BY SMT DEF Init, Fresh, Call, Place, MarginFits
<1>2. \A t \in Thread : call.at[t] = "done"
  BY DEF Init, Fresh
<1> QED
  BY <1>1, <1>2, SMT DEF SessionInv, SessionTypeOK, Outlasts, Init

\* A thread that goes to a place with the credentials it may have there.
LEMMA GoKeeps ==
    ASSUME MarginFits, SessionInv, NEW t \in Thread, NEW place \in Place,
           NEW left \in 0..Duration, Go(t, place, left), cache' \in 0..Duration,
           place \in {"store", "client"} => call.running /\ left + call.age > Margin
    PROVE  SessionInv'
<1>1. call \in Call
  BY DEF SessionInv, SessionTypeOK
<1>2. /\ call'.running = call.running /\ call'.age = call.age
      /\ call'.at = [call.at EXCEPT ![t] = place]
      /\ call'.left = [call.left EXCEPT ![t] = left]
  BY <1>1, SMT DEF Go, Call
<1>3. call' \in Call
  <2> DEFINE places == [call.at EXCEPT ![t] = place]
             lefts == [call.left EXCEPT ![t] = left]
  <2>1. call' = [call EXCEPT !.at = places, !.left = lefts]
    BY <1>1, SMT DEF Go, Call
  <2>2. places \in [Thread -> Place]
    BY <1>1 DEF Call
  <2>3. lefts \in [Thread -> 0..Duration]
    BY <1>1 DEF Call
  <2> HIDE DEF places, lefts
  <2> QED
    BY <1>1, <2>1, <2>2, <2>3 DEF Call
<1>4. ASSUME NEW u \in Thread PROVE Outlasts(u)'
  <2>1. CASE u = t
    BY <1>1, <1>2, <2>1, SMT DEF Outlasts, Call
  <2>2. CASE u # t
    <3>1. call'.at[u] = call.at[u] /\ call'.left[u] = call.left[u]
      BY <1>1, <1>2, <2>2, SMT DEF Call
    <3> QED
      BY <1>2, <3>1, SMT DEF Outlasts, SessionInv
  <2> QED
    BY <2>1, <2>2
<1> QED
  BY <1>3, <1>4 DEF SessionInv, SessionTypeOK

\* Time takes as much from what is left as it adds to the age.
LEMMA TickKeeps == ASSUME MarginFits, SessionInv, Tick PROVE SessionInv'
<1>1. call \in Call /\ cache \in 0..Duration
  BY DEF SessionInv, SessionTypeOK
<1>2. ASSUME NEW left \in 0..Duration
      PROVE  Less(left) \in 0..Duration /\ (left > 0 => Less(left) = left - 1)
  BY <1>2, SMT DEF Less, MarginFits
<1>3. /\ call'.running = call.running /\ call'.at = call.at
      /\ call'.age = IF call.running THEN call.age + 1 ELSE call.age
      /\ call'.left = [t \in Thread |-> Less(call.left[t])]
  BY <1>1, SMT DEF Tick, Call
<1>4. call'.age \in 0..Timeout
  BY <1>1, <1>3, SMT DEF Tick, Call, MarginFits
<1>5. call'.left \in [Thread -> 0..Duration]
  BY <1>1, <1>2, <1>3 DEF Call
<1>6. call' \in Call
  <2> DEFINE lefts == [t \in Thread |-> Less(call.left[t])]
             age == IF call.running THEN call.age + 1 ELSE call.age
  <2>1. call' = [call EXCEPT !.age = age, !.left = lefts]
    BY <1>1, SMT DEF Tick, Call
  <2>2. age \in 0..Timeout /\ lefts \in [Thread -> 0..Duration]
    BY <1>3, <1>4, <1>5
  <2> HIDE DEF age, lefts
  <2> QED
    BY <1>1, <2>1, <2>2 DEF Call
<1>7. ASSUME NEW t \in Thread PROVE Outlasts(t)'
  <2>1. SUFFICES ASSUME call.at[t] \in {"store", "client"}
                 PROVE  call'.running /\ call'.left[t] + call'.age > Margin
    BY <1>3 DEF Outlasts
  <2>2. call.running /\ call.left[t] + call.age > Margin
    BY <2>1 DEF SessionInv, Outlasts
  <2>3. call.left[t] \in 0..Duration /\ call.age \in 0..Timeout
    BY <1>1 DEF Call
  <2>4. call.left[t] > 0
    BY <2>2, <2>3, SMT DEF MarginFits
  <2>5. call'.left[t] = call.left[t] - 1
    BY <1>2, <1>3, <2>3, <2>4
  <2> QED
    BY <1>3, <2>2, <2>3, <2>5, SMT DEF MarginFits
<1>8. cache' \in 0..Duration
  BY <1>1, <1>2 DEF Tick
<1> QED
  BY <1>6, <1>7, <1>8 DEF SessionInv, SessionTypeOK

\* A new, an ended or a stopped invocation leaves no thread with credentials.
LEMMA FreshKeeps ==
    ASSUME MarginFits, Invoke \/ Return \/ Kill, SessionInv
    PROVE  SessionInv'
<1>1. cache' \in 0..Duration
  BY SMT DEF Invoke, Return, Kill, SessionInv, SessionTypeOK, MarginFits
<1>2. Fresh \in Call /\ \A t \in Thread : Fresh.at[t] = "done"
  BY SMT DEF Fresh, Call, Place, MarginFits
<1>3. call' \in Call /\ \A t \in Thread : call'.at[t] \in {"begin", "done"}
  <2>1. CASE Invoke
    <3> DEFINE places == [t \in Thread |-> "begin"]
    <3>1. places \in [Thread -> Place] /\ \A t \in Thread : places[t] = "begin"
      BY DEF Place
    <3>2. call' = [Fresh EXCEPT !.running = TRUE, !.at = places]
      BY <2>1 DEF Invoke
    <3> HIDE DEF places
    <3> QED
      BY <1>2, <3>1, <3>2 DEF Call
  <2>2. CASE Return \/ Kill
    BY <1>2, <2>2 DEF Return, Kill
  <2> QED
    BY <2>1, <2>2
<1> QED
  BY <1>1, <1>3, SMT DEF SessionInv, SessionTypeOK, Outlasts

\* No step of a thread, of the runtime or of time breaks the invariant.
LEMMA SessionStep ==
    ASSUME MarginFits, SessionInv, [Next]_<<cache, call>>
    PROVE  SessionInv'
<1>1. call \in Call /\ cache \in 0..Duration
  BY DEF SessionInv, SessionTypeOK
<1>2. 0 \in 0..Duration /\ Duration \in 0..Duration
  BY SMT DEF MarginFits
<1>3. CASE Invoke \/ Return \/ Kill
  BY <1>3, FreshKeeps
<1>4. CASE Tick
  BY <1>4, TickKeeps
<1>5. ASSUME NEW t \in Thread, Look(t) PROVE SessionInv'
  <2>1. CASE LongEnough(cache) /\ Go(t, "client", cache)
    <3>1. call.running /\ cache + call.age > Margin
      BY <1>1, <1>5, <2>1, SMT DEF Look, LongEnough, Call, MarginFits
    <3> QED
      BY <1>1, <1>5, <2>1, <3>1, GoKeeps DEF Look, Place
  <2>2. CASE Go(t, "assume", 0)
    BY <1>1, <1>2, <1>5, <2>2, GoKeeps DEF Look, Place
  <2> QED
    BY <1>5, <2>1, <2>2 DEF Look
<1>6. ASSUME NEW t \in Thread, NEW outcome \in {"ok", "fallback", "raise"}, Assume(t, outcome)
      PROVE  SessionInv'
  <2>1. CASE Go(t, "store", Duration)
    <3>1. call.running /\ Duration + call.age > Margin
      BY <1>1, <1>6, SMT DEF Assume, Call, MarginFits
    <3> QED
      BY <1>1, <1>2, <1>6, <2>1, <3>1, GoKeeps DEF Assume, Place
  <2>2. CASE Go(t, "execution_role", 0)
    BY <1>1, <1>2, <1>6, <2>2, GoKeeps DEF Assume, Place
  <2>3. CASE Go(t, "done", 0)
    BY <1>1, <1>2, <1>6, <2>3, GoKeeps DEF Assume, Place
  <2> QED
    BY <1>6, <2>1, <2>2, <2>3 DEF Assume
<1>7. ASSUME NEW t \in Thread, Store(t) PROVE SessionInv'
  <2>1. call.left[t] \in 0..Duration
    BY <1>1 DEF Call
  <2>2. call.running /\ call.left[t] + call.age > Margin
    BY <1>7 DEF Store, SessionInv, Outlasts
  <2> QED
    BY <1>7, <2>1, <2>2, GoKeeps DEF Store, Place
<1>8. ASSUME NEW t \in Thread, NEW place \in {"begin", "done"}, Leave(t, place)
      PROVE  SessionInv'
  BY <1>1, <1>2, <1>8, GoKeeps DEF Leave, Place
<1>9. CASE UNCHANGED <<cache, call>>
  BY <1>9 DEF SessionInv, SessionTypeOK, Outlasts
<1> QED
  BY <1>3, <1>4, <1>5, <1>6, <1>7, <1>8, <1>9 DEF Next

\* The margin covers the invocation: no client expires before it ends.
LEMMA SessionsOutlive == ASSUME MarginFits, SessionInv PROVE ClientsOutlive
<1> SUFFICES ASSUME NEW t \in Thread, call.at[t] = "client" PROVE call.left[t] > 0
  BY DEF ClientsOutlive
<1>1. call.left[t] \in 0..Duration /\ call.age \in 0..Timeout
  BY DEF SessionInv, SessionTypeOK, Call
<1>2. call.left[t] + call.age > Margin
  BY DEF SessionInv, Outlasts
<1> QED
  BY <1>1, <1>2, SMT DEF MarginFits

\* A client that was handed out stays good until the invocation ends, whatever
\* the container, its threads and AssumeRole do (cross_account.py:64-67).
THEOREM ClientsStayGood == ASSUME MarginFits PROVE Spec => []ClientsOutlive
<1>1. Init => SessionInv
  BY SessionInit
<1>2. SessionInv /\ [Next]_<<cache, call>> => SessionInv'
  BY SessionStep
<1>3. SessionInv => ClientsOutlive
  BY SessionsOutlive
<1> QED
  BY <1>1, <1>2, <1>3, PTL DEF Spec
=============================================================================
