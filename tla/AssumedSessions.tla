-------------------------- MODULE AssumedSessions --------------------------
(***************************************************************************)
(* The sessions of another account that a Lambda container keeps: the      *)
(* threads of an invocation share one cache, which outlives the invocation *)
(* (src/src/lambda/mcp/shared/cross_account.py).                           *)
(*                                                                         *)
(* Time is what is left of credentials; a container that is frozen between *)
(* two invocations keeps its cache and loses time all the same.            *)
(***************************************************************************)
EXTENDS Naturals

CONSTANTS
    Thread,     \* of the tools that scan in a pool
    Duration,   \* of credentials: 900 s
    Margin,     \* _REFRESH_MARGIN_SECONDS: 330
    Timeout     \* of the tool: 60 to 300 s

VARIABLES
    cache,      \* what is left of the cached session, 0 when it is of no use
    call        \* the invocation: its age and its threads

Place == {"begin", "assume", "store", "client", "execution_role", "done"}

\* What the constants must satisfy for the margin to do what it is for.
MarginFits ==
    /\ Duration \in Nat /\ Margin \in Nat /\ Timeout \in Nat
    /\ Timeout <= Margin /\ Margin < Duration

\* What is left of the credentials a thread holds.
Call == [running : BOOLEAN, age : 0..Timeout, at : [Thread -> Place],
         left : [Thread -> 0..Duration]]

SessionTypeOK == cache \in 0..Duration /\ call \in Call

Fresh == [running |-> FALSE, age |-> 0, at |-> [t \in Thread |-> "done"],
          left |-> [t \in Thread |-> 0]]

\* A container may be warm already.
Init == cache \in 0..Duration /\ call = Fresh

Invoke ==
    /\ ~call.running
    /\ call' = [Fresh EXCEPT !.running = TRUE, !.at = [t \in Thread |-> "begin"]]
    /\ UNCHANGED cache

Go(t, place, left) == call' = [call EXCEPT !.at[t] = place, !.left[t] = left]

\* Mistake: a session is good as long as it has not expired.
LongEnoughAlive(left) == left > 0

LongEnough(left) == left > Margin

\* _assume_role_session_cached: the cache is read under the lock.
Look(t) ==
    /\ call.running /\ call.at[t] = "begin"
    /\ \/ LongEnough(cache) /\ Go(t, "client", cache)
       \/ ~LongEnough(cache) /\ Go(t, "assume", 0)
    /\ UNCHANGED cache

\* AssumeRole without the lock: several threads may do it.  A failure is not
\* cached; get_aws_client then answers with the role of the function, or raises.
Assume(t, outcome) ==
    /\ call.running /\ call.at[t] = "assume"
    /\ CASE outcome = "ok" -> Go(t, "store", Duration)
         [] outcome = "fallback" -> Go(t, "execution_role", 0)
         [] outcome = "raise" -> Go(t, "done", 0)
    /\ UNCHANGED cache

\* The last thread wins, whichever session is older.
Store(t) ==
    /\ call.running /\ call.at[t] = "store"
    /\ cache' = call.left[t]
    /\ Go(t, "client", call.left[t])

\* The client is used no more, or the thread asks for one of another service.
Leave(t, place) ==
    /\ call.running /\ call.at[t] \in {"client", "execution_role"}
    /\ Go(t, place, 0)
    /\ UNCHANGED cache

Return ==
    /\ call.running
    /\ \A t \in Thread : call.at[t] = "done"
    /\ call' = Fresh
    /\ UNCHANGED cache

\* At its timeout the process goes, and the cache with it.
Kill ==
    /\ call.running /\ call.age = Timeout
    /\ cache' = 0 /\ call' = Fresh

Less(left) == IF left = 0 THEN 0 ELSE left - 1

Tick ==
    /\ call.running => call.age < Timeout
    /\ cache' = Less(cache)
    /\ call' = [call EXCEPT !.age = IF call.running THEN @ + 1 ELSE @,
                            !.left = [t \in Thread |-> Less(call.left[t])]]

Next ==
    \/ Invoke \/ Return \/ Kill \/ Tick
    \/ \E t \in Thread :
        \/ Look(t) \/ Store(t)
        \/ \E outcome \in {"ok", "fallback", "raise"} : Assume(t, outcome)
        \/ \E place \in {"begin", "done"} : Leave(t, place)

Spec == Init /\ [][Next]_<<cache, call>>

-----------------------------------------------------------------------------
\* A client that was handed out does not expire before the invocation ends,
\* whether its session was cached by an earlier invocation or by another thread.
ClientsOutlive == \A t \in Thread : call.at[t] = "client" => call.left[t] > 0
=============================================================================
