----------------------- MODULE InvestigationLifecycle -----------------------
(***************************************************************************)
(* What the coordinator promises of an investigation and of the capacity   *)
(* it uses, whichever handlers touch it and wherever they are stopped: it  *)
(* is claimed once, a unit of capacity is taken only for an open           *)
(* investigation, at most one for each, and counted until it is given      *)
(* back.                                                                   *)
(***************************************************************************)
EXTENDS Naturals

CONSTANTS Investigation, MaxConcurrency

VARIABLES
    phase,  \* "none", "open" or "closed"
    holds,  \* investigations that hold a unit of capacity
    inUse   \* units in use

LifecycleInit ==
    /\ phase = [i \in Investigation |-> "none"]
    /\ holds = {}
    /\ inUse = 0

\* A task that is imported may have failed already.
Claim(i) ==
    /\ phase[i] = "none"
    /\ \E p \in {"open", "closed"} : phase' = [phase EXCEPT ![i] = p]
    /\ UNCHANGED <<holds, inUse>>

Take(i) ==
    /\ phase[i] = "open" /\ i \notin holds /\ inUse < MaxConcurrency
    /\ holds' = holds \cup {i} /\ inUse' = inUse + 1
    /\ UNCHANGED phase

\* A unit goes back while the investigation goes on, as it is closed, or
\* after it was closed.
GiveBack(i) ==
    /\ i \in holds
    /\ holds' = holds \ {i} /\ inUse' = inUse - 1
    /\ phase' \in {phase, [phase EXCEPT ![i] = "closed"]}

Close(i) ==
    /\ phase[i] = "open"
    /\ phase' = [phase EXCEPT ![i] = "closed"]
    /\ UNCHANGED <<holds, inUse>>

\* A provider event that comes late opens it again, for its result.
Reopen(i) ==
    /\ phase[i] = "closed"
    /\ phase' = [phase EXCEPT ![i] = "open"]
    /\ UNCHANGED <<holds, inUse>>

LifecycleNext ==
    \E i \in Investigation :
        Claim(i) \/ Take(i) \/ GiveBack(i) \/ Close(i) \/ Reopen(i)

LifecycleSpec == LifecycleInit /\ [][LifecycleNext]_<<phase, holds, inUse>>
=============================================================================
