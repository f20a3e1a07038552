----------------------------- MODULE ReportCard -----------------------------
(***************************************************************************)
(* What a report promises to the card that polls it: the status that       *)
(* GET /reports/{id}/status answers only moves forward, and a terminal     *)
(* status is the last one.  A report may be deleted, and its worker may    *)
(* write it once more after that.                                          *)
(***************************************************************************)
EXTENDS Naturals

CONSTANT Report
VARIABLE status

Rank == [none |-> 0, pending |-> 1, in_progress |-> 2, complete |-> 3, error |-> 3]
Terminal == {"complete", "error"}

CardInit == status = [r \in Report |-> "none"]

Advance(r) ==
    /\ status[r] \notin Terminal
    /\ \E next \in DOMAIN Rank :
        /\ Rank[next] > Rank[status[r]]
        /\ status' = [status EXCEPT ![r] = next]

Remove(r) ==
    /\ status[r] # "none"
    /\ status' = [status EXCEPT ![r] = "none"]

CardSpec == CardInit /\ [][\E r \in Report : Advance(r) \/ Remove(r)]_status
=============================================================================
