---------------------------- MODULE MCReportRun -----------------------------
(* Small instances of ReportRun for TLC. *)
EXTENDS ReportRun, TLC

CONSTANTS a, b, c

\* What b and c need; a needs nothing but in the circles.
Needs(x, y, z) == a :> x @@ b :> y @@ c :> z
Chain == Needs(None, a, b)
Fork == Needs(None, a, a)
Side == Needs(None, a, None)
Apart == Needs(None, None, None)
Circle == Needs(None, c, b)
Behind == Needs(a, a, None)

\* Every shape with well formed prompts; two with a prompt that is not.
MCTemplates ==
    {[needs |-> n, bad |-> {}] : n \in {Chain, Fork, Side, Apart, Circle, Behind}}
    \cup {[needs |-> n, bad |-> {b}] : n \in {Chain, Side}}
=============================================================================
