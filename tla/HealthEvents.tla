---------------------------- MODULE HealthEvents ----------------------------
(***************************************************************************)
(* AWS Health events: the SQS collector and the backfill script store one  *)
(* row per event and account, the gateway tool lists them, query by query, *)
(* while rows are stored                                                   *)
(* (src/src/lambda/collectors/health-events, src/scripts/backfill_health,  *)
(* src/src/lambda/mcp/health-events).                                      *)
(***************************************************************************)
EXTENDS Naturals, FiniteSets, Sequences, Ranking

CONSTANTS
    Account,
    CategoryOf,     \* of every event
    Affected,       \* events with the accounts they are about
    LastDay,        \* days are numbered from 0; LastDay is today
    Limits,         \* the limits a caller passes
    MaxWrites,      \* rows stored while a call goes on
    None

VARIABLES
    world,      \* what an index shows of an event and an account
    answer      \* the call that goes on, or the last one and its result

Day == 0..LastDay
Event == DOMAIN CategoryOf
RowKey == Affected \cap (Event \X Account)
Active == {"open", "upcoming"}
Status == Active \cup {"closed"}

\* What a delivered event says; startTime by its distance from today.
Notice == [status : Status, specific : BOOLEAN, core : BOOLEAN,
           start : {"imminent", "soon", "later"}, updated : Day]
Row == [status : Status, risk : {"CRITICAL", "HIGH", "MEDIUM", "LOW"}, updated : Day]

\* A call: the queries it has yet to make and the rows it has; of the rows that
\* were stored when it began, those that are as they were, and those that have
\* been unresolved ever since.
Call(name, since, limit, left) ==
    [tool |-> name, since |-> since, limit |-> limit, left |-> left,
     rows |-> [k \in {} |-> None], writes |-> 0,
     steady |-> {k \in RowKey : world[k] # None},
     unresolved |-> {k \in RowKey : world[k] # None /\ world[k].status \in Active}]
NoAnswer == [tool |-> "none"]

Init ==
    /\ world = [k \in RowKey |-> None]
    /\ answer = NoAnswer

Risk(category, n) ==
    CASE category = "issue" /\ n.status = "open" ->
            IF n.specific \/ n.core THEN "CRITICAL" ELSE "HIGH"
      [] category = "issue" /\ n.status # "open" ->
            IF n.status = "closed" THEN "LOW" ELSE "MEDIUM"
      [] category = "investigation" -> IF n.status = "open" THEN "HIGH" ELSE "MEDIUM"
      [] category = "scheduledChange" /\ n.start = "imminent" ->
            IF n.specific THEN "HIGH" ELSE "MEDIUM"
      [] category = "scheduledChange" /\ n.start = "soon" -> "MEDIUM"
      [] category = "scheduledChange" /\ n.start = "later" ->
            IF n.status = "closed" THEN "LOW" ELSE "MEDIUM"
      [] category = "accountNotification" -> "LOW"

RowOf(e, n) == [status |-> n.status, risk |-> Risk(CategoryOf[e], n), updated |-> n.updated]
RowsOf(e) == {RowOf(e, n) : n \in Notice}

IsActive(row) == row.status \in Active
Newer(r, s) == r.updated > s.updated

\* _process_health_event: put_item without a condition, so the notice that is
\* handled last stays, whichever is newer.  The backfill stores an organization
\* event in the same way, for one of its accounts after the other.
Collect(k, row) ==
    /\ world' = [world EXCEPT ![k] = row]
    /\ IF answer = NoAnswer
       THEN UNCHANGED answer
       ELSE /\ answer.writes < MaxWrites
            /\ answer' = [answer EXCEPT
                    !.writes = @ + 1,
                    !.steady = IF row = world[k] THEN @ ELSE @ \ {k},
                    !.unresolved = IF IsActive(row) THEN @ ELSE @ \ {k}]

-----------------------------------------------------------------------------
(* The tool.  A row may change between two queries of a call.              *)

Categories == <<"issue", "scheduledChange", "accountNotification", "investigation">>

\* The partitions a tool asks for, of the index of accounts, categories or states.
Queries(name) ==
    CASE name = "critical" -> <<"issue">>
      [] name = "recent" -> <<"open", "upcoming", "closed">>
      [] name = "window" -> Categories
      [] name \in Account -> <<name>>

\* What a row must be for a list, whichever partition it is found in.
Covers(c, k, row) ==
    CASE c.tool = "critical" -> /\ CategoryOf[k[1]] = "issue"
                                /\ row.risk \in {"CRITICAL", "HIGH"}
                                /\ row.updated >= c.since
      [] c.tool = "recent" -> IsActive(row) \/ row.updated >= c.since
      [] c.tool = "window" -> row.updated >= c.since
      [] c.tool \in Account -> k[2] = c.tool /\ row.updated >= c.since

Partition(c, k, row) ==
    CASE c.tool \in {"critical", "window"} -> CategoryOf[k[1]]
      [] c.tool = "recent" -> row.status
      [] c.tool \in Account -> k[2]

\* What is left of rows.sort(...)[:n].
Cuts(n, rows, Before(_, _)) ==
    {[k \in keys |-> rows[k]] : keys \in
        {keys \in AtMost(n, DOMAIN rows) :
            \A k \in keys, j \in DOMAIN rows \ keys : ~Before(rows[j], rows[k])}}

\* Mistake: one sort only.
BeforeByDate(r, s) == Newer(r, s)

\* The two sorts of handle_get_recent_events.
Before(r, s) ==
    \/ IsActive(r) /\ ~IsActive(s)
    \/ IsActive(r) = IsActive(s) /\ Newer(r, s)

\* One row of an event and account that two queries have yielded: the one that
\* is sorted before the other, or else the one that was found first.
Merged(rows, page) ==
    [k \in DOMAIN rows \cup DOMAIN page |->
        IF k \in DOMAIN rows /\ (k \in DOMAIN page => ~Before(page[k], rows[k]))
        THEN rows[k] ELSE page[k]]

\* _query: the rows of a partition, newest first, up to the limit.
Pages(c) ==
    LET found == {k \in RowKey : /\ world[k] # None
                                 /\ Partition(c, k, world[k]) = Head(c.left)
                                 /\ Covers(c, k, world[k])}
    IN  Cuts(c.limit, [k \in found |-> world[k]], Newer)

\* handle_get_health_events with a time window stops when it has enough.
IsLast(c, rows) ==
    \/ Tail(c.left) = <<>>
    \/ c.tool = "window" /\ Cardinality(DOMAIN rows) >= c.limit

Sorted(c, rows) ==
    IF c.tool = "recent" THEN Cuts(c.limit, rows, Before) ELSE Cuts(c.limit, rows, Newer)

\* The next query of a call, and the answer after the last.
Read(c) ==
    /\ \E page \in Pages(c) :
          LET rows == Merged(c.rows, page) IN
          IF IsLast(c, rows)
          THEN \E list \in Sorted(c, rows) : answer' = [c EXCEPT !.left = <<>>, !.rows = list]
          ELSE answer' = [c EXCEPT !.left = Tail(@), !.rows = rows]
    /\ UNCHANGED world

\* handle_get_events_by_account, handle_get_critical_events,
\* handle_get_recent_events, and handle_get_health_events with a time window.
Ask ==
    \E name \in Account \cup {"critical", "recent", "window"}, since \in Day, limit \in Limits :
        Read(Call(name, since, limit, Queries(name)))

Next ==
    \/ /\ answer = NoAnswer
       /\ Ask \/ \E k \in RowKey : \E row \in RowsOf(k[1]) : Collect(k, row)
    \/ /\ answer # NoAnswer /\ answer.left # <<>>
       /\ Read(answer) \/ \E k \in RowKey : \E row \in RowsOf(k[1]) : Collect(k, row)

Spec == Init /\ [][Next]_<<world, answer>>

-----------------------------------------------------------------------------
Answered == answer # NoAnswer /\ answer.left = <<>>
Listed == DOMAIN answer.rows
IsShort == Cardinality(Listed) < answer.limit

\* A list has only what was asked for, each event and account once.  One that is
\* shorter than its limit lacks no row that was so from the first query to the
\* last, of whichever account, and one that was cut has dropped no such row that
\* is unresolved for a closed one.
ListsAreComplete ==
    Answered =>
        /\ \A k \in Listed : Covers(answer, k, answer.rows[k])
        /\ IsShort => \A k \in answer.steady : Covers(answer, k, world[k]) =>
                          k \in Listed /\ answer.rows[k] = world[k]
        /\ answer.tool = "recent" /\ (\E k \in Listed : ~IsActive(answer.rows[k])) =>
              \A k \in answer.steady : IsActive(world[k]) => k \in Listed

\* "All unresolved events plus recently closed events" (handler.py:427): an event
\* that is unresolved all the time is in a list that was not cut.
UnresolvedAreListed ==
    Answered /\ answer.tool = "recent" /\ IsShort => answer.unresolved \subseteq Listed
=============================================================================
