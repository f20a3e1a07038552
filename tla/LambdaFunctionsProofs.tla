----------------------- MODULE LambdaFunctionsProofs -----------------------
(***************************************************************************)
(* What is proved of single functions, as properties of the whole.  Each   *)
(* has an invariant that says what its data are and that its last answer   *)
(* has the property, and a lemma for every kind of step.                   *)
(***************************************************************************)
EXTENDS LambdaFunctions, SequenceTheorems, FiniteSetTheorems, WellFoundedInduction, TLAPS

Proved == INSTANCE AssumedSessionsProofs WITH cache <- world, call <- answer

\* The sessions' invariant, of the behaviours that are about sessions.
SessionsInv == tool = "sessions" => Proved!SessionInv

\* No tool of any behaviour is left with the expired credentials of another
\* account, whatever the number of threads, the duration, margin and timeout.
THEOREM SessionsNeverExpire == Spec => []SessionsHold
<1>1. Proved!MarginFits
  BY SessionConstants DEF Sessions!MarginFits, Proved!MarginFits
<1>2. Init => SessionsInv
  <2> SUFFICES ASSUME Init, tool = "sessions" PROVE Proved!SessionInv
    BY DEF SessionsInv
  <2>1. Proved!Init
    BY DEF Init, Sessions!Init, Proved!Init, Sessions!Fresh, Proved!Fresh
  <2> QED
    BY <1>1, <2>1, Proved!SessionInit
<1>3. SessionsInv /\ [Next]_vars => SessionsInv'
  <2> SUFFICES ASSUME SessionsInv, [Next]_vars, tool' = "sessions" PROVE Proved!SessionInv'
    BY DEF SessionsInv
  <2>1. tool = "sessions"
    BY DEF Next, vars
  <2>2. [Proved!Next]_<<world, answer>>
    <3>1. (Sessions!Invoke <=> Proved!Invoke) /\ (Sessions!Return <=> Proved!Return)
          /\ (Sessions!Kill <=> Proved!Kill)
      BY DEF Sessions!Invoke, Proved!Invoke, Sessions!Return, Proved!Return,
             Sessions!Kill, Proved!Kill, Sessions!Fresh, Proved!Fresh
    <3>2. Sessions!Tick <=> Proved!Tick
      BY DEF Sessions!Tick, Proved!Tick, Sessions!Less, Proved!Less
    <3>3. ASSUME NEW t \in Thread
          PROVE  /\ Sessions!Look(t) <=> Proved!Look(t)
                 /\ Sessions!Store(t) <=> Proved!Store(t)
      BY DEF Sessions!Look, Proved!Look, Sessions!Store, Proved!Store, Sessions!Go, Proved!Go,
             Sessions!LongEnough, Proved!LongEnough
    <3>4. ASSUME NEW t \in Thread, NEW outcome PROVE Sessions!Assume(t, outcome) <=> Proved!Assume(t, outcome)
      BY DEF Sessions!Assume, Proved!Assume, Sessions!Go, Proved!Go
    <3>5. ASSUME NEW t \in Thread, NEW place PROVE Sessions!Leave(t, place) <=> Proved!Leave(t, place)
      BY DEF Sessions!Leave, Proved!Leave, Sessions!Go, Proved!Go
    <3>6. Sessions!Next <=> Proved!Next
      BY <3>1, <3>2, <3>3, <3>4, <3>5 DEF Sessions!Next, Proved!Next
    <3> QED
      BY <2>1, <3>6 DEF Next, vars
  <2> QED
    BY <1>1, <2>1, <2>2, Proved!SessionStep DEF SessionsInv
<1>4. SessionsInv => SessionsHold
  BY <1>1, Proved!SessionsOutlive
    DEF SessionsInv, SessionsHold, Sessions!ClientsOutlive, Proved!ClientsOutlive
<1> QED
  BY <1>2, <1>3, <1>4, PTL DEF Spec

-----------------------------------------------------------------------------
(* Lists that are cut *)

LEMMA LeastOf ==
  ASSUME NEW S \in SUBSET Nat, S # {}
  PROVE  \E n \in S : \A m \in S : n <= m
<1>1. \E x \in S : \A y \in S : ~(<<y, x>> \in OpToRel(<, Nat))
  BY NatLessThanWellFounded, WFMin
<1>2. ASSUME NEW x \in S, NEW y \in S, ~(<<y, x>> \in OpToRel(<, Nat))
      PROVE  x <= y
  <2>1. x \in Nat /\ y \in Nat
    OBVIOUS
  <2>2. ~(y < x)
    BY <1>2, <2>1 DEF OpToRel
  <2> QED
    BY <2>1, <2>2
<1> QED
  BY <1>1, <1>2

\* What AtMost says of T: a list that is shorter than its limit is complete.
LEMMA Cut ==
  ASSUME NEW S, IsFiniteSet(S), NEW n \in Nat, NEW T \in SUBSET S,
         Cardinality(T) = IF Cardinality(S) < n THEN Cardinality(S) ELSE n
  PROVE  /\ IsFiniteSet(T) /\ Cardinality(T) \in Nat /\ Cardinality(T) <= n
         /\ Cardinality(T) < n => T = S /\ Cardinality(S) < n
         /\ T # S => Cardinality(T) = n
<1>1. IsFiniteSet(T) /\ Cardinality(T) \in Nat /\ Cardinality(S) \in Nat
  BY FS_Subset, FS_CardinalityType
<1>2. Cardinality(S) = Cardinality(T) => S = T
  BY FS_Subset
<1> QED
  BY <1>1, <1>2

-----------------------------------------------------------------------------
(* Health events *)

LEMMA SameCardinality == \A S : Health!Cardinality(S) = Cardinality(S)
BY DEF Health!Cardinality, Cardinality

LEMMA RowsFinite ==
  ASSUME NEW S \in SUBSET Health!RowKey
  PROVE  IsFiniteSet(S)
<1>1. IsFiniteSet(Health!RowKey)
  <2>1. IsFiniteSet(Health!Event \X Account)
    BY HealthConstants, FS_Product DEF Health!Event
  <2> QED
    BY <2>1, FS_Subset DEF Health!RowKey
<1> QED
  BY <1>1, FS_Subset

LEMMA CutNewest ==
  ASSUME NEW n \in Nat, NEW rows, NEW list \in Health!Cuts(n, rows, Health!Newer)
  PROVE  \E L \in SUBSET DOMAIN rows :
            /\ list = [k \in L |-> rows[k]]
            /\ Cardinality(L) = IF Cardinality(DOMAIN rows) < n THEN Cardinality(DOMAIN rows) ELSE n
BY SameCardinality DEF Health!Cuts, Health!AtMost

LEMMA CutSorted ==
  ASSUME NEW n \in Nat, NEW rows, NEW list \in Health!Cuts(n, rows, Health!Before)
  PROVE  \E L \in SUBSET DOMAIN rows :
            /\ list = [k \in L |-> rows[k]]
            /\ Cardinality(L) = IF Cardinality(DOMAIN rows) < n THEN Cardinality(DOMAIN rows) ELSE n
            /\ \A k \in L, j \in DOMAIN rows \ L : ~Health!Before(rows[j], rows[k])
BY SameCardinality DEF Health!Cuts, Health!AtMost

Lists == Account \cup {"critical", "recent", "window"}
Parts == Account \cup Health!Status
         \cup {"issue", "scheduledChange", "accountNotification", "investigation"}
Rest(left) == {left[i] : i \in DOMAIN left}
ActiveOf(rows) == {k \in DOMAIN rows : Health!IsActive(rows[k])}

\* What is collected, of the partitions whose query is not left.
Gathers(c, table, rows, rest) ==
    /\ DOMAIN rows \in SUBSET Health!RowKey
    /\ \A k \in DOMAIN rows : Health!Covers(c, k, rows[k])
    /\ \A k \in c.steady \cap DOMAIN rows : rows[k] = table[k]
    /\ \A k \in c.steady :
          Health!Covers(c, k, table[k]) /\ Health!Partition(c, k, table[k]) \notin rest =>
             k \in DOMAIN rows \/ Cardinality(DOMAIN rows) >= c.limit
    /\ c.tool = "recent" => \A k \in c.steady :
          Health!IsActive(table[k]) /\ table[k].status \notin rest =>
             k \in DOMAIN rows \/ Cardinality(ActiveOf(rows)) >= c.limit

\* A call that goes on.
Going(c, table) ==
    /\ c = [tool |-> c.tool, since |-> c.since, limit |-> c.limit, left |-> c.left,
            rows |-> c.rows, writes |-> c.writes, steady |-> c.steady,
            unresolved |-> c.unresolved]
    /\ c.tool \in Lists /\ c.limit \in Nat
    /\ c.left \in Seq(Parts)
    /\ c.steady \in SUBSET Health!RowKey
    /\ \A k \in c.steady : table[k] # None
    /\ Gathers(c, table, c.rows, Rest(c.left))

RowsStored(table) ==
    /\ table = [k \in Health!RowKey |-> table[k]]
    /\ \A k \in Health!RowKey : table[k] # None => table[k].status \in Health!Status

\* What is stored, and the call.
HealthInv ==
    tool = "health" =>
        /\ RowsStored(world)
        /\ \/ answer = Health!NoAnswer
           \/ answer # Health!NoAnswer /\ answer.left # <<>> /\ Going(answer, world)
           \/ answer # Health!NoAnswer /\ answer.left = <<>> /\ Health!ListsAreComplete

LEMMA QueriesRead ==
  ASSUME NEW name \in Lists
  PROVE  /\ Health!Queries(name) \in Seq(Parts) /\ Health!Queries(name) # <<>>
         /\ name = "critical" => "issue" \in Rest(Health!Queries(name))
         /\ name = "recent" => Health!Status \subseteq Rest(Health!Queries(name))
         /\ name = "window" => {"issue", "scheduledChange", "accountNotification", "investigation"}
                                  \subseteq Rest(Health!Queries(name))
         /\ name \in Account => name \in Rest(Health!Queries(name))
<1> DEFINE q == Health!Queries(name)
<1>1. CASE name = "critical"
  <2>1. q = <<"issue">>
    BY <1>1, HealthConstants DEF Health!Queries
  <2>2. DOMAIN q = {1} /\ q[1] = "issue"
    BY <2>1
  <2>3. "issue" \in Rest(q)
    <3> HIDE DEF q
    <3> QED
      BY <2>2 DEF Rest
  <2>4. q \in Seq(Parts) /\ q # <<>>
    BY <2>1 DEF Parts
  <2> QED
    BY <1>1, <2>3, <2>4, HealthConstants
<1>2. CASE name = "recent"
  <2>1. q = <<"open", "upcoming", "closed">>
    BY <1>2, HealthConstants DEF Health!Queries
  <2>2. DOMAIN q = 1..3 /\ q[1] = "open" /\ q[2] = "upcoming" /\ q[3] = "closed"
    BY <2>1
  <2>3. {"open", "upcoming", "closed"} \subseteq Rest(q)
    <3> HIDE DEF q
    <3> QED
      BY <2>2 DEF Rest
  <2>4. q \in Seq(Parts) /\ q # <<>>
    BY <2>1 DEF Parts, Health!Status, Health!Active
  <2> QED
    BY <1>2, <2>3, <2>4, HealthConstants DEF Health!Status, Health!Active
<1>3. CASE name = "window"
  <2>1. q = <<"issue", "scheduledChange", "accountNotification", "investigation">>
    BY <1>3, HealthConstants DEF Health!Queries, Health!Categories
  <2>2. DOMAIN q = 1..4 /\ q[1] = "issue" /\ q[2] = "scheduledChange"
        /\ q[3] = "accountNotification" /\ q[4] = "investigation"
    BY <2>1
  <2>3. {"issue", "scheduledChange", "accountNotification", "investigation"} \subseteq Rest(q)
    <3> HIDE DEF q
    <3> QED
      BY <2>2 DEF Rest
  <2>4. q \in Seq(Parts) /\ q # <<>>
    BY <2>1 DEF Parts
  <2> QED
    BY <1>3, <2>3, <2>4, HealthConstants
<1>4. CASE name \in Account
  <2>1. name # "critical" /\ name # "recent" /\ name # "window"
    BY <1>4, HealthConstants
  <2>2. q = <<name>>
    BY <1>4, <2>1 DEF Health!Queries
  <2> QED
    BY <1>4, <2>1, <2>2 DEF Parts, Rest
<1> QED
  BY <1>1, <1>2, <1>3, <1>4 DEF Lists

\* Every row that a list covers is in a partition that is asked for.
LEMMA CallsBegin ==
  ASSUME NEW name \in Lists, NEW since, NEW limit \in Nat, RowsStored(world)
  PROVE  LET c == Health!Call(name, since, limit, Health!Queries(name)) IN
         Going(c, world) /\ c.left # <<>>
<1> DEFINE c == Health!Call(name, since, limit, Health!Queries(name))
<1>1. /\ c = [tool |-> c.tool, since |-> c.since, limit |-> c.limit, left |-> c.left,
              rows |-> c.rows, writes |-> c.writes, steady |-> c.steady,
              unresolved |-> c.unresolved]
      /\ c.tool = name /\ c.limit = limit /\ c.left = Health!Queries(name)
      /\ c.rows = [k \in {} |-> None]
      /\ c.steady = {k \in Health!RowKey : world[k] # None}
  BY DEF Health!Call
<1> HIDE DEF c
<1>2. DOMAIN c.rows = {}
  BY <1>1
<1>3. ASSUME NEW k \in c.steady, Health!Covers(c, k, world[k])
      PROVE  Health!Partition(c, k, world[k]) \in Rest(c.left)
  <2>1. k \in Health!RowKey /\ world[k].status \in Health!Status
    BY <1>1, <1>3 DEF RowsStored
  <2>2. k[1] \in DOMAIN CategoryOf
    BY <2>1 DEF Health!RowKey, Health!Event
  <2>3. CASE name = "critical"
    BY <1>1, <1>3, <2>3, QueriesRead, HealthConstants DEF Health!Covers, Health!Partition
  <2>4. CASE name = "recent"
    BY <1>1, <2>1, <2>4, QueriesRead, HealthConstants DEF Health!Partition
  <2>5. CASE name = "window"
    BY <1>1, <2>2, <2>5, QueriesRead, HealthConstants DEF Health!Partition
  <2>6. CASE name \in Account
    <3>1. name # "critical" /\ name # "recent" /\ name # "window"
      BY <2>6, HealthConstants
    <3> QED
      BY <1>1, <1>3, <2>6, <3>1, QueriesRead DEF Health!Covers, Health!Partition
  <2> QED
    BY <2>3, <2>4, <2>5, <2>6 DEF Lists
<1>4. ASSUME NEW k \in c.steady, name = "recent"
      PROVE  world[k].status \in Rest(c.left)
  BY <1>1, <1>4, QueriesRead DEF RowsStored
<1>5. Gathers(c, world, c.rows, Rest(c.left))
  BY <1>1, <1>2, <1>3, <1>4 DEF Gathers
<1>6. Going(c, world) /\ c.left # <<>>
  BY <1>1, <1>5, QueriesRead DEF Going
<1> QED
  BY <1>6 DEF c

\* A page adds to what is collected.
LEMMA PageGathers ==
  ASSUME NEW c, Going(c, world), RowsStored(world), c.left # <<>>, NEW page \in Health!Pages(c)
  PROVE  Gathers(c, world, Health!Merged(c.rows, page), Rest(Tail(c.left)))
<1> DEFINE p == Head(c.left)
           found == {k \in Health!RowKey : /\ world[k] # None
                                          /\ Health!Partition(c, k, world[k]) = p
                                          /\ Health!Covers(c, k, world[k])}
           all == Health!Merged(c.rows, page)
           D == DOMAIN c.rows
<1>1. Rest(c.left) \subseteq Rest(Tail(c.left)) \cup {p}
  <2>1. c.left \in Seq(Parts) /\ c.left # <<>>
    BY DEF Going
  <2> DEFINE q == c.left
  <2>2. /\ Len(q) \in Nat /\ Len(q) > 0 /\ DOMAIN q = 1..Len(q)
        /\ DOMAIN Tail(q) = 1..(Len(q) - 1)
        /\ \A i \in 1..(Len(q) - 1) : Tail(q)[i] = q[i + 1]
        /\ Head(q) = q[1]
    BY <2>1
  <2> HIDE DEF q
  <2>3. ASSUME NEW i \in 1..Len(q), i # 1 PROVE q[i] \in Rest(Tail(q))
    <3>1. i - 1 \in 1..(Len(q) - 1) /\ (i - 1) + 1 = i
      BY <2>2, <2>3
    <3>2. Tail(q)[i - 1] = q[i]
      BY <2>2, <3>1
    <3> QED
      BY <2>2, <3>1, <3>2 DEF Rest
  <2>4. Rest(q) \subseteq Rest(Tail(q)) \cup {Head(q)}
    BY <2>2, <2>3 DEF Rest
  <2> QED
    BY <2>4 DEF q
<1>2. PICK L \in SUBSET found :
            /\ page = [k \in L |-> world[k]]
            /\ Cardinality(L) = IF Cardinality(found) < c.limit THEN Cardinality(found) ELSE c.limit
  <2> DEFINE f == [k \in found |-> world[k]]
  <2>1. page \in Health!Cuts(c.limit, f, Health!Newer)
    BY DEF Health!Pages
  <2>2. DOMAIN f = found /\ \A k \in found : f[k] = world[k]
    OBVIOUS
  <2>3. c.limit \in Nat
    BY DEF Going
  <2> HIDE DEF f, found
  <2>4. PICK L \in SUBSET DOMAIN f :
            /\ page = [k \in L |-> f[k]]
            /\ Cardinality(L) = IF Cardinality(DOMAIN f) < c.limit THEN Cardinality(DOMAIN f) ELSE c.limit
    BY <2>1, <2>3, CutNewest
  <2>5. page = [k \in L |-> world[k]]
    BY <2>2, <2>4
  <2> QED
    BY <2>2, <2>4, <2>5
<1>3. found \subseteq Health!RowKey /\ D \subseteq Health!RowKey /\ c.limit \in Nat
  BY DEF Going, Gathers
<1>4. DOMAIN page = L /\ \A k \in L : page[k] = world[k]
  BY <1>2
<1>5. \A k \in found : /\ world[k] # None /\ Health!Partition(c, k, world[k]) = p
                       /\ Health!Covers(c, k, world[k])
  OBVIOUS
<1>6. \A k \in Health!RowKey : world[k] # None /\ Health!Partition(c, k, world[k]) = p
                               /\ Health!Covers(c, k, world[k]) => k \in found
  OBVIOUS
<1> HIDE DEF found
<1>7. /\ DOMAIN all = D \cup L
      /\ \A k \in D \cup L : \/ k \in D /\ all[k] = c.rows[k] /\ (k \in L => ~Health!Before(world[k], c.rows[k]))
                             \/ k \in L /\ all[k] = world[k] /\ (k \in D => Health!Before(world[k], c.rows[k]))
  BY <1>4 DEF Health!Merged
<1>8. IsFiniteSet(D \cup L) /\ IsFiniteSet(found)
      /\ Cardinality(D) <= Cardinality(D \cup L) /\ Cardinality(L) <= Cardinality(D \cup L)
      /\ Cardinality(D) \in Nat /\ Cardinality(L) \in Nat /\ Cardinality(D \cup L) \in Nat
  <2>1. D \cup L \in SUBSET Health!RowKey
    BY <1>3
  <2>2. IsFiniteSet(D \cup L) /\ IsFiniteSet(found) /\ IsFiniteSet(D) /\ IsFiniteSet(L)
    BY <1>2, <1>3, <2>1, RowsFinite
  <2> HIDE DEF D
  <2> QED
    BY <2>2, FS_Subset, FS_CardinalityType
<1>9. L # found => Cardinality(L) = c.limit
  BY <1>2, <1>3, <1>8, Cut
<1> HIDE DEF all
<1>10. \A k \in DOMAIN all : Health!Covers(c, k, all[k])
  BY <1>2, <1>5, <1>7 DEF Going, Gathers
<1>11. \A k \in c.steady \cap DOMAIN all : all[k] = world[k]
  BY <1>7 DEF Going, Gathers
<1>12. ASSUME NEW k \in c.steady, Health!Covers(c, k, world[k]),
              Health!Partition(c, k, world[k]) \notin Rest(Tail(c.left))
       PROVE  k \in DOMAIN all \/ Cardinality(DOMAIN all) >= c.limit
  <2>1. CASE Health!Partition(c, k, world[k]) \notin Rest(c.left)
    <3>1. k \in D \/ Cardinality(D) >= c.limit
      BY <1>12, <2>1 DEF Going, Gathers
    <3> HIDE DEF D
    <3> QED
      BY <1>3, <1>7, <1>8, <3>1
  <2>2. CASE Health!Partition(c, k, world[k]) = p
    <3>1. k \in found
      BY <1>6, <1>12, <2>2 DEF Going
    <3> HIDE DEF D
    <3> QED
      BY <1>3, <1>7, <1>8, <1>9, <3>1
  <2> QED
    BY <1>1, <1>12, <2>1, <2>2
<1>13. ASSUME c.tool = "recent", NEW k \in c.steady, Health!IsActive(world[k]),
              world[k].status \notin Rest(Tail(c.left))
       PROVE  k \in DOMAIN all \/ Cardinality(ActiveOf(all)) >= c.limit
  <2>1. ActiveOf(c.rows) \subseteq ActiveOf(all)
    BY <1>7 DEF ActiveOf, Health!Before
  <2>2. ActiveOf(all) \subseteq Health!RowKey
    BY <1>2, <1>3, <1>7 DEF ActiveOf
  <2>3. /\ IsFiniteSet(ActiveOf(all)) /\ Cardinality(ActiveOf(all)) \in Nat
        /\ Cardinality(ActiveOf(c.rows)) <= Cardinality(ActiveOf(all))
        /\ Cardinality(ActiveOf(c.rows)) \in Nat
    BY <2>1, <2>2, RowsFinite, FS_Subset, FS_CardinalityType
  <2>4. CASE world[k].status \notin Rest(c.left)
    <3>1. k \in D \/ Cardinality(ActiveOf(c.rows)) >= c.limit
      BY <1>13, <2>4 DEF Going, Gathers
    <3> HIDE DEF D
    <3> QED
      BY <1>3, <1>7, <2>3, <3>1
  <2>5. CASE world[k].status = p
    <3>1. k \in found
      BY <1>6, <1>13, <2>5, HealthConstants DEF Going, Health!Partition, Health!Covers
    <3>2. \A j \in L : Health!IsActive(world[j])
      BY <1>2, <1>5, <1>13, <2>5, HealthConstants DEF Health!Partition, Health!IsActive
    <3>3. L \subseteq ActiveOf(all)
      BY <1>7, <3>2 DEF ActiveOf, Health!Before
    <3>4. Cardinality(L) <= Cardinality(ActiveOf(all))
      BY <2>3, <3>3, FS_Subset
    <3> HIDE DEF D
    <3> QED
      BY <1>3, <1>7, <1>8, <1>9, <2>3, <3>1, <3>4
  <2> QED
    BY <1>1, <1>13, <2>4, <2>5
<1>14. DOMAIN all \in SUBSET Health!RowKey
  BY <1>2, <1>3, <1>7
<1>15. Gathers(c, world, all, Rest(Tail(c.left)))
  BY <1>10, <1>11, <1>12, <1>13, <1>14 DEF Gathers
<1> QED
  BY <1>15 DEF all

\* What is collected when no query is left, or when there is enough, becomes the
\* list: a part of it that was cut fills the list by itself.
LEMMA ListsAnswer ==
  ASSUME NEW c, Going(c, world), NEW all, NEW rest,
         Gathers(c, world, all, rest),
         rest = {} \/ (c.tool = "window" /\ Cardinality(DOMAIN all) >= c.limit),
         NEW list \in Health!Sorted(c, all),
         answer' = [c EXCEPT !.left = <<>>, !.rows = list], world' = world
  PROVE  /\ answer' # Health!NoAnswer /\ answer'.left = <<>>
         /\ Health!ListsAreComplete'
<1> DEFINE A == DOMAIN all
<1>1. PICK L \in SUBSET A :
            /\ list = [k \in L |-> all[k]]
            /\ Cardinality(L) = IF Cardinality(A) < c.limit THEN Cardinality(A) ELSE c.limit
            /\ c.tool = "recent" => \A k \in L, j \in A \ L : ~Health!Before(all[j], all[k])
  <2>1. c.limit \in Nat
    BY DEF Going
  <2>2. CASE c.tool = "recent"
    BY <2>1, <2>2, CutSorted DEF Health!Sorted
  <2>3. CASE c.tool # "recent"
    BY <2>1, <2>3, CutNewest DEF Health!Sorted
  <2> QED
    BY <2>2, <2>3
<1>2. /\ answer'.left = <<>> /\ answer'.rows = list /\ answer'.tool = c.tool
      /\ answer'.since = c.since /\ answer'.limit = c.limit /\ answer'.steady = c.steady
      /\ c.tool \in Lists /\ c.limit \in Nat
  BY DEF Going
<1>3. answer' # Health!NoAnswer
  <2>1. c.tool # "none" \/ c.tool \in Account
    BY <1>2 DEF Lists
  <2>2. DOMAIN answer' = DOMAIN c /\ "left" \in DOMAIN c
    BY DEF Going
  <2>3. "left" \notin DOMAIN Health!NoAnswer
    BY DEF Health!NoAnswer
  <2> QED
    BY <2>2, <2>3
<1>4. DOMAIN answer'.rows = L /\ \A k \in L : answer'.rows[k] = all[k]
  BY <1>1, <1>2
<1>5. A \subseteq Health!RowKey /\ L \subseteq A
  BY <1>1 DEF Gathers
<1>6. /\ IsFiniteSet(A) /\ Cardinality(A) \in Nat /\ IsFiniteSet(L) /\ Cardinality(L) \in Nat
      /\ Cardinality(L) <= c.limit
      /\ Cardinality(L) < c.limit => L = A /\ Cardinality(A) < c.limit
  <2>1. IsFiniteSet(A)
    BY <1>5, RowsFinite
  <2> HIDE DEF A
  <2> QED
    BY <1>1, <1>2, <2>1, Cut, FS_CardinalityType
<1>7. \A k \in L : Health!Covers(answer, k, answer.rows[k])'
  <2>1. \A k, row : Health!Covers(answer', k, row) <=> Health!Covers(c, k, row)
    BY <1>2 DEF Health!Covers
  <2>2. \A k \in L : Health!Covers(answer', k, answer'.rows[k])
    BY <1>4, <1>5, <2>1 DEF Gathers
  <2> QED
    BY <2>2
<1>8. ASSUME Cardinality(L) < c.limit, NEW k \in c.steady, Health!Covers(c, k, world[k])
      PROVE  k \in L /\ all[k] = world[k]
  <2>1. k \in A \/ Cardinality(A) >= c.limit
    BY <1>8 DEF Gathers
  <2>2. k \in A /\ k \in L
    <3> HIDE DEF A
    <3> QED
      BY <1>2, <1>6, <1>8, <2>1
  <2> QED
    BY <2>2 DEF Gathers
<1>9. ASSUME c.tool = "recent", NEW j \in L, ~Health!IsActive(all[j]),
             NEW k \in c.steady, Health!IsActive(world[k])
      PROVE  k \in L
  <2>1. ActiveOf(all) \subseteq L
    BY <1>1, <1>9 DEF ActiveOf, Health!Before
  <2>2. j \notin ActiveOf(all)
    BY <1>9 DEF ActiveOf
  <2>3. Cardinality(ActiveOf(all)) < c.limit
    <3>1. Cardinality(ActiveOf(all)) <= Cardinality(L) /\ IsFiniteSet(ActiveOf(all))
          /\ (Cardinality(L) = Cardinality(ActiveOf(all)) => L = ActiveOf(all))
      BY <1>6, <2>1, FS_Subset
    <3>2. Cardinality(ActiveOf(all)) \in Nat
      BY <3>1, FS_CardinalityType
    <3> QED
      BY <1>2, <1>6, <1>9, <2>2, <3>1, <3>2
  <2>4. Cardinality(ActiveOf(all)) \in Nat
    BY <1>6, <2>1, FS_Subset, FS_CardinalityType
  <2>5. rest = {}
    BY <1>9
  <2>6. k \in A
    BY <1>2, <1>9, <2>3, <2>4, <2>5 DEF Gathers
  <2>7. all[k] = world[k]
    BY <2>6 DEF Gathers
  <2> QED
    BY <1>9, <2>1, <2>6, <2>7 DEF ActiveOf
<1>10. \A k, row : Health!Covers(answer', k, row) <=> Health!Covers(c, k, row)
  BY <1>2 DEF Health!Covers
<1>11. (\A k \in DOMAIN answer.rows : Health!Covers(answer, k, answer.rows[k]))'
  BY <1>4, <1>7
<1>12. Cardinality(DOMAIN answer'.rows) < answer'.limit =>
          \A k \in answer'.steady : Health!Covers(answer', k, world'[k]) =>
              k \in DOMAIN answer'.rows /\ answer'.rows[k] = world'[k]
  BY <1>2, <1>4, <1>8, <1>10
<1>13. answer'.tool = "recent" /\ (\E k \in DOMAIN answer'.rows : ~Health!IsActive(answer'.rows[k])) =>
          \A k \in answer'.steady : Health!IsActive(world'[k]) => k \in DOMAIN answer'.rows
  BY <1>2, <1>4, <1>9
<1>14. Health!ListsAreComplete'
  BY <1>11, <1>12, <1>13, SameCardinality DEF Health!ListsAreComplete, Health!Listed, Health!IsShort
<1> QED
  BY <1>2, <1>3, <1>14

LEMMA CallsRead ==
  ASSUME NEW c, Going(c, world), RowsStored(world), c.left # <<>>, Health!Read(c)
  PROVE  /\ answer' # Health!NoAnswer
         /\ \/ answer'.left # <<>> /\ Going(answer', world')
            \/ answer'.left = <<>> /\ Health!ListsAreComplete'
<1>1. PICK page \in Health!Pages(c) :
        LET rows == Health!Merged(c.rows, page) IN
        IF Health!IsLast(c, rows)
        THEN \E list \in Health!Sorted(c, rows) : answer' = [c EXCEPT !.left = <<>>, !.rows = list]
        ELSE answer' = [c EXCEPT !.left = Tail(@), !.rows = rows]
  BY DEF Health!Read
<1> DEFINE all == Health!Merged(c.rows, page)
<1>2. Gathers(c, world, all, Rest(Tail(c.left))) /\ world' = world
  BY <1>1, PageGathers DEF Health!Read
<1> HIDE DEF all
<1>3. CASE Health!IsLast(c, all)
  <2>1. PICK list \in Health!Sorted(c, all) : answer' = [c EXCEPT !.left = <<>>, !.rows = list]
    BY <1>1, <1>3 DEF all
  <2>2. Rest(Tail(c.left)) = {} \/ (c.tool = "window" /\ Cardinality(DOMAIN all) >= c.limit)
    BY <1>3, SameCardinality DEF Health!IsLast, Rest
  <2> QED
    BY <1>2, <2>1, <2>2, ListsAnswer
<1>4. CASE ~Health!IsLast(c, all)
  <2>1. answer' = [c EXCEPT !.left = Tail(@), !.rows = all]
    BY <1>1, <1>4 DEF all
  <2>2. /\ answer'.left = Tail(c.left) /\ answer'.rows = all /\ answer'.tool = c.tool
        /\ answer'.since = c.since /\ answer'.limit = c.limit /\ answer'.steady = c.steady
        /\ answer' = [tool |-> answer'.tool, since |-> answer'.since, limit |-> answer'.limit,
                      left |-> answer'.left, rows |-> answer'.rows, writes |-> answer'.writes,
                      steady |-> answer'.steady, unresolved |-> answer'.unresolved]
    BY <2>1 DEF Going
  <2>3. Tail(c.left) # <<>> /\ Tail(c.left) \in Seq(Parts)
    BY <1>4 DEF Health!IsLast, Going
  <2>4. Gathers(answer', world, all, Rest(Tail(c.left)))
    <3>1. \A k, row : /\ Health!Covers(answer', k, row) <=> Health!Covers(c, k, row)
                      /\ Health!Partition(answer', k, row) = Health!Partition(c, k, row)
      BY <2>2 DEF Health!Covers, Health!Partition
    <3> QED
      BY <1>2, <2>2, <3>1 DEF Gathers
  <2>5. Going(answer', world')
    BY <1>2, <2>2, <2>3, <2>4 DEF Going
  <2>6. answer' # Health!NoAnswer
    <3>1. "left" \in DOMAIN answer' /\ "left" \notin DOMAIN Health!NoAnswer
      BY <2>2 DEF Health!NoAnswer
    <3> QED
      BY <3>1
  <2> QED
    BY <2>2, <2>3, <2>5, <2>6
<1> QED
  BY <1>3, <1>4

\* A row that is stored while a call goes on is not steady, or is as it was.
LEMMA CollectKeeps ==
  ASSUME RowsStored(world), NEW key \in Health!RowKey, NEW row \in Health!RowsOf(key[1]),
         Health!Collect(key, row),
         answer = Health!NoAnswer
            \/ (Going(answer, world) /\ answer # Health!NoAnswer /\ answer.left # <<>>)
  PROVE  /\ RowsStored(world')
         /\ \/ answer' = Health!NoAnswer
            \/ answer' # Health!NoAnswer /\ answer'.left # <<>> /\ Going(answer', world')
<1>1. row.status \in Health!Status
  BY DEF Health!RowsOf, Health!RowOf, Health!Notice
<1>2. world' = [world EXCEPT ![key] = row]
  BY DEF Health!Collect
<1>3. RowsStored(world')
  BY <1>1, <1>2 DEF RowsStored
<1>4. ASSUME answer # Health!NoAnswer
      PROVE  answer' # Health!NoAnswer /\ answer'.left # <<>> /\ Going(answer', world')
  <2>1. answer' = [answer EXCEPT
            !.writes = @ + 1,
            !.steady = IF row = world[key] THEN @ ELSE @ \ {key},
            !.unresolved = IF Health!IsActive(row) THEN @ ELSE @ \ {key}]
    BY <1>4 DEF Health!Collect
  <2>2. /\ answer'.left = answer.left /\ answer'.rows = answer.rows /\ answer'.tool = answer.tool
        /\ answer'.since = answer.since /\ answer'.limit = answer.limit
        /\ answer'.steady = (IF row = world[key] THEN answer.steady ELSE answer.steady \ {key})
        /\ answer' = [tool |-> answer'.tool, since |-> answer'.since, limit |-> answer'.limit,
                      left |-> answer'.left, rows |-> answer'.rows, writes |-> answer'.writes,
                      steady |-> answer'.steady, unresolved |-> answer'.unresolved]
    BY <1>4, <2>1 DEF Going
  <2>3. answer'.steady \subseteq answer.steady /\ answer.steady \subseteq Health!RowKey
    BY <1>4, <2>2 DEF Going
  <2>4. \A k \in answer'.steady : world'[k] = world[k]
    BY <1>2, <2>2, <2>3 DEF RowsStored
  <2>5. \A k, r : /\ Health!Covers(answer', k, r) <=> Health!Covers(answer, k, r)
                  /\ Health!Partition(answer', k, r) = Health!Partition(answer, k, r)
    BY <2>2 DEF Health!Covers, Health!Partition
  <2>6. Gathers(answer', world', answer'.rows, Rest(answer'.left))
    BY <1>4, <2>2, <2>3, <2>4, <2>5 DEF Going, Gathers
  <2>7. Going(answer', world')
    BY <1>4, <2>2, <2>3, <2>4, <2>6 DEF Going
  <2>8. "left" \in DOMAIN answer' /\ "left" \notin DOMAIN Health!NoAnswer
    BY <2>2 DEF Health!NoAnswer
  <2> QED
    BY <1>4, <2>2, <2>7, <2>8
<1>5. CASE answer = Health!NoAnswer
  BY <1>3, <1>5 DEF Health!Collect
<1> QED
  BY <1>3, <1>4, <1>5

\* A list of health events that is shorter than its limit lacks no row that was as
\* it is all through the call, and none that was cut has dropped such a row that is
\* unresolved for a closed one, for any events, accounts, days, limits and rows
\* that are stored between the queries of a call.
THEOREM HealthListsAreComplete == Spec => []HealthListsHold
<1>1. Init => HealthInv
  <2> SUFFICES ASSUME Init, tool = "health"
               PROVE  RowsStored(world) /\ answer = Health!NoAnswer
    BY DEF HealthInv
  <2>1. world = [k \in Health!RowKey |-> None] /\ answer = Health!NoAnswer
    BY DEF Init, Health!Init
  <2> QED
    BY <2>1 DEF RowsStored
<1>2. HealthInv /\ [Next]_vars => HealthInv'
  <2> SUFFICES ASSUME HealthInv, [Next]_vars, tool' = "health"
               PROVE  RowsStored(world')
                      /\ \/ answer' = Health!NoAnswer
                         \/ answer' # Health!NoAnswer /\ answer'.left # <<>> /\ Going(answer', world')
                         \/ answer' # Health!NoAnswer /\ answer'.left = <<>> /\ Health!ListsAreComplete'
    BY DEF HealthInv
  <2>1. /\ tool = "health"
        /\ RowsStored(world)
        /\ \/ answer = Health!NoAnswer
           \/ answer # Health!NoAnswer /\ answer.left # <<>> /\ Going(answer, world)
           \/ answer # Health!NoAnswer /\ answer.left = <<>> /\ Health!ListsAreComplete
    BY DEF Next, vars, HealthInv
  <2>2. CASE UNCHANGED vars
    <3>1. Health!ListsAreComplete' <=> Health!ListsAreComplete
      BY <2>2 DEF vars, Health!ListsAreComplete, Health!Answered, Health!Listed, Health!IsShort
    <3> QED
      BY <2>1, <2>2, <3>1 DEF vars
  <2>3. CASE Next
    <3>1. Health!Next
      BY <2>1, <2>3 DEF Next
    <3>2. CASE Health!Ask /\ answer = Health!NoAnswer
      <4>1. PICK name \in Lists, since \in Health!Day, limit \in Limits :
                Health!Read(Health!Call(name, since, limit, Health!Queries(name)))
        BY <3>2 DEF Health!Ask, Lists
      <4>2. limit \in Nat
        BY GatewayConstants
      <4> DEFINE c == Health!Call(name, since, limit, Health!Queries(name))
      <4>3. Going(c, world) /\ c.left # <<>>
        BY <2>1, <4>2, CallsBegin
      <4> HIDE DEF c
      <4>4. Health!Read(c)
        BY <4>1 DEF c
      <4> QED
        BY <2>1, <4>3, <4>4, CallsRead DEF Health!Read
    <3>3. CASE Health!Read(answer) /\ answer # Health!NoAnswer /\ answer.left # <<>>
      BY <2>1, <3>3, CallsRead DEF Health!Read
    <3>4. CASE /\ \E k \in Health!RowKey : \E row \in Health!RowsOf(k[1]) : Health!Collect(k, row)
               /\ answer = Health!NoAnswer \/ answer.left # <<>>
      BY <2>1, <3>4, CollectKeeps
    <3> QED
      BY <3>1, <3>2, <3>3, <3>4 DEF Health!Next
  <2> QED
    BY <2>2, <2>3
<1>3. HealthInv => HealthListsHold
  BY DEF HealthInv, HealthListsHold, Health!ListsAreComplete, Health!Answered
<1> QED
  BY <1>1, <1>2, <1>3, PTL DEF Spec

-----------------------------------------------------------------------------
(* Alarm coverage *)

\* The alarms there are, and that a snapshot holds what was found of them.
CoverageInv ==
    tool = "coverage" =>
        /\ world = [alarm |-> world.alarm, namesake |-> world.namesake, snapshot |-> world.snapshot]
        /\ world.alarm \in [Coverage!Slot -> Coverage!Alarm]
        /\ world.namesake \in [Coverage!Namesake -> Coverage!Alarm]
        /\ world.snapshot # None =>
             /\ world.snapshot = [id |-> world.snapshot.id, state |-> world.snapshot.state,
                                  complete |-> world.snapshot.complete,
                                  taken |-> world.snapshot.taken,
                                  verdict |-> world.snapshot.verdict]
             /\ world.snapshot.taken \in [Coverage!Slot -> Coverage!Alarm]
             /\ world.snapshot.verdict = [c \in Coverage!Candidate |->
                    Coverage!Evaluate(c, world.snapshot.taken,
                                      RegionOf[c[1]] \in world.snapshot.complete)]
        /\ Coverage!VerdictsHold

\* What one candidate is called.
LEMMA Evaluated ==
  ASSUME NEW alarms \in [Coverage!Slot -> Coverage!Alarm], NEW complete \in BOOLEAN,
         NEW c \in Coverage!Candidate
  PROVE  LET v == Coverage!Evaluate(c, alarms, complete) IN
         /\ v \in Coverage!Verdict
         /\ v \in Coverage!Covered => c \notin Unresolved /\ alarms[c] # "none"
         /\ v = "missing" => complete /\ c \notin Unresolved /\ alarms[c] = "none"
         /\ c \notin Unresolved /\ v \notin Coverage!Covered => alarms[c] = "none"
         /\ c \in Unresolved => v = "unresolved_dimensions"
<1>1. c \notin Unresolved => alarms[c] \in {"none", "as_recommended", "drifted"}
  BY DEF Coverage!Alarm, Coverage!Slot
<1> QED
  BY <1>1 DEF Coverage!Evaluate, Coverage!Verdict, Coverage!Covered

\* The worst of some verdicts is one of them, and none is worse.
LEMMA Aggregated ==
  ASSUME NEW V \in SUBSET Coverage!Verdict
  PROVE  /\ Coverage!Aggregate(V) \in Coverage!Covered =>
              V \subseteq Coverage!Covered
         /\ Coverage!Aggregate(V) = "missing" => "missing" \in V
<1> DEFINE W == Coverage!Worst
           P(i) == W[i] \in V /\ \A j \in 1..(i - 1) : W[j] \notin V
           least == CHOOSE i \in DOMAIN W : P(i)
<1>1. /\ DOMAIN W = 1..5 /\ W[1] = "inventory_incomplete" /\ W[2] = "missing"
      /\ W[3] = "unresolved_dimensions" /\ W[4] = "implemented_with_drift" /\ W[5] = "implemented"
  BY DEF Coverage!Worst
<1>2. CASE V = {}
  BY <1>2 DEF Coverage!Aggregate
<1>3. CASE V # {}
  <2> DEFINE S == {i \in 1..5 : W[i] \in V}
  <2>1. S \in SUBSET Nat /\ S # {}
    <3>1. PICK v \in V : TRUE
      BY <1>3
    <3>2. v \in {W[1], W[2], W[3], W[4], W[5]}
      BY <1>1, <3>1 DEF Coverage!Verdict, Coverage!Covered
    <3> HIDE DEF W
    <3> QED
      BY <3>1, <3>2
  <2>2. PICK n \in S : \A m \in S : n <= m
    <3> HIDE DEF S
    <3> QED
      BY <2>1, LeastOf
  <2> HIDE DEF W
  <2>3. n \in DOMAIN W /\ P(n)
    <3>1. n \in 1..5 /\ W[n] \in V
      OBVIOUS
    <3>2. ASSUME NEW j \in 1..(n - 1) PROVE W[j] \notin V
      <4>1. j \in 1..5 /\ ~(n <= j)
        BY <3>1
      <4>2. j \notin S
        BY <2>2, <4>1
      <4> QED
        BY <4>1, <4>2
    <3> QED
      BY <1>1, <3>1, <3>2
  <2>4. least \in DOMAIN W /\ P(least)
    <3> HIDE DEF P
    <3> QED
      BY <2>3
  <2>5. Coverage!Aggregate(V) = W[least]
    BY <1>3 DEF Coverage!Aggregate, W
  <2> HIDE DEF least
  <2>6. least \in 1..5
    BY <1>1, <2>4
  <2>7. CASE least = 1
    BY <1>1, <2>5, <2>7 DEF Coverage!Covered
  <2>8. CASE least = 2
    BY <1>1, <2>4, <2>5, <2>8 DEF Coverage!Covered
  <2>9. CASE least = 3
    BY <1>1, <2>5, <2>9 DEF Coverage!Covered
  <2>10. CASE least \in {4, 5}
    <3>1. W[1] \notin V /\ W[2] \notin V /\ W[3] \notin V
      BY <2>4, <2>10
    <3> QED
      BY <1>1, <2>5, <2>10, <3>1 DEF Coverage!Covered, Coverage!Verdict
  <2> QED
    BY <2>6, <2>7, <2>8, <2>9, <2>10
<1> QED
  BY <1>2, <1>3

\* The verdicts of the candidates are about these alarms.
Judged(verdict, alarms, complete) ==
    \A c \in Coverage!Candidate :
        verdict[c] = Coverage!Evaluate(c, alarms, RegionOf[c[1]] \in complete)

\* What a resource is called, by what was looked at.
LEMMA ResourceEvaluated ==
  ASSUME NEW alarms \in [Coverage!Slot -> Coverage!Alarm], NEW complete,
         NEW r \in Coverage!Monitored,
         NEW verdict,
         Judged(verdict, alarms, complete)
  PROVE  LET resolved == Coverage!CandidatesOf(r) \ Unresolved IN
         /\ Coverage!ResourceVerdict(r, verdict) \in Coverage!Covered =>
              \A c \in resolved : alarms[c] # "none"
         /\ Coverage!ResourceVerdict(r, verdict) = "missing" =>
              RegionOf[r] \in complete /\ \E c \in resolved : alarms[c] = "none"
<1> DEFINE V == {verdict[c] : c \in Coverage!CandidatesOf(r)}
<1>1. /\ Coverage!CandidatesOf(r) \subseteq Coverage!Candidate
      /\ \A c \in Coverage!CandidatesOf(r) : c[1] = r
  BY DEF Coverage!Candidate, Coverage!CandidatesOf
<1>2. ASSUME NEW c \in Coverage!CandidatesOf(r)
      PROVE  /\ verdict[c] \in Coverage!Verdict
             /\ verdict[c] \in Coverage!Covered => alarms[c] # "none"
             /\ verdict[c] = "missing" =>
                   RegionOf[r] \in complete /\ c \notin Unresolved /\ alarms[c] = "none"
  <2>1. c \in Coverage!Candidate /\ c[1] = r
    BY <1>1
  <2>2. verdict[c] = Coverage!Evaluate(c, alarms, RegionOf[r] \in complete)
    BY <2>1 DEF Judged
  <2>3. (RegionOf[r] \in complete) \in BOOLEAN
    OBVIOUS
  <2> QED
    BY <2>1, <2>2, <2>3, Evaluated
<1>3. V \in SUBSET Coverage!Verdict
  BY <1>2
<1>4. Coverage!ResourceVerdict(r, verdict) = Coverage!Aggregate(V)
  BY DEF Coverage!ResourceVerdict
<1>5. ASSUME Coverage!Aggregate(V) \in Coverage!Covered,
             NEW c \in Coverage!CandidatesOf(r)
      PROVE  alarms[c] # "none"
  <2>1. V \subseteq Coverage!Covered
    BY <1>3, <1>5, Aggregated
  <2> QED
    BY <1>2, <2>1
<1>6. ASSUME Coverage!Aggregate(V) = "missing"
      PROVE  RegionOf[r] \in complete
             /\ \E c \in Coverage!CandidatesOf(r) \ Unresolved : alarms[c] = "none"
  <2>1. "missing" \in V
    BY <1>3, <1>6, Aggregated
  <2> QED
    BY <1>2, <2>1
<1> QED
  BY <1>4, <1>5, <1>6

\* What the three tools answer.
LEMMA CoverageAsk ==
  ASSUME CoverageInv, tool = "coverage", Coverage!Ask
  PROVE  Coverage!VerdictsHold'
<1>1. /\ world.alarm \in [Coverage!Slot -> Coverage!Alarm]
      /\ world.namesake \in [Coverage!Namesake -> Coverage!Alarm]
      /\ world.snapshot # None =>
           /\ world.snapshot.taken \in [Coverage!Slot -> Coverage!Alarm]
           /\ world.snapshot.verdict = [c \in Coverage!Candidate |->
                  Coverage!Evaluate(c, world.snapshot.taken,
                                    RegionOf[c[1]] \in world.snapshot.complete)]
  BY DEF CoverageInv
<1>2. ASSUME NEW rows, Coverage!AnalyseStored(rows)
      PROVE  Coverage!VerdictsHold'
  <2> DEFINE taken == world.snapshot.taken
             complete == world.snapshot.complete
             verdict == world.snapshot.verdict
  <2>1. /\ answer'.tool = "coverage" /\ answer'.alarms = taken /\ answer'.complete = complete
        /\ answer'.verdict = [r \in rows |-> IF r \in Unparsed THEN "unsupported_resource"
                                  ELSE Coverage!ResourceVerdict(r, verdict)]
    BY <1>2 DEF Coverage!AnalyseStored
  <2>2. /\ taken \in [Coverage!Slot -> Coverage!Alarm]
        /\ Judged(verdict, taken, complete)
    BY <1>1, <1>2 DEF Judged, Coverage!AnalyseStored, Coverage!Servable
  <2> HIDE DEF taken, complete, verdict
  <2>3. ASSUME NEW r \in DOMAIN answer'.verdict \cap Coverage!Monitored
        PROVE  LET resolved == Coverage!CandidatesOf(r) \ Unresolved IN
               /\ answer'.verdict[r] \in Coverage!Covered => \A c \in resolved : taken[c] # "none"
               /\ answer'.verdict[r] = "missing" =>
                    RegionOf[r] \in complete /\ \E c \in resolved : taken[c] = "none"
    <3>1. CASE r \in Unparsed
      BY <2>1, <3>1 DEF Coverage!Covered
    <3>2. CASE r \notin Unparsed
      <4>1. answer'.verdict[r] = Coverage!ResourceVerdict(r, verdict)
        BY <2>1, <3>2
      <4>2. LET resolved == Coverage!CandidatesOf(r) \ Unresolved IN
            /\ Coverage!ResourceVerdict(r, verdict) \in Coverage!Covered =>
                 \A c \in resolved : taken[c] # "none"
            /\ Coverage!ResourceVerdict(r, verdict) = "missing" =>
                 RegionOf[r] \in complete /\ \E c \in resolved : taken[c] = "none"
        BY <2>2, ResourceEvaluated
      <4> QED
        BY <4>1, <4>2
    <3> QED
      BY <3>1, <3>2
  <2> QED
    BY <2>1, <2>3 DEF Coverage!VerdictsHold
<1>3. ASSUME NEW named, NEW mismatch, Coverage!AnalyseLive(named, mismatch)
      PROVE  Coverage!VerdictsHold'
  <2> DEFINE seen == Coverage!SeenLive
             verdict == [c \in Coverage!Candidate |-> Coverage!Evaluate(c, seen, TRUE)]
  <2>1. /\ answer'.tool = "coverage" /\ answer'.live /\ answer'.alarms = world.alarm
        /\ answer'.complete = Coverage!Region
        /\ answer'.verdict = [r \in named |-> IF r \in Unparsed THEN "unsupported_resource"
                                  ELSE Coverage!ResourceVerdict(r, verdict)]
    BY <1>3 DEF Coverage!AnalyseLive
  <2>2. /\ seen \in [Coverage!Slot -> Coverage!Alarm]
        /\ \A c \in Coverage!Slot : c[1] \notin Away => seen[c] = world.alarm[c]
    BY <1>1 DEF Coverage!SeenLive, Coverage!Namesake
  <2> HIDE DEF seen
  <2>3. \A c \in Coverage!Candidate : RegionOf[c[1]] \in Coverage!Region
    BY DEF Coverage!Candidate, Coverage!CandidatesOf, Coverage!Region
  <2>4. Judged(verdict, seen, Coverage!Region)
    <3>1. ASSUME NEW c \in Coverage!Candidate
          PROVE  verdict[c] = Coverage!Evaluate(c, seen, RegionOf[c[1]] \in Coverage!Region)
      BY <2>3 DEF Coverage!Evaluate
    <3> QED
      BY <3>1 DEF Judged
  <2> HIDE DEF verdict
  <2>5. ASSUME NEW r \in (DOMAIN answer'.verdict \cap Coverage!Monitored) \ Away
        PROVE  LET resolved == Coverage!CandidatesOf(r) \ Unresolved IN
               /\ answer'.verdict[r] \in Coverage!Covered =>
                    \A c \in resolved : world.alarm[c] # "none"
               /\ answer'.verdict[r] = "missing" =>
                    RegionOf[r] \in Coverage!Region /\ \E c \in resolved : world.alarm[c] = "none"
    <3>1. \A c \in Coverage!CandidatesOf(r) \ Unresolved : seen[c] = world.alarm[c]
      BY <2>2 DEF Coverage!Slot, Coverage!Candidate, Coverage!CandidatesOf
    <3>2. CASE r \in Unparsed
      BY <2>1, <3>2 DEF Coverage!Covered
    <3>3. CASE r \notin Unparsed
      <4>1. answer'.verdict[r] = Coverage!ResourceVerdict(r, verdict)
        BY <2>1, <3>3
      <4>2. LET resolved == Coverage!CandidatesOf(r) \ Unresolved IN
            /\ Coverage!ResourceVerdict(r, verdict) \in Coverage!Covered =>
                 \A c \in resolved : seen[c] # "none"
            /\ Coverage!ResourceVerdict(r, verdict) = "missing" =>
                 RegionOf[r] \in Coverage!Region /\ \E c \in resolved : seen[c] = "none"
        BY <2>2, <2>4, ResourceEvaluated
      <4> QED
        BY <3>1, <4>1, <4>2
    <3> QED
      BY <3>2, <3>3
  <2> QED
    BY <2>1, <2>5 DEF Coverage!VerdictsHold
<1>4. ASSUME world.snapshot # None, NEW id,
             NEW chosen \in SUBSET {c \in Coverage!Candidate : world.snapshot.verdict[c] = "missing"},
             NEW known, Coverage!Prepare(id, chosen, known)
      PROVE  Coverage!VerdictsHold'
  <2>1. CASE ~Coverage!Servable \/ world.snapshot.id # id
    <3>1. answer' = [tool |-> "refused"]
      BY <1>4, <2>1 DEF Coverage!Prepare
    <3> QED
      BY <3>1 DEF Coverage!VerdictsHold
  <2>2. CASE ~(~Coverage!Servable \/ world.snapshot.id # id)
    <3> DEFINE excluded == {c \in chosen : Coverage!Implemented(c)}
               deployable == {c \in chosen : ~Coverage!Implemented(c)}
    <3>1. /\ answer'.tool = "deployment" /\ world' = world /\ answer'.chosen = chosen
          /\ answer'.excluded = excluded
          /\ answer'.blocked = deployable \ known
          /\ answer'.deployed = deployable \ (deployable \ known)
      BY <1>4, <2>2 DEF Coverage!Prepare, Coverage!Blocked
    <3>2. ASSUME NEW c \in deployable PROVE c \notin Coverage!Existing
      <4>1. c \in Coverage!Candidate
            /\ Coverage!Evaluate(c, world.snapshot.taken,
                                 RegionOf[c[1]] \in world.snapshot.complete) = "missing"
        BY <1>1, <1>4
      <4>2. c \notin Unresolved
        BY <4>1 DEF Coverage!Evaluate
      <4>3. Coverage!Evaluate(c, world.alarm, TRUE) \notin Coverage!Covered
        BY DEF Coverage!Implemented
      <4>4. world.alarm[c] = "none"
        BY <1>1, <4>1, <4>2, <4>3, Evaluated
      <4> QED
        BY <4>4 DEF Coverage!Existing
    <3>3. Coverage!Existing' = Coverage!Existing
      BY <3>1 DEF Coverage!Existing
    <3>4. chosen = excluded \cup deployable
      OBVIOUS
    <3> HIDE DEF excluded, deployable
    <3> QED
      BY <3>1, <3>2, <3>3, <3>4 DEF Coverage!VerdictsHold
  <2> QED
    BY <2>1, <2>2
<1> QED
  BY <1>2, <1>3, <1>4, SMTT(20) DEF Coverage!Ask

\* Nothing is said of alarms that were not looked at, and nothing that exists is
\* deployed again, for any resources, recommendations and snapshots.
THEOREM CoverageVerdictsHold == Spec => []VerdictsHold
<1>1. Init => CoverageInv
  BY DEF Init, CoverageInv, Coverage!Init, Coverage!NoAnswer, Coverage!VerdictsHold, Coverage!Alarm
<1>2. CoverageInv /\ [Next]_vars => CoverageInv'
  <2> SUFFICES ASSUME CoverageInv, [Next]_vars, tool' = "coverage" PROVE CoverageInv'
    BY DEF CoverageInv
  <2>1. tool = "coverage"
    BY DEF Next, vars
  <2>2. CASE UNCHANGED vars
    BY <2>1, <2>2 DEF vars, CoverageInv, Coverage!VerdictsHold, Coverage!Existing
  <2>3. ASSUME answer.tool = "none", answer' = answer PROVE Coverage!VerdictsHold'
    BY <2>3 DEF Coverage!VerdictsHold
  <2>4. ASSUME NEW c \in Coverage!Slot, NEW a \in Coverage!Alarm, Coverage!ChangeAlarm(c, a),
               Coverage!VerdictsHold'
        PROVE  CoverageInv'
    <3>1. world' = [world EXCEPT !.alarm[c] = a]
      BY <2>4 DEF Coverage!ChangeAlarm
    <3>2. world'.alarm = [world.alarm EXCEPT ![c] = a] /\ world'.snapshot = world.snapshot
          /\ world'.namesake = world.namesake
          /\ world' = [alarm |-> world'.alarm, namesake |-> world'.namesake,
                       snapshot |-> world'.snapshot]
      BY <2>1, <3>1 DEF CoverageInv
    <3> QED
      BY <2>1, <2>4, <3>2 DEF CoverageInv
  <2>9. ASSUME NEW c \in Coverage!Namesake, NEW a \in Coverage!Alarm,
               Coverage!ChangeNamesake(c, a), Coverage!VerdictsHold'
        PROVE  CoverageInv'
    <3>1. world' = [world EXCEPT !.namesake[c] = a]
      BY <2>9 DEF Coverage!ChangeNamesake
    <3>2. world'.namesake = [world.namesake EXCEPT ![c] = a] /\ world'.snapshot = world.snapshot
          /\ world'.alarm = world.alarm
          /\ world' = [alarm |-> world'.alarm, namesake |-> world'.namesake,
                       snapshot |-> world'.snapshot]
      BY <2>1, <3>1 DEF CoverageInv
    <3> QED
      BY <2>1, <2>9, <3>2 DEF CoverageInv
  <2>5. ASSUME NEW complete, Coverage!TakeSnapshot(complete), Coverage!VerdictsHold'
        PROVE  CoverageInv'
    <3> DEFINE s == [id |-> Coverage!Id + 1, state |-> "fresh", complete |-> complete,
                     taken |-> world.alarm,
                     verdict |-> [c \in Coverage!Candidate |->
                                    Coverage!Evaluate(c, world.alarm, RegionOf[c[1]] \in complete)]]
    <3>1. world' = [world EXCEPT !.snapshot = s]
      BY <2>5 DEF Coverage!TakeSnapshot
    <3>2. world'.alarm = world.alarm /\ world'.snapshot = s /\ world'.namesake = world.namesake
          /\ world' = [alarm |-> world'.alarm, namesake |-> world'.namesake,
                       snapshot |-> world'.snapshot]
      BY <2>1, <3>1 DEF CoverageInv
    <3>3. /\ s = [id |-> s.id, state |-> s.state, complete |-> s.complete, taken |-> s.taken,
                  verdict |-> s.verdict]
          /\ s.taken = world.alarm /\ s.complete = complete
          /\ s.verdict = [c \in Coverage!Candidate |->
                            Coverage!Evaluate(c, s.taken, RegionOf[c[1]] \in s.complete)]
      OBVIOUS
    <3> HIDE DEF s
    <3> QED
      BY <2>1, <2>5, <3>2, <3>3 DEF CoverageInv
  <2>6. ASSUME NEW state, Coverage!Grow(state), Coverage!VerdictsHold'
        PROVE  CoverageInv'
    <3> DEFINE s == [world.snapshot EXCEPT !.state = state]
    <3>1. world' = [world EXCEPT !.snapshot.state = state] /\ world.snapshot # None
      BY <2>6 DEF Coverage!Grow
    <3>2. world'.alarm = world.alarm /\ world'.snapshot = s /\ world'.namesake = world.namesake
          /\ world' = [alarm |-> world'.alarm, namesake |-> world'.namesake,
                       snapshot |-> world'.snapshot]
      BY <2>1, <3>1 DEF CoverageInv
    <3>3. /\ s.taken = world.snapshot.taken /\ s.complete = world.snapshot.complete
          /\ s.verdict = world.snapshot.verdict
          /\ s = [id |-> s.id, state |-> s.state, complete |-> s.complete, taken |-> s.taken,
                  verdict |-> s.verdict]
      BY <2>1, <3>1 DEF CoverageInv
    <3> HIDE DEF s
    <3> QED
      BY <2>1, <2>6, <3>1, <3>2, <3>3 DEF CoverageInv
  <2>7. CASE Coverage!Ask
    <3>1. Coverage!VerdictsHold' /\ world' = world
      BY <2>1, <2>7, CoverageAsk
        DEF Coverage!Ask, Coverage!AnalyseStored, Coverage!AnalyseLive, Coverage!Prepare
    <3> QED
      BY <2>1, <3>1 DEF CoverageInv
  <2>8. CASE Next
    <3>1. Coverage!Next
      BY <2>1, <2>8 DEF Next
    <3>2. answer.tool = "none"
      BY <3>1 DEF Coverage!Next, Coverage!NoAnswer
    <3>3. \/ Coverage!Ask
          \/ /\ answer' = answer
             /\ \/ \E c \in Coverage!Slot, a \in Coverage!Alarm : Coverage!ChangeAlarm(c, a)
                \/ \E c \in Coverage!Namesake, a \in Coverage!Alarm :
                      Coverage!ChangeNamesake(c, a)
                \/ \E complete : Coverage!TakeSnapshot(complete)
                \/ \E state : Coverage!Grow(state)
      BY <3>1 DEF Coverage!Next, Coverage!ChangeAlarm, Coverage!ChangeNamesake,
                  Coverage!TakeSnapshot, Coverage!Grow
    <3> QED
      BY <2>3, <2>4, <2>5, <2>6, <2>7, <2>9, <3>2, <3>3
  <2> QED
    BY <2>2, <2>8
<1>3. CoverageInv => VerdictsHold
  BY DEF CoverageInv, VerdictsHold
<1> QED
  BY <1>1, <1>2, <1>3, PTL DEF Spec

-----------------------------------------------------------------------------
(* Lambda upgrades *)

\* What is known of the code of a function.
Analysed(f, code) ==
    /\ code = [status |-> code.status, scanned |-> code.scanned, findings |-> code.findings]
    /\ code.scanned \subseteq Files[f]
    /\ code.findings = code.scanned \cap Breaking

\* A region that was read has left the functions that were unsupported when the
\* report was begun; code is analysed of the first of what was found.
UpgradesInv ==
    tool = "upgrades" =>
        /\ world = [day |-> world.day, since |-> world.since, stage |-> world.stage,
                    approaching |-> world.approaching, left |-> world.left,
                    errors |-> world.errors, status |-> world.status,
                    invoked |-> world.invoked, code |-> world.code]
        /\ world.day \in Nat /\ world.since \in Nat /\ world.since <= world.day
        /\ world.stage \in {"idle", "scan", "code"}
        /\ Upgrades!Found \subseteq Upgrades!Function
        /\ \A f \in Upgrades!Found : world.status[f] \in {"end_of_life", "deprecated", "active"}
        /\ world.stage # "idle" =>
             \A f \in Upgrades!Function :
                Upgrades!Status(f, world.since) = "end_of_life" =>
                    \/ world.stage = "scan" /\ Functions[f].region \in world.left
                    \/ Functions[f].region \in world.errors
                    \/ f \in Upgrades!Critical
        /\ world.stage # "code" => DOMAIN world.code = {}
        /\ DOMAIN world.code \subseteq Upgrades!Found
        /\ \A f \in DOMAIN world.code : Analysed(f, world.code[f])
        /\ world.stage = "code" =>
             LET chosen == world.left \cup DOMAIN world.code IN
             /\ chosen \subseteq Upgrades!Found
             /\ \A f \in chosen \cap Upgrades!Critical, g \in Upgrades!Critical \ chosen :
                    ~Upgrades!CriticalBefore(g, f)
        /\ Upgrades!UpgradesAreJustified

LEMMA SameCardinality2 == \A S : Upgrades!Cardinality(S) = Cardinality(S)
BY DEF Upgrades!Cardinality, Cardinality

LEMMA StatusValues ==
  ASSUME NEW f, NEW day
  PROVE  Upgrades!Status(f, day) \in {"end_of_life", "deprecated", "active"}
BY DEF Upgrades!Status

\* What is unsupported stays so.
LEMMA StaysUnsupported ==
  ASSUME NEW f \in Upgrades!Function, NEW since \in Nat, NEW day \in Nat, since <= day,
         Upgrades!Status(f, since) = "end_of_life"
  PROVE  Upgrades!Status(f, day) = "end_of_life"
<1>1. Functions[f].eol \in Nat
  BY RuntimeConstants DEF Upgrades!Function
<1>2. since > Functions[f].eol
  BY DEF Upgrades!Status
<1>3. day > Functions[f].eol /\ ~(day <= Functions[f].eol)
  BY <1>1, <1>2
<1> QED
  BY <1>3 DEF Upgrades!Status

\* A finite set in three parts.
LEMMA ThreeParts ==
  ASSUME NEW S, IsFiniteSet(S), NEW A \in SUBSET S, NEW B \in SUBSET S, NEW C \in SUBSET S,
         A \cup B \cup C = S, A \cap B = {}, (A \cup B) \cap C = {}
  PROVE  Cardinality(A) + Cardinality(B) + Cardinality(C) = Cardinality(S)
<1>1. IsFiniteSet(A) /\ IsFiniteSet(B) /\ IsFiniteSet(C) /\ IsFiniteSet(A \cup B)
  BY FS_Subset
<1>2. /\ Cardinality(A) \in Nat /\ Cardinality(B) \in Nat /\ Cardinality(C) \in Nat
      /\ Cardinality(A \cup B) \in Nat
  BY <1>1, FS_CardinalityType
<1>3. Cardinality(A \cap B) = 0 /\ Cardinality((A \cup B) \cap C) = 0
  BY FS_EmptySet
<1>4. Cardinality(A \cup B) = Cardinality(A) + Cardinality(B) - Cardinality(A \cap B)
  BY <1>1, FS_Union
<1>5. Cardinality((A \cup B) \cup C)
        = Cardinality(A \cup B) + Cardinality(C) - Cardinality((A \cup B) \cap C)
  BY <1>1, FS_Union
<1>6. (A \cup B) \cup C = S
  OBVIOUS
<1>7. Cardinality((A \cup B) \cup C) = Cardinality(S)
  BY <1>6, Zenon
<1>8. Cardinality(A \cup B) = Cardinality(A) + Cardinality(B)
  BY <1>2, <1>3, <1>4
<1>9. Cardinality(S) = Cardinality(A \cup B) + Cardinality(C)
  BY <1>2, <1>3, <1>5, <1>7, SMT
<1> QED
  BY <1>2, <1>8, <1>9

\* A list of functions that is shorter than its cap is complete.
LEMMA UpgradesList ==
  ASSUME NEW regions, NEW approaching, NEW max \in {1, 2},
         Upgrades!Deprecated(regions, approaching, max)
  PROVE  Upgrades!UpgradesAreJustified'
<1>1. PICK failed \in SUBSET regions :
      \E rows \in {T \in SUBSET Upgrades!Included(UNION {Upgrades!In(r) : r \in regions \ failed}, approaching) :
                    \A r \in regions \ failed :
                        T \cap Upgrades!In(r) \in Upgrades!AtMost(max, Upgrades!Included(Upgrades!In(r), approaching))} :
        /\ answer' = [tool |-> "list", rows |-> rows, max |-> max,
                      approaching |-> approaching, regions |-> regions, errors |-> failed]
        /\ UNCHANGED world
  BY DEF Upgrades!Deprecated
<1>2. PICK rows :
        /\ \A r \in regions \ failed :
             rows \cap Upgrades!In(r) \in Upgrades!AtMost(max, Upgrades!Included(Upgrades!In(r), approaching))
        /\ answer' = [tool |-> "list", rows |-> rows, max |-> max,
                      approaching |-> approaching, regions |-> regions, errors |-> failed]
        /\ UNCHANGED world
  BY <1>1
<1>3. /\ answer'.tool = "list" /\ answer'.rows = rows /\ answer'.max = max
      /\ answer'.approaching = approaching /\ answer'.regions = regions
      /\ answer'.errors = failed /\ world' = world
  BY <1>2
<1>4. ASSUME NEW r \in regions \ failed, Cardinality(rows \cap Upgrades!In(r)) < max
      PROVE  Upgrades!Included(Upgrades!In(r), approaching) \subseteq rows
  <2> DEFINE T == rows \cap Upgrades!In(r)
             S == Upgrades!Included(Upgrades!In(r), approaching)
  <2>1. IsFiniteSet(S)
    BY RuntimeConstants, FS_Subset DEF Upgrades!Included, Upgrades!In, Upgrades!Function
  <2>2. T \in SUBSET S
        /\ Cardinality(T) = IF Cardinality(S) < max THEN Cardinality(S) ELSE max
    BY <1>2, SameCardinality2 DEF Upgrades!AtMost
  <2>3. T = S
    <3> HIDE DEF S
    <3> QED
      BY <1>4, <2>1, <2>2, Cut
  <2> QED
    BY <2>3
<1>5. \A S : Upgrades!Included(S, approaching)' = Upgrades!Included(S, approaching)
  BY <1>3 DEF Upgrades!Included
<1> QED
  BY <1>3, <1>4, SameCardinality2 DEF Upgrades!UpgradesAreJustified, Upgrades!Included, Upgrades!Status

\* The report.
LEMMA UpgradesReport ==
  ASSUME UpgradesInv, tool = "upgrades", Upgrades!Render
  PROVE  Upgrades!UpgradesAreJustified'
<1> DEFINE critical == Upgrades!Critical
           code == DOMAIN world.code
<1>1. /\ world.stage = "code" /\ world.left = {}
      /\ answer'.tool = "report"
      /\ answer'.critical = [f \in critical |-> Upgrades!Recommend(f)]
      /\ answer'.deletable = Upgrades!Deletable
      /\ answer'.high = Cardinality({f \in Upgrades!Found : world.status[f] = "deprecated"})
      /\ answer'.medium = Cardinality({f \in Upgrades!Found : world.status[f] = "active"})
      /\ answer'.scanned = critical \cap code
      /\ world' = world
  BY SameCardinality2 DEF Upgrades!Render
<1>2. DOMAIN answer'.critical = critical
  BY <1>1
<1>3. ASSUME NEW f \in Upgrades!Function, Upgrades!Status(f, world.since) = "end_of_life"
      PROVE  f \in critical \/ Functions[f].region \in world.errors
  BY <1>1, <1>3 DEF UpgradesInv
<1>4. Cardinality(critical) + answer'.high + answer'.medium = Cardinality(Upgrades!Found)
  <2> DEFINE A == {f \in Upgrades!Found : world.status[f] = "end_of_life"}
             B == {f \in Upgrades!Found : world.status[f] = "deprecated"}
             C == {f \in Upgrades!Found : world.status[f] = "active"}
  <2>1. IsFiniteSet(Upgrades!Found)
    BY RuntimeConstants, FS_Subset DEF UpgradesInv, Upgrades!Function
  <2>2. A \cup B \cup C = Upgrades!Found /\ A \cap B = {} /\ (A \cup B) \cap C = {}
    BY DEF UpgradesInv
  <2>3. A \in SUBSET Upgrades!Found /\ B \in SUBSET Upgrades!Found /\ C \in SUBSET Upgrades!Found
    OBVIOUS
  <2>4. critical = A /\ answer'.high = Cardinality(B) /\ answer'.medium = Cardinality(C)
    BY <1>1 DEF Upgrades!Critical
  <2> HIDE DEF A, B, C, critical
  <2> QED
    BY <2>1, <2>2, <2>3, <2>4, ThreeParts
<1>5. ASSUME NEW f \in critical, answer'.critical[f] = "flip"
      PROVE  f \in code /\ world.code[f].status = "complete"
             /\ world.code[f].scanned \cap Breaking = {}
  <2>1. Upgrades!Recommend(f) = "flip"
    BY <1>1, <1>5
  <2>2. f \in code /\ world.code[f].findings = {} /\ world.code[f].status = "complete"
    BY <2>1 DEF Upgrades!Recommend
  <2> QED
    BY <2>2 DEF UpgradesInv, Analysed
<1>10. ASSUME NEW f \in critical, answer'.critical[f] = "changes"
       PROVE  Files[f] \cap Breaking # {}
  <2>1. Upgrades!Recommend(f) = "changes"
    BY <1>1, <1>10
  <2>2. f \in code /\ world.code[f].findings # {}
    BY <2>1 DEF Upgrades!Recommend
  <2> QED
    BY <2>2 DEF UpgradesInv, Analysed
<1>6. ASSUME NEW f \in critical \cap code, f \in TestNamed,
             NEW g \in critical \ TestNamed
      PROVE  g \in code
  <2>1. Upgrades!CriticalBefore(g, f)
    BY <1>6 DEF Upgrades!CriticalBefore
  <2> QED
    BY <1>1, <1>6, <2>1 DEF UpgradesInv
<1>7. \A f \in Upgrades!Deletable \ TestNamed : world.invoked[f] # "recently"
  BY DEF Upgrades!Deletable
<1> HIDE DEF critical, code
<1>8. Upgrades!Found' = Upgrades!Found /\ DOMAIN world'.code = code
      /\ world'.code = world.code /\ world'.errors = world.errors /\ world'.since = world.since
      /\ world'.invoked = world.invoked
  BY <1>1 DEF Upgrades!Found, code
<1> QED
  BY <1>1, <1>2, <1>3, <1>4, <1>5, <1>6, <1>7, <1>8, <1>10, SameCardinality2
    DEF Upgrades!UpgradesAreJustified, Upgrades!Status

\* A region that is read leaves what was unsupported when the report was begun.
LEMMA UpgradesScan ==
  ASSUME UpgradesInv, tool = "upgrades", answer = Upgrades!NoAnswer,
         NEW r, NEW ok \in BOOLEAN, Upgrades!ScanRegion(r, ok)
  PROVE  UpgradesInv'
<1> DEFINE new == IF ok THEN Upgrades!Included(Upgrades!In(r), world.approaching) ELSE {}
           status == [f \in DOMAIN world.status \cup new |->
                            IF f \in new THEN Upgrades!Status(f, world.day) ELSE world.status[f]]
           w == [day |-> world.day, since |-> world.since, stage |-> world.stage,
                 approaching |-> world.approaching, left |-> world.left \ {r},
                 errors |-> IF ok THEN world.errors ELSE world.errors \cup {r},
                 status |-> status, invoked |-> world.invoked, code |-> world.code]
<1>1. /\ world' = [world EXCEPT
            !.left = @ \ {r},
            !.errors = IF ok THEN @ ELSE @ \cup {r},
            !.status = status]
      /\ world.stage = "scan" /\ answer' = answer
  BY DEF Upgrades!ScanRegion
<1>2. world' = w
  BY <1>1 DEF UpgradesInv
<1>3. /\ world'.day = world.day /\ world'.since = world.since /\ world'.stage = "scan"
      /\ world'.approaching = world.approaching /\ world'.left = world.left \ {r}
      /\ world'.errors = (IF ok THEN world.errors ELSE world.errors \cup {r})
      /\ world'.status = status /\ world'.invoked = world.invoked /\ world'.code = world.code
  BY <1>1, <1>2
<1>4. world' = [day |-> world'.day, since |-> world'.since, stage |-> world'.stage,
                approaching |-> world'.approaching, left |-> world'.left,
                errors |-> world'.errors, status |-> world'.status,
                invoked |-> world'.invoked, code |-> world'.code]
  BY <1>2
<1>5. DOMAIN status = Upgrades!Found \cup new /\ new \subseteq Upgrades!Function
  BY DEF Upgrades!Found, Upgrades!Included, Upgrades!In
<1>6. \A f \in new : status[f] = Upgrades!Status(f, world.day) /\ Functions[f].region = r
  BY DEF Upgrades!Included, Upgrades!In
<1>7. \A f \in Upgrades!Found \ new : status[f] = world.status[f]
  BY DEF Upgrades!Found
<1>8. ASSUME ok, NEW f \in Upgrades!Function, Functions[f].region = r,
             Upgrades!Status(f, world.since) = "end_of_life"
      PROVE  f \in new /\ status[f] = "end_of_life"
  <2>1. Upgrades!Status(f, world.day) = "end_of_life"
    BY <1>8, StaysUnsupported DEF UpgradesInv
  <2>2. f \in new
    BY <1>8, <2>1 DEF Upgrades!Included, Upgrades!In
  <2> QED
    BY <1>6, <2>1, <2>2
<1>9. ASSUME NEW f \in Upgrades!Function, f \in Upgrades!Critical, Functions[f].region # r
      PROVE  status[f] = "end_of_life" /\ f \in Upgrades!Found
  BY <1>6, <1>7, <1>9 DEF Upgrades!Critical
<1>10. Upgrades!Found' = DOMAIN status
       /\ Upgrades!Critical' = {f \in DOMAIN status : status[f] = "end_of_life"}
  BY <1>3 DEF Upgrades!Found, Upgrades!Critical
<1>11. \A f \in DOMAIN status : status[f] \in {"end_of_life", "deprecated", "active"}
  <2> TAKE f \in DOMAIN status
  <2>1. CASE f \in new
    BY <1>6, <2>1, StatusValues
  <2>2. CASE f \notin new
    BY <1>5, <1>7, <2>2 DEF UpgradesInv
  <2> QED
    BY <2>1, <2>2
<1> HIDE DEF new, status, w
<1>12. ASSUME NEW f \in Upgrades!Function, Upgrades!Status(f, world.since) = "end_of_life"
       PROVE  \/ Functions[f].region \in world'.left
              \/ Functions[f].region \in world'.errors
              \/ f \in Upgrades!Critical'
  <2>1. \/ Functions[f].region \in world.left
        \/ Functions[f].region \in world.errors
        \/ f \in Upgrades!Critical
    BY <1>1, <1>12 DEF UpgradesInv
  <2>2. CASE Functions[f].region = r
    <3>1. CASE ok
      BY <1>5, <1>8, <1>10, <1>12, <2>2, <3>1
    <3>2. CASE ~ok
      BY <1>3, <2>2, <3>2
    <3> QED
      BY <3>1, <3>2
  <2>3. CASE Functions[f].region # r
    BY <1>3, <1>5, <1>9, <1>10, <2>1, <2>3
  <2> QED
    BY <2>2, <2>3
<1>13. \A f, day : Upgrades!Status(f, day)' = Upgrades!Status(f, day')
  BY DEF Upgrades!Status
<1>14. Upgrades!UpgradesAreJustified'
  BY <1>1 DEF Upgrades!UpgradesAreJustified, Upgrades!NoAnswer
<1>15. Upgrades!Found \subseteq Upgrades!Function /\ Upgrades!Found' \subseteq Upgrades!Function
       /\ \A f \in Upgrades!Found' : world'.status[f] \in {"end_of_life", "deprecated", "active"}
  BY <1>3, <1>5, <1>10, <1>11 DEF UpgradesInv
<1>16. DOMAIN world.code = {}
  BY <1>1 DEF UpgradesInv
<1> QED
  BY <1>3, <1>4, <1>12, <1>14, <1>15, <1>16 DEF UpgradesInv, Upgrades!Status

\* Code is read of the first functions in the order of importance.
LEMMA UpgradesSelect ==
  ASSUME UpgradesInv, tool = "upgrades", answer = Upgrades!NoAnswer,
         NEW include, NEW asked, NEW idle, Upgrades!Select(include, asked, idle)
  PROVE  UpgradesInv'
<1>1. PICK critical \in Upgrades!First(MaxCritical, Upgrades!Critical, Upgrades!CriticalBefore),
           high \in Upgrades!First(MaxHigh, Upgrades!High, Upgrades!HighBefore) :
        world' = [world EXCEPT
            !.stage = "code", !.left = critical \cup high,
            !.invoked = [f \in Upgrades!Found |-> IF f \in asked \ idle THEN "recently" ELSE "unknown"]]
  BY DEF Upgrades!Select
<1>2. world.stage = "scan" /\ world.left = {} /\ answer' = answer
  BY DEF Upgrades!Select
<1>3. /\ world'.day = world.day /\ world'.since = world.since /\ world'.stage = "code"
      /\ world'.left = critical \cup high /\ world'.errors = world.errors
      /\ world'.status = world.status /\ world'.code = world.code
      /\ world' = [day |-> world'.day, since |-> world'.since, stage |-> world'.stage,
                   approaching |-> world'.approaching, left |-> world'.left,
                   errors |-> world'.errors, status |-> world'.status,
                   invoked |-> world'.invoked, code |-> world'.code]
  BY <1>1 DEF UpgradesInv
<1>4. /\ critical \subseteq Upgrades!Critical
      /\ \A f \in critical, g \in Upgrades!Critical \ critical : ~Upgrades!CriticalBefore(g, f)
      /\ high \subseteq Upgrades!High
  BY DEF Upgrades!First, Upgrades!AtMost
<1>5. Upgrades!High \cap Upgrades!Critical = {} /\ Upgrades!High \subseteq Upgrades!Found
      /\ Upgrades!Critical \subseteq Upgrades!Found
  BY DEF Upgrades!High, Upgrades!Critical
<1>6. Upgrades!Found' = Upgrades!Found /\ Upgrades!Critical' = Upgrades!Critical
  BY <1>3 DEF Upgrades!Found, Upgrades!Critical
<1>7. DOMAIN world'.code = {}
  BY <1>2, <1>3 DEF UpgradesInv
<1>8. world'.left \cup DOMAIN world'.code = critical \cup high
  BY <1>3, <1>7
<1>9. \A f \in (critical \cup high) \cap Upgrades!Critical,
         g \in Upgrades!Critical \ (critical \cup high) : ~Upgrades!CriticalBefore(g, f)
  BY <1>4, <1>5
<1>10. critical \cup high \subseteq Upgrades!Found
  BY <1>4, <1>5
<1>11. \A f, g : Upgrades!CriticalBefore(f, g)' <=> Upgrades!CriticalBefore(f, g)
  BY DEF Upgrades!CriticalBefore, Upgrades!Older
<1>12. Upgrades!UpgradesAreJustified'
  BY <1>2 DEF Upgrades!UpgradesAreJustified, Upgrades!NoAnswer
<1>13. /\ world.day \in Nat /\ world.since \in Nat /\ world.since <= world.day
       /\ Upgrades!Found \subseteq Upgrades!Function
       /\ \A f \in Upgrades!Found : world.status[f] \in {"end_of_life", "deprecated", "active"}
  BY DEF UpgradesInv
<1>14. ASSUME NEW f \in Upgrades!Function, Upgrades!Status(f, world.since) = "end_of_life"
       PROVE  Functions[f].region \in world.errors \/ f \in Upgrades!Critical
  BY <1>2, <1>14 DEF UpgradesInv
<1>15. \A f \in Upgrades!Function : Upgrades!Status(f, world'.since) = "end_of_life" =>
         \/ Functions[f].region \in world'.errors
         \/ f \in Upgrades!Critical'
  BY <1>3, <1>6, <1>14
<1> QED
  BY <1>3, <1>6, <1>7, <1>8, <1>9, <1>10, <1>12, <1>13, <1>15
    DEF UpgradesInv, Upgrades!Status, Upgrades!CriticalBefore, Upgrades!Older

\* The order in which the pool takes the functions does not matter.
LEMMA UpgradesAnalyze ==
  ASSUME UpgradesInv, tool = "upgrades", answer = Upgrades!NoAnswer,
         NEW f, NEW status, NEW scanned, Upgrades!AnalyzeFunction(f, status, scanned)
  PROVE  UpgradesInv'
<1> DEFINE code == [g \in DOMAIN world.code \cup {f} |->
                        IF g = f THEN [status |-> status, scanned |-> scanned,
                                       findings |-> scanned \cap Breaking]
                                 ELSE world.code[g]]
<1>1. /\ world.stage = "code" /\ f \in world.left /\ answer' = answer
      /\ world' = [world EXCEPT !.left = @ \ {f}, !.code = code]
  BY DEF Upgrades!AnalyzeFunction, Upgrades!Findings
<1>2. /\ world'.day = world.day /\ world'.since = world.since /\ world'.stage = "code"
      /\ world'.left = world.left \ {f} /\ world'.errors = world.errors
      /\ world'.status = world.status /\ world'.code = code
      /\ world' = [day |-> world'.day, since |-> world'.since, stage |-> world'.stage,
                   approaching |-> world'.approaching, left |-> world'.left,
                   errors |-> world'.errors, status |-> world'.status,
                   invoked |-> world'.invoked, code |-> world'.code]
  BY <1>1 DEF UpgradesInv
<1>3. DOMAIN code = DOMAIN world.code \cup {f}
  OBVIOUS
<1>4. world'.left \cup DOMAIN world'.code = world.left \cup DOMAIN world.code
  BY <1>1, <1>2, <1>3
<1>5. \A g \in DOMAIN code : Analysed(g, code[g])
  <2> TAKE g \in DOMAIN code
  <2>1. CASE g = f
    <3>1. code[g] = [status |-> status, scanned |-> scanned, findings |-> scanned \cap Breaking]
      BY <2>1
    <3>2. scanned \subseteq Files[g]
      BY <2>1 DEF Upgrades!AnalyzeFunction, Upgrades!Extracted
    <3> HIDE DEF code
    <3> QED
      BY <3>1, <3>2 DEF Analysed
  <2>2. CASE g # f
    <3>1. g \in DOMAIN world.code /\ code[g] = world.code[g]
      BY <2>2
    <3> HIDE DEF code
    <3> QED
      BY <3>1 DEF UpgradesInv
  <2> QED
    BY <2>1, <2>2
<1> HIDE DEF code
<1>6. Upgrades!Found' = Upgrades!Found /\ Upgrades!Critical' = Upgrades!Critical
  BY <1>2 DEF Upgrades!Found, Upgrades!Critical
<1>7. Upgrades!UpgradesAreJustified'
  BY <1>1 DEF Upgrades!UpgradesAreJustified, Upgrades!NoAnswer
<1>8. /\ world.day \in Nat /\ world.since \in Nat /\ world.since <= world.day
      /\ Upgrades!Found \subseteq Upgrades!Function
      /\ \A g \in Upgrades!Found : world.status[g] \in {"end_of_life", "deprecated", "active"}
      /\ \A g \in Upgrades!Function : Upgrades!Status(g, world.since) = "end_of_life" =>
            Functions[g].region \in world.errors \/ g \in Upgrades!Critical
  BY <1>1 DEF UpgradesInv
<1>9. /\ world.left \cup DOMAIN world.code \subseteq Upgrades!Found
      /\ \A h \in (world.left \cup DOMAIN world.code) \cap Upgrades!Critical,
            g \in Upgrades!Critical \ (world.left \cup DOMAIN world.code) :
                ~Upgrades!CriticalBefore(g, h)
  BY <1>1 DEF UpgradesInv
<1>10. DOMAIN world'.code \subseteq Upgrades!Found'
  BY <1>4, <1>6, <1>9
<1>11. \A g \in Upgrades!Function : Upgrades!Status(g, world'.since) = "end_of_life" =>
            Functions[g].region \in world'.errors \/ g \in Upgrades!Critical'
  BY <1>2, <1>6, <1>8
<1> QED
  BY <1>2, <1>4, <1>5, <1>6, <1>7, <1>8, <1>9, <1>10, <1>11
    DEF UpgradesInv, Upgrades!Status, Upgrades!CriticalBefore, Upgrades!Older

\* A report leaves out no function that was unsupported when it was begun, of a
\* region that was read; it names changes only where there are some, advises a flip
\* only after a scan without a finding, and proposes to delete none that is seen in use and does not look like a test,
\* for any functions, regions, dates and caps.
THEOREM UpgradesJustified == Spec => []UpgradesHold
<1>1. Init => UpgradesInv
  <2> SUFFICES ASSUME Init, tool = "upgrades" PROVE UpgradesInv
    BY DEF UpgradesInv
  <2>1. PICK d \in 0..RuntimeDays : world = [Upgrades!Quiet EXCEPT !.day = d]
    BY DEF Init, Upgrades!Init
  <2>2. world = [day |-> d, since |-> 0, stage |-> "idle", approaching |-> FALSE, left |-> {},
                 errors |-> {}, status |-> <<>>, invoked |-> <<>>, code |-> <<>>]
    BY <2>1 DEF Upgrades!Quiet
  <2>3. d \in Nat /\ 0 <= d
    BY GatewayConstants
  <2>4. answer = [tool |-> "none"]
    BY DEF Init, Upgrades!Init, Upgrades!NoAnswer
  <2> QED
    BY <2>2, <2>3, <2>4 DEF UpgradesInv, Upgrades!Found, Upgrades!UpgradesAreJustified
<1>2. UpgradesInv /\ [Next]_vars => UpgradesInv'
  <2> SUFFICES ASSUME UpgradesInv, [Next]_vars, tool' = "upgrades" PROVE UpgradesInv'
    BY DEF UpgradesInv
  <2>1. tool = "upgrades"
    BY DEF Next, vars
  <2>2. ASSUME world' = world, Upgrades!UpgradesAreJustified' PROVE UpgradesInv'
    BY <2>1, <2>2 DEF UpgradesInv, Upgrades!Found, Upgrades!Critical, Upgrades!Status,
                      Upgrades!CriticalBefore, Upgrades!Older
  <2>3. CASE UNCHANGED vars
    <3>1. Upgrades!UpgradesAreJustified' <=> Upgrades!UpgradesAreJustified
      BY <2>3 DEF vars, Upgrades!UpgradesAreJustified, Upgrades!Status, Upgrades!Found,
                  Upgrades!Included
    <3> QED
      BY <2>1, <2>2, <2>3, <3>1 DEF vars, UpgradesInv
  <2>4. ASSUME NEW approaching, Upgrades!Generate(approaching), answer = Upgrades!NoAnswer
        PROVE  UpgradesInv'
    <3>1. /\ world' = [world EXCEPT !.stage = "scan", !.since = world.day,
                                    !.approaching = approaching, !.left = Upgrades!Region]
          /\ world.stage = "idle" /\ answer' = answer
      BY <2>4 DEF Upgrades!Generate
    <3>2. /\ world'.day = world.day /\ world'.since = world.day /\ world'.stage = "scan"
          /\ world'.left = Upgrades!Region /\ world'.status = world.status
          /\ world'.code = world.code
          /\ world' = [day |-> world'.day, since |-> world'.since, stage |-> world'.stage,
                       approaching |-> world'.approaching, left |-> world'.left,
                       errors |-> world'.errors, status |-> world'.status,
                       invoked |-> world'.invoked, code |-> world'.code]
      BY <2>1, <3>1 DEF UpgradesInv
    <3>3. \A f \in Upgrades!Function : Functions[f].region \in Upgrades!Region
      BY DEF Upgrades!Region
    <3>4. Upgrades!UpgradesAreJustified'
      BY <2>4, <3>1 DEF Upgrades!UpgradesAreJustified, Upgrades!NoAnswer
    <3>5. /\ world.day \in Nat /\ world.day <= world.day
          /\ Upgrades!Found \subseteq Upgrades!Function /\ Upgrades!Found' = Upgrades!Found
          /\ \A f \in Upgrades!Found : world.status[f] \in {"end_of_life", "deprecated", "active"}
          /\ DOMAIN world.code = {}
      BY <2>1, <3>1, <3>2 DEF UpgradesInv, Upgrades!Found
    <3> QED
      BY <3>2, <3>3, <3>4, <3>5 DEF UpgradesInv
  <2>5. ASSUME Upgrades!Midnight, answer = Upgrades!NoAnswer
        PROVE  UpgradesInv'
    <3>1. /\ world' = [world EXCEPT !.day = @ + 1]
          /\ world.stage = "scan" /\ answer' = answer
      BY <2>5 DEF Upgrades!Midnight
    <3>2. /\ world'.day = world.day + 1 /\ world'.since = world.since /\ world'.stage = "scan"
          /\ world'.left = world.left /\ world'.errors = world.errors
          /\ world'.status = world.status /\ world'.code = world.code
          /\ world' = [day |-> world'.day, since |-> world'.since, stage |-> world'.stage,
                       approaching |-> world'.approaching, left |-> world'.left,
                       errors |-> world'.errors, status |-> world'.status,
                       invoked |-> world'.invoked, code |-> world'.code]
      BY <2>1, <3>1 DEF UpgradesInv
    <3>3. Upgrades!UpgradesAreJustified'
      BY <2>5, <3>1 DEF Upgrades!UpgradesAreJustified, Upgrades!NoAnswer
    <3>4. world'.day \in Nat /\ world'.since <= world'.day /\ world'.since \in Nat
      BY <2>1, <3>2 DEF UpgradesInv
    <3>5. Upgrades!Found' = Upgrades!Found /\ Upgrades!Critical' = Upgrades!Critical
      BY <3>2 DEF Upgrades!Found, Upgrades!Critical
    <3> QED
      BY <2>1, <3>1, <3>2, <3>3, <3>4, <3>5 DEF UpgradesInv, Upgrades!Status
  <2>6. CASE Next
    <3>1. Upgrades!Next
      BY <2>1, <2>6 DEF Next
    <3>2. ASSUME NEW regions, NEW approaching, NEW max \in {1, 2},
                 Upgrades!Deprecated(regions, approaching, max)
          PROVE  UpgradesInv'
      <4>1. world' = world
        BY <3>2 DEF Upgrades!Deprecated
      <4>2. Upgrades!UpgradesAreJustified'
        BY <3>2, UpgradesList
      <4> QED
        BY <2>2, <4>1, <4>2
    <3>3. ASSUME Upgrades!Render PROVE UpgradesInv'
      <4>1. world' = world
        BY <3>3 DEF Upgrades!Render
      <4>2. Upgrades!UpgradesAreJustified'
        BY <2>1, <3>3, UpgradesReport
      <4> QED
        BY <2>2, <4>1, <4>2
    <3>4. answer = Upgrades!NoAnswer
      BY <3>1 DEF Upgrades!Next
    <3> QED
      BY <2>1, <2>4, <2>5, <3>1, <3>2, <3>3, <3>4, UpgradesScan, UpgradesSelect, UpgradesAnalyze
        DEF Upgrades!Next
  <2> QED
    BY <2>3, <2>6
<1>3. UpgradesInv => UpgradesHold
  BY DEF UpgradesInv, UpgradesHold
<1> QED
  BY <1>1, <1>2, <1>3, PTL DEF Spec

-----------------------------------------------------------------------------
(* Reports and templates *)

LEMMA InductionSet ==
  ASSUME NEW S, 0 \in S, \A n \in Nat : n \in S => n + 1 \in S
  PROVE  Nat \subseteq S
<1> DEFINE Bad == Nat \ S
<1>1. SUFFICES ASSUME Bad # {} PROVE FALSE
  OBVIOUS
<1>2. PICK n \in Bad : \A m \in Bad : n <= m
  <2>1. Bad \in SUBSET Nat
    OBVIOUS
  <2> HIDE DEF Bad
  <2> QED
    BY <1>1, <2>1, LeastOf
<1>3. n \in Nat /\ n # 0
  OBVIOUS
<1>4. n - 1 \in Nat /\ ~(n <= n - 1) /\ (n - 1) + 1 = n
  BY <1>3
<1>5. n - 1 \in S
  BY <1>2, <1>4
<1> QED
  BY <1>4, <1>5

LEMMA OfSequence ==
  ASSUME NEW T, NEW s \in Seq(T)
  PROVE  /\ DOMAIN s = 1..Len(s) /\ Len(s) \in Nat
         /\ \A i \in DOMAIN s : s[i] \in T
OBVIOUS

ParentOf(r) == world.reports[r].parent

\* A report is an edit of an earlier one, with the version after that one's.
ApiInv ==
    tool = "api" =>
        /\ world = [reports |-> world.reports, stored |-> world.stored,
                    writing |-> world.writing, template |-> world.template]
        /\ world.reports \in Seq([parent : Nat \cup {None}, version : Nat])
        /\ world.stored \subseteq Api!Created
        /\ world.writing \subseteq Api!Created
        /\ \A r \in Api!Created : ParentOf(r) # None =>
             /\ ParentOf(r) \in Api!Created /\ ParentOf(r) < r
             /\ world.reports[r].version = world.reports[ParentOf(r)].version + 1
        /\ Api!UserDataHolds

\* What _root_id says of one report, given the roots of those before it.
Step(root, r, page) ==
    IF ParentOf(r) = None THEN r
    ELSE IF ParentOf(r) \in page THEN root[ParentOf(r)] ELSE ParentOf(r)

\* The lineage of every report of a page is defined, since its parent is older.
LEMMA RootsDefined ==
  ASSUME NEW page \in SUBSET Nat,
         \A r \in page : ParentOf(r) \in Nat \cup {None}
                         /\ (ParentOf(r) # None => ParentOf(r) < r),
         NEW last \in Nat, \A r \in page : r <= last
  PROVE  /\ Api!Roots(page) = [r \in page |-> Api!Roots(page)[r]]
         /\ \A r \in page : Api!Roots(page)[r] = Step(Api!Roots(page), r, page)
<1> DEFINE Below(n) == {r \in page : r < n}
           Fits(f, n) == f \in [Below(n) -> Nat] /\ \A r \in Below(n) : f[r] = Step(f, r, page)
           S == {n \in Nat : \E f \in [Below(n) -> Nat] : Fits(f, n)}
<1>1. 0 \in S
  <2>1. Below(0) = {}
    <3>1. \A r \in page : r \in Nat /\ ~(r < 0)
      OBVIOUS
    <3> QED
      BY <3>1
  <2>2. [r \in Below(0) |-> 0] \in [Below(0) -> Nat]
    OBVIOUS
  <2> QED
    BY <2>1, <2>2
<1>2. ASSUME NEW n \in Nat, n \in S PROVE n + 1 \in S
  <2>1. PICK f \in [Below(n) -> Nat] : \A r \in Below(n) : f[r] = Step(f, r, page)
    BY <1>2
  <2> DEFINE g == [r \in Below(n + 1) |-> IF r = n THEN Step(f, n, page) ELSE f[r]]
  <2>2. \A r \in Below(n + 1) : r = n \/ r \in Below(n)
    OBVIOUS
  <2>3. ASSUME NEW r \in Below(n + 1)
        PROVE  /\ Step(f, r, page) \in Nat /\ g[r] = Step(f, r, page)
               /\ Step(g, r, page) = Step(f, r, page)
    <3>1. r \in Nat /\ r <= n /\ r \in page
      OBVIOUS
    <3>2. ASSUME ParentOf(r) # None, ParentOf(r) \in page
          PROVE  ParentOf(r) \in Below(n) /\ ParentOf(r) \in Below(n + 1) /\ ParentOf(r) # n
      BY <3>1, <3>2
    <3>3. Step(f, r, page) \in Nat
      BY <3>1, <3>2 DEF Step
    <3>4. Step(g, r, page) = Step(f, r, page)
      <4>1. CASE ParentOf(r) # None /\ ParentOf(r) \in page
        <5>1. g[ParentOf(r)] = f[ParentOf(r)]
          BY <3>2, <4>1
        <5> HIDE DEF g
        <5> QED
          BY <5>1 DEF Step
      <4>2. CASE ~(ParentOf(r) # None /\ ParentOf(r) \in page)
        BY <4>2 DEF Step
      <4> QED
        BY <4>1, <4>2
    <3>5. g[r] = Step(f, r, page)
      BY <2>1, <2>2
    <3> QED
      BY <3>3, <3>4, <3>5
  <2>4. g \in [Below(n + 1) -> Nat]
    <3>1. \A r \in Below(n + 1) : g[r] \in Nat
      BY <2>3
    <3> QED
      BY <3>1
  <2>5. \A r \in Below(n + 1) : g[r] = Step(g, r, page)
    BY <2>3
  <2> HIDE DEF g, Below
  <2>6. \E h \in [Below(n + 1) -> Nat] : Fits(h, n + 1)
    BY <2>4, <2>5
  <2>7. n + 1 \in Nat
    OBVIOUS
  <2> HIDE DEF Fits
  <2> QED
    BY <2>6, <2>7
<1>3. last + 1 \in S
  <2>1. last + 1 \in Nat
    OBVIOUS
  <2> HIDE DEF S
  <2> QED
    BY <1>1, <1>2, <2>1, InductionSet
<1>4. Below(last + 1) = page
  <2>1. \A r \in page : r \in Nat /\ r < last + 1
    OBVIOUS
  <2> QED
    BY <2>1
<1>5. PICK f \in [page -> Nat] : \A r \in page : f[r] = Step(f, r, page)
  BY <1>3, <1>4
<1>6. f = [r \in page |-> Step(f, r, page)]
  BY <1>5
<1>7. Api!Roots(page) = CHOOSE h : h = [r \in page |-> Step(h, r, page)]
  BY DEF Api!Roots, Step, ParentOf
<1>8. Api!Roots(page) = [r \in page |-> Step(Api!Roots(page), r, page)]
  BY <1>6, <1>7
<1> QED
  BY <1>8

\* A lineage has the versions that edits join, and no others.
LEMMA RootsRelate ==
  ASSUME NEW page \in SUBSET Nat,
         \A r \in page : ParentOf(r) \in Nat \cup {None}
                         /\ (ParentOf(r) # None => ParentOf(r) < r),
         NEW root, \A r \in page : root[r] = Step(root, r, page),
         NEW r \in page, NEW s \in page
  PROVE  root[r] = root[s] <=> Api!Related(r, s, page)
<1>0. None \notin Nat
  BY GatewayConstants
<1>1. ASSUME NEW S \in SUBSET page
      PROVE  Api!Linked(S, page) <=>
               \A i \in page : \A j \in page :
                  (\/ ParentOf(i) = j
                   \/ ParentOf(i) # None /\ ParentOf(i) = ParentOf(j)) => (i \in S <=> j \in S)
  BY DEF Api!Linked, ParentOf
<1>2. ASSUME Api!Related(r, s, page) PROVE root[r] = root[s]
  <2> DEFINE S == {i \in page : root[i] = root[r]}
  <2>1. ASSUME NEW i \in page, NEW j \in page,
               ParentOf(i) = j \/ (ParentOf(i) # None /\ ParentOf(i) = ParentOf(j))
        PROVE  root[i] = root[j]
    BY <1>0, <2>1 DEF Step
  <2>2. Api!Linked(S, page)
    <3>1. S \in SUBSET page /\ \A i \in page : i \in S <=> root[i] = root[r]
      OBVIOUS
    <3> HIDE DEF S
    <3> QED
      BY <1>1, <2>1, <3>1
  <2>3. r \in S /\ S \in SUBSET page
    OBVIOUS
  <2>4. s \in S
    <3> HIDE DEF S
    <3> QED
      BY <1>2, <2>2, <2>3 DEF Api!Related
  <2> QED
    BY <2>4
<1>3. ASSUME root[r] = root[s] PROVE Api!Related(r, s, page)
  <2> SUFFICES ASSUME NEW S \in SUBSET page, Api!Linked(S, page), r \in S PROVE s \in S
    BY DEF Api!Related
  <2>1. ASSUME NEW i \in page, NEW j \in page,
               ParentOf(i) = j \/ (ParentOf(i) # None /\ ParentOf(i) = ParentOf(j))
        PROVE  i \in S <=> j \in S
    BY <1>1, <2>1
  <2> DEFINE Has(x) == IF x \in page THEN x \in S ELSE \E c \in S : ParentOf(c) = x
             Good == {n \in Nat : \A i \in page : i < n => (i \in S <=> Has(root[i]))}
  <2>2. 0 \in Good
    <3>1. \A i \in page : i \in Nat /\ ~(i < 0)
      OBVIOUS
    <3> HIDE DEF Has
    <3> QED
      BY <3>1
  <2>3. ASSUME NEW n \in Nat, n \in Good PROVE n + 1 \in Good
    <3>1. ASSUME NEW i \in page, i < n + 1 PROVE i \in S <=> Has(root[i])
      <4>0. i \in Nat /\ i <= n
        BY <3>1
      <4>1. CASE ParentOf(i) = None
        BY <4>1 DEF Step
      <4>2. CASE ParentOf(i) # None /\ ParentOf(i) \in page
        <5>1. root[i] = root[ParentOf(i)] /\ ParentOf(i) < n
          BY <4>0, <4>2 DEF Step
        <5>2. ParentOf(i) \in S <=> Has(root[ParentOf(i)])
          <6> HIDE DEF Has
          <6> QED
            BY <2>3, <4>2, <5>1
        <5>3. i \in S <=> ParentOf(i) \in S
          BY <2>1, <4>2
        <5> HIDE DEF Has
        <5> QED
          BY <5>1, <5>2, <5>3
      <4>3. CASE ParentOf(i) # None /\ ParentOf(i) \notin page
        <5>1. root[i] = ParentOf(i)
          BY <4>3 DEF Step
        <5>2. \A c \in S : ParentOf(c) = ParentOf(i) => (c \in S <=> i \in S)
          BY <2>1, <4>3
        <5> QED
          BY <4>3, <5>1, <5>2
      <4> QED
        BY <4>1, <4>2, <4>3
    <3> HIDE DEF Has
    <3>2. n + 1 \in Nat
      OBVIOUS
    <3> QED
      BY <3>1, <3>2
  <2>4. \A i \in page : i \in S <=> Has(root[i])
    <3> TAKE i \in page
    <3>1. i + 1 \in Nat /\ i < i + 1
      OBVIOUS
    <3>2. i + 1 \in Good
      <4> HIDE DEF Good
      <4> QED
        BY <2>2, <2>3, <3>1, InductionSet
    <3> HIDE DEF Has
    <3> QED
      BY <3>1, <3>2
  <2> HIDE DEF Has
  <2> QED
    BY <1>3, <2>4
<1> QED
  BY <1>2, <1>3

\* The list has each report it read once, under one that no other is an edit of.
LEMMA ApiReports ==
  ASSUME ApiInv, tool = "api", Api!ListReports
  PROVE  Api!UserDataHolds'
<1>1. PICK page \in SUBSET world.stored :
        \E head : LET root == Api!Roots(page)
                      Lineage(x) == {r \in page : root[r] = x}
                  IN  /\ head \in [{root[r] : r \in page} -> page]
                      /\ \A x \in DOMAIN head : head[x] \in Api!Latest(Lineage(x))
                      /\ answer' = [tool |-> "reports", page |-> page,
                                    rows |-> {[head |-> head[x], versions |-> Lineage(x)] :
                                                x \in DOMAIN head}]
                      /\ UNCHANGED world
  BY DEF Api!ListReports
<1> DEFINE root == Api!Roots(page)
           Lineage(x) == {r \in page : root[r] = x}
<1>1b. PICK head :
        /\ head \in [{root[r] : r \in page} -> page]
        /\ \A x \in DOMAIN head : head[x] \in Api!Latest(Lineage(x))
        /\ answer' = [tool |-> "reports", page |-> page,
                      rows |-> {[head |-> head[x], versions |-> Lineage(x)] : x \in DOMAIN head}]
        /\ UNCHANGED world
  BY <1>1
<1>2. /\ answer'.tool = "reports" /\ answer'.page = page /\ world' = world
      /\ answer'.rows = {[head |-> head[x], versions |-> Lineage(x)] : x \in DOMAIN head}
      /\ DOMAIN head = {root[r] : r \in page}
      /\ \A x \in DOMAIN head : head[x] \in Api!Latest(Lineage(x))
  BY <1>1b
<1>3. /\ Api!Created = 1..Len(world.reports) /\ Len(world.reports) \in Nat
      /\ page \subseteq Api!Created
      /\ \A r \in Api!Created : /\ ParentOf(r) \in Nat \cup {None}
                                /\ world.reports[r].version \in Nat
  <2>1. world.reports \in Seq([parent : Nat \cup {None}, version : Nat])
        /\ world.stored \subseteq Api!Created
    BY DEF ApiInv
  <2>2. DOMAIN world.reports = 1..Len(world.reports) /\ Len(world.reports) \in Nat
        /\ \A r \in DOMAIN world.reports :
              world.reports[r] \in [parent : Nat \cup {None}, version : Nat]
    BY <2>1, OfSequence
  <2> QED
    BY <2>1, <2>2 DEF Api!Created, ParentOf
<1>4. /\ page \in SUBSET Nat /\ \A r \in page : r <= Len(world.reports)
      /\ \A r \in page : /\ ParentOf(r) \in Nat \cup {None}
                         /\ ParentOf(r) # None => ParentOf(r) < r
  BY <1>3 DEF ApiInv
<1>5. \A r \in page : root[r] = Step(root, r, page)
  BY <1>3, <1>4, RootsDefined
<1> HIDE DEF root
<1>6. \A r \in page, s \in page : root[r] = root[s] <=> Api!Related(r, s, page)
  BY <1>4, <1>5, RootsRelate
<1>7. \A r, s : Api!Related(r, s, answer.page)' <=> Api!Related(r, s, page)
  BY <1>2 DEF Api!Related, Api!Linked
<1>8. ASSUME NEW x \in DOMAIN head
      PROVE  /\ head[x] \in Lineage(x)
             /\ \A r \in Lineage(x) : world.reports[r].parent # head[x]
  <2>1. head[x] \in Lineage(x)
        /\ \A s \in Lineage(x) : world.reports[head[x]].version >= world.reports[s].version
    BY <1>2 DEF Api!Latest
  <2>2. ASSUME NEW r \in Lineage(x), ParentOf(r) = head[x] PROVE FALSE
    <3>1. r \in Api!Created /\ head[x] \in Api!Created /\ ParentOf(r) # None
      <4>1. head[x] \in Nat
        BY <1>4, <2>1
      <4> QED
        BY <1>3, <2>1, <2>2, <4>1, GatewayConstants
    <3>2. world.reports[r].version = world.reports[head[x]].version + 1
      BY <2>2, <3>1 DEF ApiInv
    <3>3. world.reports[r].version \in Nat /\ world.reports[head[x]].version \in Nat
      BY <1>3, <3>1
    <3> QED
      BY <2>1, <3>2, <3>3
  <2> QED
    BY <2>1, <2>2 DEF ParentOf
<1>9. UNION {row.versions : row \in answer'.rows} = page
  <2>1. \A row \in answer'.rows : row.versions \subseteq page
    BY <1>2
  <2>2. ASSUME NEW r \in page PROVE \E row \in answer'.rows : r \in row.versions
    <3> DEFINE x == root[r]
    <3>1. x \in DOMAIN head /\ r \in Lineage(x)
      BY <1>2
    <3>2. [head |-> head[x], versions |-> Lineage(x)] \in answer'.rows
      BY <1>2, <3>1
    <3> QED
      BY <3>1, <3>2
  <2> QED
    BY <2>1, <2>2
<1>10. ASSUME NEW row \in answer'.rows
       PROVE  /\ \A r \in row.versions, s \in page :
                    s \in row.versions <=> Api!Related(r, s, page)
              /\ row.head \in row.versions
              /\ \A r \in row.versions : world.reports[r].parent # row.head
  <2>1. PICK x \in DOMAIN head : row = [head |-> head[x], versions |-> Lineage(x)]
    BY <1>2
  <2>2. row.head = head[x] /\ row.versions = Lineage(x)
    BY <2>1
  <2>3. \A r \in Lineage(x), s \in page : s \in Lineage(x) <=> root[r] = root[s]
    OBVIOUS
  <2> QED
    BY <1>6, <1>8, <2>2, <2>3
<1> HIDE DEF Lineage
<1> QED
  BY <1>2, <1>7, <1>9, <1>10 DEF Api!UserDataHolds

\* The templates a user saved are listed, and generated from.
LEMMA ApiTemplates ==
  ASSUME tool = "api",
         \/ \E n : \E ok \in BOOLEAN : Api!ListTemplates(n, ok)
         \/ \E i : Api!Generate(i)
  PROVE  Api!UserDataHolds'
<1>1. ASSUME NEW n, NEW ok \in BOOLEAN, Api!ListTemplates(n, ok)
      PROVE  Api!UserDataHolds'
  <2> DEFINE saved == IF ok THEN {j \in Api!Id : world.template[j] # None} ELSE {}
  <2>1. /\ answer'.tool = "templates" /\ answer'.read = ok /\ world' = world
        /\ answer'.shown = [i \in BuiltIn \cup saved |->
                IF i \notin saved \/ Api!BuiltInFirst(i, n) THEN [builtin |-> i]
                ELSE [saved |-> world.template[i]]]
    BY <1>1 DEF Api!ListTemplates
  <2>2. ASSUME ok, NEW i \in Own, world.template[i] # None
        PROVE  i \in saved /\ ~Api!BuiltInFirst(i, n)
    BY <2>2, GatewayConstants DEF Api!Id, Api!BuiltInFirst
  <2> HIDE DEF saved
  <2>3. ASSUME ok, NEW i \in Own, world.template[i] # None
        PROVE  i \in DOMAIN answer'.shown /\ answer'.shown[i] = [saved |-> world.template[i]]
    BY <2>1, <2>2, <2>3
  <2> QED
    BY <2>1, <2>3 DEF Api!UserDataHolds
<1>2. ASSUME NEW i, Api!Generate(i)
      PROVE  Api!UserDataHolds'
  <2>1. PICK source \in Api!Loaded(i) :
            answer' = [tool |-> "generate", id |-> i, source |-> source]
    BY <1>2 DEF Api!Generate
  <2>2. /\ answer'.tool = "generate" /\ answer'.id = i /\ answer'.source = source
        /\ world' = world
    BY <1>2, <2>1 DEF Api!Generate
  <2>3. world.template[i] # None /\ world.template[i].sections =>
            source = [saved |-> world.template[i]]
    BY DEF Api!Loaded
  <2> QED
    BY <2>2, <2>3 DEF Api!UserDataHolds
<1> QED
  BY <1>1, <1>2

\* A report is requested, alone or as an edit of one that is stored.
LEMMA ApiRequest ==
  ASSUME ApiInv, tool = "api", answer = Api!NoAnswer,
         NEW parent, NEW ok \in BOOLEAN, Api!Request(parent, ok)
  PROVE  ApiInv'
<1> DEFINE R == [parent : Nat \cup {None}, version : Nat]
           new == [parent |-> parent,
                   version |-> IF parent = None THEN 1 ELSE world.reports[parent].version + 1]
<1>1. /\ world.reports \in Seq(R)
      /\ world.stored \subseteq Api!Created /\ world.writing \subseteq Api!Created
      /\ world = [reports |-> world.reports, stored |-> world.stored,
                  writing |-> world.writing, template |-> world.template]
  BY DEF ApiInv
<1>2. /\ Api!Created = 1..Len(world.reports) /\ Len(world.reports) \in Nat
      /\ \A r \in Api!Created : world.reports[r] \in R
  <2> HIDE DEF R
  <2> QED
    BY <1>1, OfSequence DEF Api!Created
<1>3. Api!Last = Len(world.reports)
  <2>1. \A S : Api!Cardinality(S) = Cardinality(S)
    BY DEF Api!Cardinality, Cardinality
  <2>2. Cardinality(1..Len(world.reports)) = Len(world.reports)
    BY <1>2, FS_Interval
  <2> QED
    BY <1>2, <2>1, <2>2 DEF Api!Last
<1>4. /\ parent = None \/ parent \in Api!Created
      /\ answer' = answer
      /\ world' = [world EXCEPT
            !.reports = Append(@, new),
            !.stored = IF ok THEN @ \cup {Len(world.reports) + 1} ELSE @,
            !.writing = @ \cup {Len(world.reports) + 1}]
  BY <1>1, <1>3 DEF Api!Request, Api!Changed
<1>5. /\ world'.reports = Append(world.reports, new)
      /\ world'.stored \subseteq world.stored \cup {Len(world.reports) + 1}
      /\ world'.writing = world.writing \cup {Len(world.reports) + 1}
      /\ world' = [reports |-> world'.reports, stored |-> world'.stored,
                   writing |-> world'.writing, template |-> world'.template]
  BY <1>1, <1>4
<1>6. new \in R /\ (parent # None => new.version = world.reports[parent].version + 1)
      /\ new.parent = parent
  <2>1. CASE parent = None
    BY <2>1
  <2>2. CASE parent # None
    <3>1. parent \in Nat /\ world.reports[parent].version \in Nat
      BY <1>2, <1>4, <2>2
    <3> QED
      BY <2>2, <3>1
  <2> QED
    BY <2>1, <2>2
<1> HIDE DEF R, new
<1>7. /\ world'.reports \in Seq(R)
      /\ Len(world'.reports) = Len(world.reports) + 1
      /\ \A r \in 1..Len(world.reports) : world'.reports[r] = world.reports[r]
      /\ world'.reports[Len(world.reports) + 1] = new
  BY <1>1, <1>5, <1>6
<1>8. Api!Created' = 1..(Len(world.reports) + 1)
  <2>1. DOMAIN world'.reports = 1..Len(world'.reports)
    BY <1>7, OfSequence
  <2> QED
    BY <1>7, <2>1 DEF Api!Created
<1>9. Api!Created \subseteq Api!Created' /\ Len(world.reports) + 1 \in Api!Created'
      /\ \A r \in Api!Created' : r \in Api!Created \/ r = Len(world.reports) + 1
  BY <1>2, <1>8
<1>10. ASSUME NEW r \in Api!Created', world'.reports[r].parent # None
       PROVE  /\ world'.reports[r].parent \in Api!Created' /\ world'.reports[r].parent < r
              /\ world'.reports[r].version
                    = world'.reports[world'.reports[r].parent].version + 1
  <2>1. CASE r \in Api!Created
    <3>1. world'.reports[r] = world.reports[r]
      BY <1>2, <1>7, <2>1
    <3>2. /\ ParentOf(r) \in Api!Created /\ ParentOf(r) < r
          /\ world.reports[r].version = world.reports[ParentOf(r)].version + 1
      BY <1>10, <2>1, <3>1 DEF ApiInv, ParentOf
    <3>3. world'.reports[ParentOf(r)] = world.reports[ParentOf(r)]
      BY <1>2, <1>7, <3>2
    <3> QED
      BY <1>9, <3>1, <3>2, <3>3 DEF ParentOf
  <2>2. CASE r = Len(world.reports) + 1
    <3>1. world'.reports[r] = new
      BY <1>7, <2>2
    <3>2. parent # None /\ parent \in Api!Created
      BY <1>4, <1>6, <1>10, <3>1
    <3>3. world'.reports[parent] = world.reports[parent] /\ parent < r
      BY <1>2, <1>7, <2>2, <3>2
    <3> QED
      BY <1>6, <1>9, <3>1, <3>2, <3>3
  <2> QED
    BY <1>9, <2>1, <2>2
<1>11. world'.stored \subseteq Api!Created' /\ world'.writing \subseteq Api!Created'
  BY <1>1, <1>5, <1>9
<1>12. Api!UserDataHolds'
  BY <1>4 DEF Api!UserDataHolds, Api!NoAnswer
<1> QED
  BY <1>5, <1>7, <1>10, <1>11, <1>12 DEF ApiInv, ParentOf, R

\* However reports were edited, deleted and written again, the list shows each
\* once, in a row with just its other versions; and the templates a user saved are
\* listed and generated from, for any page size, templates and contents.
THEOREM UserDataListed == Spec => []UserDataHolds
<1>1. Init => ApiInv
  <2> SUFFICES ASSUME Init, tool = "api" PROVE ApiInv
    BY DEF ApiInv
  <2>1. /\ world = [reports |-> <<>>, stored |-> {}, writing |-> {},
                    template |-> [i \in Api!Id |-> None]]
        /\ answer = [tool |-> "none"]
    BY DEF Init, Api!Init, Api!NoAnswer
  <2>2. /\ world.reports = <<>> /\ world.stored = {} /\ world.writing = {}
        /\ world = [reports |-> world.reports, stored |-> world.stored,
                    writing |-> world.writing, template |-> world.template]
    BY <2>1
  <2>3. world.reports \in Seq([parent : Nat \cup {None}, version : Nat]) /\ Api!Created = {}
    BY <2>2 DEF Api!Created
  <2>4. Api!UserDataHolds
    BY <2>1 DEF Api!UserDataHolds
  <2> QED
    BY <2>2, <2>3, <2>4 DEF ApiInv
<1>2. ApiInv /\ [Next]_vars => ApiInv'
  <2> SUFFICES ASSUME ApiInv, [Next]_vars, tool' = "api" PROVE ApiInv'
    BY DEF ApiInv
  <2>1. tool = "api"
    BY DEF Next, vars
  <2>2. ASSUME world'.reports = world.reports,
               world' = [reports |-> world'.reports, stored |-> world'.stored,
                         writing |-> world'.writing, template |-> world'.template],
               world'.stored \subseteq Api!Created, world'.writing \subseteq Api!Created,
               Api!UserDataHolds'
        PROVE  ApiInv'
    BY <2>1, <2>2 DEF ApiInv, Api!Created, ParentOf
  <2>3. CASE UNCHANGED vars
    <3>1. Api!UserDataHolds'
      <4>1. world' = world /\ answer' = answer /\ Api!UserDataHolds
        BY <2>1, <2>3 DEF vars, ApiInv
      <4>2. \A r, s : Api!Related(r, s, answer.page)' <=> Api!Related(r, s, answer.page)
        BY <4>1 DEF Api!Related, Api!Linked
      <4> QED
        BY <4>1, <4>2 DEF Api!UserDataHolds
    <3> QED
      BY <2>1, <2>2, <2>3, <3>1 DEF vars, ApiInv
  <2>4. CASE Next
    <3>1. Api!Next
      BY <2>1, <2>4 DEF Next
    <3>2. answer = Api!NoAnswer
      BY <3>1 DEF Api!Next
    <3>3. /\ world = [reports |-> world.reports, stored |-> world.stored,
                      writing |-> world.writing, template |-> world.template]
          /\ world.stored \subseteq Api!Created /\ world.writing \subseteq Api!Created
      BY <2>1 DEF ApiInv
    <3>4. ASSUME answer' = answer PROVE Api!UserDataHolds'
      BY <3>2, <3>4 DEF Api!UserDataHolds, Api!NoAnswer
    <3>5. ASSUME NEW r \in Api!Created, Api!Finish(r) \/ Api!DeleteReport(r) PROVE ApiInv'
      <4>1. answer' = answer
            /\ \/ world' = [world EXCEPT !.writing = @ \ {r}, !.stored = @ \cup {r}]
               \/ world' = [world EXCEPT !.stored = @ \ {r}]
        BY <3>5 DEF Api!Finish, Api!DeleteReport, Api!Changed
      <4>2. /\ world'.reports = world.reports
            /\ world'.stored \subseteq world.stored \cup {r}
            /\ world'.writing \subseteq world.writing
            /\ world' = [reports |-> world'.reports, stored |-> world'.stored,
                         writing |-> world'.writing, template |-> world'.template]
        BY <3>3, <4>1
      <4> QED
        BY <2>2, <3>3, <3>4, <4>1, <4>2
    <3>6. ASSUME NEW i, NEW c,
                 Api!CreateTemplate(i, c) \/ Api!UpdateTemplate(i, c) \/ Api!DeleteTemplate(i)
          PROVE  ApiInv'
      <4>1. answer' = answer /\ \E t : world' = [world EXCEPT !.template = t]
        <5>1. answer' = answer
              /\ \/ world' = [world EXCEPT !.template[i] = c]
                 \/ world' = [world EXCEPT !.template[i] = None]
          BY <3>6 DEF Api!CreateTemplate, Api!UpdateTemplate, Api!DeleteTemplate, Api!Changed
        <5> QED
          BY <5>1
      <4>2. PICK t : world' = [world EXCEPT !.template = t]
        BY <4>1
      <4>3. /\ world'.reports = world.reports /\ world'.stored = world.stored
            /\ world'.writing = world.writing
            /\ world' = [reports |-> world'.reports, stored |-> world'.stored,
                         writing |-> world'.writing, template |-> world'.template]
        BY <3>3, <4>2
      <4> QED
        BY <2>2, <3>3, <3>4, <4>1, <4>3
    <3>7. ASSUME world' = world, Api!UserDataHolds' PROVE ApiInv'
      BY <2>2, <3>3, <3>7
    <3>8. ASSUME Api!ListReports PROVE ApiInv'
      <4>1. world' = world
        BY <3>8 DEF Api!ListReports
      <4> QED
        BY <2>1, <3>7, <3>8, <4>1, ApiReports
    <3>9. ASSUME (\E n : \E ok \in BOOLEAN : Api!ListTemplates(n, ok)) \/ \E i : Api!Generate(i)
          PROVE  ApiInv'
      <4>1. world' = world
        BY <3>9 DEF Api!ListTemplates, Api!Generate
      <4> QED
        BY <2>1, <3>7, <3>9, <4>1, ApiTemplates
    <3>10. \/ \E parent : \E ok \in BOOLEAN : Api!Request(parent, ok)
           \/ \E r \in Api!Created : Api!Finish(r) \/ Api!DeleteReport(r)
           \/ Api!ListReports
           \/ \E i, c : Api!CreateTemplate(i, c) \/ Api!UpdateTemplate(i, c) \/ Api!DeleteTemplate(i)
           \/ (\E n : \E ok \in BOOLEAN : Api!ListTemplates(n, ok)) \/ (\E i : Api!Generate(i))
      BY <3>1 DEF Api!Next
    <3> QED
      BY <2>1, <3>2, <3>5, <3>6, <3>8, <3>9, <3>10, ApiRequest
  <2> QED
    BY <2>3, <2>4
<1>3. ApiInv => UserDataHolds
  BY DEF ApiInv, UserDataHolds
<1> QED
  BY <1>1, <1>2, <1>3, PTL DEF Spec

-----------------------------------------------------------------------------
(* Tags *)

LEMMA SameCardinality3 == \A S : Tags!Cardinality(S) = Cardinality(S)
BY DEF Tags!Cardinality, Cardinality

\* What a request asks about.
AskedBy(q, of) ==
    LET kept == Tags!Matching(q) \ IF q.system THEN {} ELSE SystemManaged
    IN  IF q.aws THEN {r \in kept \ GlobalResource :
                        /\ r \in (IF q.regions = None THEN HomeResource ELSE q.regions)
                        /\ \E k \in Key : of[r][k] # "none"}
        ELSE kept

\* The tags that were looked at break the policy.
BreaksIn(a, r, v) ==
    \/ v[2] = "missing_tag" /\ a.of[r][v[1]] = "none"
    \/ v[2] = "invalid_value" /\ a.strict /\ a.of[r][v[1]] = "other"

\* The counts of a are those of the resources kept, whatever its details.
Counts(a, kept) ==
    /\ a = [tool |-> "check_tag_compliance", policy |-> a.policy, strict |-> a.strict,
            of |-> a.of, bad |-> a.bad, rows |-> a.rows,
            buckets |-> a.buckets, cut |-> a.cut, limited |-> a.limited, failed |-> a.failed]
    /\ \A v \in Tags!Violation : v[1] \in a.policy =>
            a.buckets[v] = Cardinality({r \in kept : BreaksIn(a, r, v)})
    /\ a.bad = 0 <=>
            \A r \in kept : \A v \in Tags!Violation : v[1] \in a.policy => ~BreaksIn(a, r, v)
    /\ a.cut \/ Cardinality(a.rows) = a.bad
    /\ \A v \in Tags!Violation : a.buckets[v] \in Nat
    /\ (\A v \in Tags!Violation : ~(a.buckets[v] > 0)) => a.bad = 0

\* What _assemble_compliance_response fills in.
BadOf(q, keys, kept) == {r \in kept : Tags!ViolationsOf(r, keys, Tags!Strict(q)) # {}}
KeptOf(q, seen) == IF q.system THEN seen ELSE seen \ SystemManaged
Assembly(a, q, keys, seen) ==
    LET bad == BadOf(q, keys, KeptOf(q, seen)) IN
    \E details \in SUBSET bad :
        a = [tool |-> "check_tag_compliance", policy |-> keys, strict |-> Tags!Strict(q),
             of |-> world.tags, bad |-> Cardinality(bad),
             rows |-> details, buckets |-> Tags!Buckets(bad, details, keys, Tags!Strict(q)),
             cut |-> details # bad, limited |-> a.limited, failed |-> a.failed]

LEMMA AssembledFlags ==
  ASSUME NEW q, NEW keys, NEW seen, NEW limited, NEW failed,
         NEW a \in Tags!Assembled(q, keys, seen, limited, failed)
  PROVE  a.limited = limited /\ a.failed = failed
<1>1. PICK bad, details, buckets, cut :
        a = [tool |-> "check_tag_compliance", policy |-> keys, strict |-> Tags!Strict(q),
             of |-> world.tags, bad |-> bad, rows |-> details,
             buckets |-> buckets, cut |-> cut, limited |-> limited, failed |-> failed]
  BY ZenonT(30) DEF Tags!Assembled
<1> QED
  BY <1>1

LEMMA AssembledFilled ==
  ASSUME NEW q, NEW keys, NEW seen, NEW limited, NEW failed,
         NEW a \in Tags!Assembled(q, keys, seen, limited, failed)
  PROVE  Assembly(a, q, keys, seen)
<1> DEFINE bad == BadOf(q, keys, KeptOf(q, seen))
<1>1. PICK details \in SUBSET bad :
        a = [tool |-> "check_tag_compliance", policy |-> keys, strict |-> Tags!Strict(q),
             of |-> world.tags, bad |-> Cardinality(bad),
             rows |-> details, buckets |-> Tags!Buckets(bad, details, keys, Tags!Strict(q)),
             cut |-> details # bad, limited |-> limited, failed |-> failed]
  BY SameCardinality3 DEF Tags!Assembled, Tags!AtMost, BadOf, KeptOf
<1>2. a.limited = limited /\ a.failed = failed
  BY <1>1
<1> QED
  BY <1>1, <1>2 DEF Assembly

\* Resources that break nothing count for nothing.
LEMMA SameCounts ==
  ASSUME NEW a, NEW kept, NEW asked, Counts(a, kept),
         \A v \in Tags!Violation : v[1] \in a.policy =>
             \A r : BreaksIn(a, r, v) => (r \in kept <=> r \in asked)
  PROVE  Counts(a, asked)
<1>1. ASSUME NEW v \in Tags!Violation, v[1] \in a.policy
      PROVE  a.buckets[v] = Cardinality({r \in asked : BreaksIn(a, r, v)})
  <2>1. {r \in asked : BreaksIn(a, r, v)} = {r \in kept : BreaksIn(a, r, v)}
    BY <1>1
  <2>2. a.buckets[v] = Cardinality({r \in kept : BreaksIn(a, r, v)})
    BY <1>1 DEF Counts
  <2> QED
    BY <2>1, <2>2
<1>2. a.bad = 0 <=>
        \A r \in asked : \A v \in Tags!Violation : v[1] \in a.policy => ~BreaksIn(a, r, v)
  <2>1. a.bad = 0 <=>
          \A r \in kept : \A v \in Tags!Violation : v[1] \in a.policy => ~BreaksIn(a, r, v)
    BY DEF Counts
  <2> QED
    BY <2>1
<1> QED
  BY <1>1, <1>2 DEF Counts

LEMMA AssembledCounts ==
  ASSUME NEW q, NEW keys \in SUBSET Key, NEW seen \in SUBSET Resource,
         NEW a, Assembly(a, q, keys, seen)
  PROVE  /\ Counts(a, KeptOf(q, seen)) /\ a.policy = keys
         /\ a.strict = Tags!Strict(q) /\ a.of = world.tags
<1> DEFINE kept == KeptOf(q, seen)
           bad == {r \in kept : Tags!ViolationsOf(r, keys, Tags!Strict(q)) # {}}
           Broken(v) == {r \in bad : v \in Tags!ViolationsOf(r, keys, Tags!Strict(q))}
<1>1. PICK details \in SUBSET bad :
        a = [tool |-> "check_tag_compliance", policy |-> keys, strict |-> Tags!Strict(q),
             of |-> world.tags, bad |-> Cardinality(bad),
             rows |-> details, buckets |-> Tags!Buckets(bad, details, keys, Tags!Strict(q)),
             cut |-> details # bad, limited |-> a.limited, failed |-> a.failed]
  BY DEF Assembly, BadOf
<1>2. /\ a.tool = "check_tag_compliance" /\ a.policy = keys /\ a.strict = Tags!Strict(q)
      /\ a.of = world.tags /\ a.bad = Cardinality(bad) /\ a.rows = details
      /\ a.buckets = Tags!Buckets(bad, details, keys, Tags!Strict(q))
      /\ a.cut = (details # bad)
      /\ a = [tool |-> "check_tag_compliance", policy |-> a.policy, strict |-> a.strict,
              of |-> a.of, bad |-> a.bad, rows |-> a.rows,
              buckets |-> a.buckets, cut |-> a.cut, limited |-> a.limited, failed |-> a.failed]
  BY <1>1
<1>3. \A r, v : v \in Tags!ViolationsOf(r, keys, Tags!Strict(q)) <=>
                  v \in keys \X {"missing_tag", "invalid_value"} /\ BreaksIn(a, r, v)
  BY <1>2 DEF Tags!ViolationsOf, BreaksIn
<1>4. \A v \in Tags!Violation : a.buckets[v] = Cardinality(Broken(v))
  BY <1>2, SameCardinality3 DEF Tags!Buckets
<1>5. \A v \in Tags!Violation : v[1] \in keys => v \in keys \X {"missing_tag", "invalid_value"}
  BY DEF Tags!Violation
<1>6. \A v \in keys \X {"missing_tag", "invalid_value"} : v \in Tags!Violation /\ v[1] \in keys
  BY DEF Tags!Violation
<1>7. IsFiniteSet(bad) /\ \A v : IsFiniteSet(Broken(v))
  <2>1. bad \subseteq Resource /\ \A v : Broken(v) \subseteq Resource
    BY DEF KeptOf
  <2> HIDE DEF bad, Broken
  <2> QED
    BY <2>1, TagConstants, FS_Subset
<1>8. \A v \in Tags!Violation : v[1] \in keys => Broken(v) = {r \in kept : BreaksIn(a, r, v)}
  BY <1>3, <1>5
<1>9. Cardinality(bad) = 0 <=> bad = {}
  BY <1>7, FS_EmptySet
<1>10. bad = {} <=> \A r \in kept : \A v \in Tags!Violation : v[1] \in keys => ~BreaksIn(a, r, v)
  BY <1>3, <1>5, <1>6
<1>11. \A v \in Tags!Violation : a.buckets[v] \in Nat
  <2> HIDE DEF Broken
  <2> QED
    BY <1>4, <1>7, FS_CardinalityType
<1>12. (\A v \in Tags!Violation : ~(a.buckets[v] > 0)) => bad = {}
  <2> SUFFICES ASSUME NEW r \in bad PROVE \E v \in Tags!Violation : a.buckets[v] > 0
    OBVIOUS
  <2>1. PICK v : v \in Tags!ViolationsOf(r, keys, Tags!Strict(q))
    OBVIOUS
  <2>2. v \in Tags!Violation /\ r \in Broken(v)
    BY <1>3, <1>6, <2>1
  <2>3. Cardinality(Broken(v)) # 0
    <3> HIDE DEF Broken
    <3> QED
      BY <1>7, <2>2, FS_EmptySet
  <2> HIDE DEF Broken
  <2>4. a.buckets[v] \in Nat /\ a.buckets[v] # 0
    BY <1>4, <1>11, <2>2, <2>3
  <2> QED
    BY <2>2, <2>4
<1>13. a.cut \/ Cardinality(a.rows) = a.bad
  BY <1>2
<1> HIDE DEF bad, Broken, kept
<1>14. \A v \in Tags!Violation : v[1] \in a.policy =>
            a.buckets[v] = Cardinality({r \in kept : BreaksIn(a, r, v)})
  BY <1>2, <1>4, <1>8
<1>15. Counts(a, kept)
  BY <1>2, <1>9, <1>10, <1>11, <1>12, <1>13, <1>14 DEF Counts
<1> QED
  BY <1>2, <1>15 DEF kept

\* The parameters a request has.
Proper(q) ==
    /\ q = [required |-> q.required, allowed |-> q.allowed, types |-> q.types,
            regions |-> q.regions, accounts |-> q.accounts, system |-> q.system,
            aws |-> q.aws, max |-> q.max, limit |-> q.limit, refresh |-> q.refresh]
    /\ q.required \in {None, Key} /\ q.allowed \in {None, Key}
    /\ q.types \in {None, Resource \ SystemManaged}
    /\ q.regions \in {None, HomeResource, Resource} /\ q.accounts \in {None, OwnResource}
    /\ q.limit \in {None, 1}
    /\ q.system \in BOOLEAN /\ q.aws \in BOOLEAN /\ q.refresh \in BOOLEAN

Swept == [Tags!Plain EXCEPT !.refresh = TRUE]

LEMMA Refreshed ==
  ASSUME NEW p, p = [required |-> p.required, allowed |-> p.allowed, types |-> p.types,
                      regions |-> p.regions, accounts |-> p.accounts, system |-> p.system,
                      aws |-> p.aws, max |-> p.max, limit |-> p.limit, refresh |-> p.refresh],
         NEW s, s = [p EXCEPT !.refresh = TRUE]
  PROVE  /\ s.required = p.required /\ s.allowed = p.allowed /\ s.types = p.types
         /\ s.regions = p.regions /\ s.accounts = p.accounts /\ s.system = p.system
         /\ s.aws = p.aws /\ s.limit = p.limit /\ s.refresh = TRUE
         /\ s = [required |-> s.required, allowed |-> s.allowed, types |-> s.types,
                      regions |-> s.regions, accounts |-> s.accounts, system |-> s.system,
                      aws |-> s.aws, max |-> s.max, limit |-> s.limit, refresh |-> s.refresh]
OBVIOUS

\* The collector asks for everything.
AsksAll(s) ==
    /\ Proper(s)
    /\ s.required = None /\ s.allowed = None /\ s.types = None
    /\ s.regions = None /\ s.accounts = None /\ s.limit = None
    /\ ~s.system /\ ~s.aws

LEMMA RefreshedAll ==
  ASSUME NEW p, p = [required |-> p.required, allowed |-> p.allowed, types |-> p.types,
                      regions |-> p.regions, accounts |-> p.accounts, system |-> p.system,
                      aws |-> p.aws, max |-> p.max, limit |-> p.limit, refresh |-> p.refresh],
         p.required = None, p.allowed = None, p.types = None, p.regions = None,
         p.accounts = None, p.system = FALSE, p.aws = FALSE, p.limit = None,
         NEW s, s = [p EXCEPT !.refresh = TRUE]
  PROVE  AsksAll(s)
<1>1. /\ s.required = p.required /\ s.allowed = p.allowed /\ s.types = p.types
      /\ s.regions = p.regions /\ s.accounts = p.accounts /\ s.system = p.system
      /\ s.aws = p.aws /\ s.limit = p.limit /\ s.refresh = TRUE
      /\ s = [required |-> s.required, allowed |-> s.allowed, types |-> s.types,
                   regions |-> s.regions, accounts |-> s.accounts, system |-> s.system,
                   aws |-> s.aws, max |-> s.max, limit |-> s.limit, refresh |-> s.refresh]
  BY Refreshed
<1> QED
  BY <1>1 DEF AsksAll, Proper

LEMMA SweptPlain ==
  AsksAll(Swept)
<1> DEFINE p == Tags!Plain
<1>1. /\ p = [required |-> p.required, allowed |-> p.allowed, types |-> p.types,
                   regions |-> p.regions, accounts |-> p.accounts, system |-> p.system,
                   aws |-> p.aws, max |-> p.max, limit |-> p.limit, refresh |-> p.refresh]
      /\ p.required = None /\ p.allowed = None /\ p.types = None
      /\ p.regions = None /\ p.accounts = None /\ p.system = FALSE
      /\ p.aws = FALSE /\ p.limit = None
  BY DEF Tags!Plain
<1>2. Swept = [p EXCEPT !.refresh = TRUE]
  BY DEF Swept
<1> HIDE DEF p
<1> QED
  BY <1>1, <1>2, RefreshedAll

LEMMA RequestsProper ==
  ASSUME NEW q \in Tags!Request
  PROVE  Proper(q)
<1>1. q \in [required : {None, Key}, allowed : {None, Key}, types : {None, Resource \ SystemManaged},
             regions : {None, HomeResource, Resource}, accounts : {None, OwnResource},
             system : BOOLEAN, aws : BOOLEAN, max : {0, Tags!Cardinality(Resource)},
             limit : {None, 1}, refresh : BOOLEAN]
  BY DEF Tags!Request, Tags!OfScan, Tags!OfSearch
<1> QED
  BY <1>1 DEF Proper

\* What a scan says, when it was not limited, of what was asked about.
CheckOf(a, q) ==
    /\ \E kept : Counts(a, kept) /\ (~a.limited /\ ~a.failed => kept = AskedBy(q, a.of))
    /\ q.required # None /\ ~q.aws => a.policy = q.required

LEMMA CheckedCounts ==
  ASSUME NEW q, Proper(q),
         world.policy \in {None, OrgKeys},
         NEW a \in Tags!Checked(q)
  PROVE  a.tool = "error" \/ CheckOf(a, q)
<1> DEFINE Kept(seen) == KeptOf(q, seen)
<1>1. Tags!Matching(q) \subseteq Resource
  BY DEF Proper, Tags!Matching
<1>2. ASSUME NEW e, e = Tags!Failure("no_policy") \/ e = Tags!Failure("not_indexed")
      PROVE  e.tool = "error"
  BY <1>2 DEF Tags!Failure
<1>3. CASE ~q.aws
  <2>1. a \in Tags!CheckedInPython(q)
    BY <1>3 DEF Tags!Checked
  <2>2. CASE a = Tags!Failure("no_policy") \/ a = Tags!Failure("not_indexed")
    BY <1>2, <2>2
  <2>3. CASE ~(a = Tags!Failure("no_policy") \/ a = Tags!Failure("not_indexed"))
    <3>1. /\ Tags!PolicyOf(q) # None
          /\ \E seen \in Tags!AtMost(MaxSearch, Tags!Matching(q)) :
               a \in Tags!Assembled(q, Tags!PolicyOf(q), seen, Cardinality(seen) >= MaxSearch, FALSE)
      BY <2>1, <2>3, SameCardinality3 DEF Tags!CheckedInPython
    <3>2. PICK seen \in Tags!AtMost(MaxSearch, Tags!Matching(q)) :
            a \in Tags!Assembled(q, Tags!PolicyOf(q), seen, Cardinality(seen) >= MaxSearch, FALSE)
      BY <3>1
    <3>3. /\ seen \in SUBSET Tags!Matching(q)
          /\ Cardinality(seen) = IF Cardinality(Tags!Matching(q)) < MaxSearch
                                 THEN Cardinality(Tags!Matching(q)) ELSE MaxSearch
      BY SameCardinality3 DEF Tags!AtMost
    <3>4. Tags!PolicyOf(q) \in SUBSET Key
      BY <3>1, TagConstants DEF Proper, Tags!PolicyOf
    <3>5. seen \in SUBSET Resource
      BY <1>1, <3>3
    <3>6. /\ Counts(a, Kept(seen)) /\ a.policy = Tags!PolicyOf(q) /\ a.of = world.tags
          /\ a.limited <=> Cardinality(seen) >= MaxSearch
      <4> DEFINE keys == Tags!PolicyOf(q)
                 bad == BadOf(q, keys, KeptOf(q, seen))
      <4>1. PICK details \in SUBSET bad :
              a = [tool |-> "check_tag_compliance", policy |-> keys, strict |-> Tags!Strict(q),
                   of |-> world.tags, bad |-> Cardinality(bad),
                   rows |-> details, buckets |-> Tags!Buckets(bad, details, keys, Tags!Strict(q)),
                   cut |-> details # bad, limited |-> Cardinality(seen) >= MaxSearch, failed |-> FALSE]
        BY <3>2, SameCardinality3 DEF Tags!Assembled, Tags!AtMost, BadOf, KeptOf
      <4>2. a.limited <=> Cardinality(seen) >= MaxSearch
        BY <4>1
      <4>3. Assembly(a, q, keys, seen)
        BY <4>1 DEF Assembly
      <4> HIDE DEF bad
      <4> QED
        BY <3>4, <3>5, <4>2, <4>3, AssembledCounts
    <3>7. ASSUME ~a.limited PROVE Kept(seen) = AskedBy(q, a.of)
      <4>1. IsFiniteSet(Tags!Matching(q)) /\ MaxSearch \in Nat
        BY <1>1, TagConstants, FS_Subset, GatewayConstants
      <4>2. Cardinality(seen) \in Nat /\ (Cardinality(seen) < MaxSearch => seen = Tags!Matching(q))
        BY <3>3, <4>1, Cut
      <4>3. seen = Tags!Matching(q)
        BY <3>6, <3>7, <4>1, <4>2
      <4> QED
        BY <1>3, <4>3 DEF AskedBy, KeptOf
    <3>8. q.required # None => a.policy = q.required
      <4>1. q.required # None => Tags!PolicyOf(q) = q.required
        <5>1. ASSUME q.required # None PROVE Tags!PolicyOf(q) = q.required
          <6>1. q.required = Key /\ q.allowed \in {None, Key}
            BY <5>1 DEF Proper
          <6>2. Tags!PolicyOf(q) = q.required \cup IF q.allowed = None THEN {} ELSE q.allowed
            BY <5>1 DEF Tags!PolicyOf
          <6> QED
            BY <6>1, <6>2
        <5> QED
          BY <5>1
      <4> QED
        BY <3>6, <4>1
    <3> QED
      BY <3>6, <3>7, <3>8 DEF CheckOf
  <2> QED
    BY <2>2, <2>3
<1>4. CASE q.aws
  <2>1. a \in Tags!CheckedByAws(q)
    BY <1>4 DEF Tags!Checked
  <2> DEFINE listed == {r \in Tags!Listed(q) : Tags!ViolationsOf(r, world.policy, TRUE) # {}}
             Org == [q EXCEPT !.required = None]
  <2>2. CASE world.policy = None
    BY <1>2, <2>1, <2>2 DEF Tags!CheckedByAws
  <2>3. CASE world.policy # None
    <3>1. \/ a \in Tags!Assembled(Org, world.policy, listed, FALSE, FALSE)
          \/ \E seen \in SUBSET listed : a \in Tags!Assembled(Org, world.policy, seen, FALSE, TRUE)
      BY <2>1, <2>3 DEF Tags!CheckedByAws
    <3>2. Org.required = None /\ \A seen : KeptOf(Org, seen) = KeptOf(q, seen)
      BY DEF Proper, KeptOf
    <3>3. world.policy \in SUBSET Key /\ listed \in SUBSET Resource
      BY <1>1, <2>3, TagConstants DEF Tags!Listed
    <3>4. Tags!Strict(Org) = TRUE
      BY <3>2 DEF Tags!Strict
    <3> HIDE DEF Org
    <3>5. CASE a \in Tags!Assembled(Org, world.policy, listed, FALSE, FALSE)
      <4> HIDE DEF listed
      <4>1. Assembly(a, Org, world.policy, listed)
        BY <3>5, AssembledFilled
      <4>2. /\ Counts(a, Kept(listed)) /\ a.policy = world.policy
            /\ a.strict = TRUE /\ a.of = world.tags
        BY <3>2, <3>3, <3>4, <4>1, AssembledCounts
      <4>3. ASSUME NEW v \in Tags!Violation, v[1] \in a.policy, NEW r, BreaksIn(a, r, v)
            PROVE  r \in Kept(listed) <=> r \in AskedBy(q, a.of)
        <5>1. v \in world.policy \X {"missing_tag", "invalid_value"}
          BY <4>2, <4>3 DEF Tags!Violation
        <5>2. v \in Tags!ViolationsOf(r, world.policy, TRUE)
          BY <4>2, <4>3, <5>1 DEF BreaksIn, Tags!ViolationsOf
        <5>3. r \in listed <=> r \in Tags!Listed(q)
          BY <5>2 DEF listed
        <5>4. r \in Tags!Listed(q) <=>
                /\ r \in Tags!Matching(q) /\ r \notin GlobalResource
                /\ r \in (IF q.regions = None THEN HomeResource ELSE q.regions)
                /\ \E k \in Key : a.of[r][k] # "none"
          BY <4>2 DEF Tags!Listed, Tags!Untagged
        <5> QED
          BY <1>4, <5>3, <5>4 DEF AskedBy, KeptOf
      <4> HIDE DEF Kept
      <4>4. Counts(a, AskedBy(q, a.of))
        BY <4>2, <4>3, SameCounts
      <4> QED
        BY <1>4, <4>4 DEF CheckOf
    <3>6. ASSUME NEW seen \in SUBSET listed, a \in Tags!Assembled(Org, world.policy, seen, FALSE, TRUE)
          PROVE  CheckOf(a, q)
      <4>1. seen \in SUBSET Resource
        BY <3>3
      <4> HIDE DEF listed
      <4>2. Assembly(a, Org, world.policy, seen)
        BY <3>6, AssembledFilled
      <4>3. a.limited = FALSE /\ a.failed = TRUE
        BY <3>6, AssembledFlags, Zenon
      <4>4. Counts(a, Kept(seen))
        BY <3>2, <3>3, <4>1, <4>2, AssembledCounts
      <4> QED
        BY <1>4, <4>3, <4>4 DEF CheckOf
    <3> QED
      BY <3>1, <3>5, <3>6
  <2> QED
    BY <2>2, <2>3
<1> QED
  BY <1>3, <1>4

\* A list of untagged resources that says neither that it was limited nor cut, and
\* whose search returned fewer than the caller's limit, has them all.
UntaggedOf(a, q) ==
    /\ a = [tool |-> "find_untagged_resources", of |-> a.of, rows |-> a.rows, raw |-> a.raw,
            cut |-> a.cut, limited |-> a.limited]
    /\ a.rows \subseteq Tags!Matching(q)
    /\ /\ ~a.limited /\ ~a.cut
       /\ q.limit = None \/ a.raw < q.limit
       => \A r \in Tags!Wanted(q) : (\A k \in Key : a.of[r][k] = "none") => r \in a.rows

LEMMA UntaggedComplete ==
  ASSUME NEW q, Proper(q),
         NEW a \in Tags!FoundUntagged(q)
  PROVE  a.tool = "error" \/ UntaggedOf(a, q)
<1>1. CASE a = Tags!Failure("not_indexed")
  BY <1>1 DEF Tags!Failure
<1>2. CASE a # Tags!Failure("not_indexed")
  <2>1. PICK among \in Tags!Pushed(q) :
          \E raw \in Tags!AtMost(Tags!SearchCap(q), {r \in among : Tags!Untagged(r)}) :
             a = [tool |-> "find_untagged_resources", of |-> world.tags,
                  rows |-> raw \cap Tags!Wanted(q), raw |-> Cardinality(raw),
                  cut |-> FALSE, limited |-> Cardinality(raw) >= MaxSearch]
    BY <1>2, SameCardinality3 DEF Tags!FoundUntagged
  <2> DEFINE U == {r \in among : Tags!Untagged(r)}
  <2>2. PICK raw \in Tags!AtMost(Tags!SearchCap(q), U) :
          a = [tool |-> "find_untagged_resources", of |-> world.tags,
               rows |-> raw \cap Tags!Wanted(q), raw |-> Cardinality(raw),
               cut |-> FALSE, limited |-> Cardinality(raw) >= MaxSearch]
    BY <2>1
  <2>3. /\ a.of = world.tags /\ a.rows = raw \cap Tags!Wanted(q) /\ a.raw = Cardinality(raw)
        /\ a.limited <=> Cardinality(raw) >= MaxSearch
        /\ a = [tool |-> "find_untagged_resources", of |-> a.of, rows |-> a.rows, raw |-> a.raw,
                cut |-> a.cut, limited |-> a.limited]
    BY <2>2
  <2>4. Tags!Matching(q) \subseteq Resource
    BY DEF Proper, Tags!Matching
  <2>5. among \subseteq Resource /\ Tags!Wanted(q) \subseteq among
    <3>1. q.regions \in {None, HomeResource, Resource} /\ HomeResource \subseteq Resource
      BY TagConstants DEF Proper
    <3>2. CASE q.regions = None
      <4>1. among = Resource \/ among = Tags!Matching(q)
        BY <3>2 DEF Tags!Pushed
      <4> QED
        BY <2>4, <4>1 DEF Tags!Wanted
    <3>3. CASE q.regions # None
      <4>1. \/ among = Resource \/ among = Tags!Matching(q) \/ among = q.regions
            \/ among = q.regions \cap Tags!Matching(q)
        BY <3>3 DEF Tags!Pushed
      <4>2. q.regions \subseteq Resource /\ Tags!Wanted(q) \subseteq Tags!Matching(q) \cap q.regions
        BY <3>1, <3>3 DEF Tags!Wanted
      <4> QED
        BY <2>4, <4>1, <4>2
    <3> QED
      BY <3>2, <3>3
  <2>6. IsFiniteSet(U) /\ MaxSearch \in Nat /\ Tags!SearchCap(q) \in Nat
    <3>1. U \subseteq Resource
      BY <2>5
    <3>2. MaxSearch \in Nat /\ (q.limit # None => q.limit \in Nat)
      BY GatewayConstants DEF Proper
    <3> HIDE DEF U
    <3> QED
      BY <3>1, <3>2, TagConstants, FS_Subset DEF Tags!SearchCap
  <2>7. /\ raw \in SUBSET U
        /\ Cardinality(raw) = IF Cardinality(U) < Tags!SearchCap(q) THEN Cardinality(U)
                              ELSE Tags!SearchCap(q)
    BY SameCardinality3 DEF Tags!AtMost
  <2>8. ASSUME ~a.limited, q.limit = None \/ a.raw < q.limit PROVE raw = U
    <3> HIDE DEF U
    <3>1. Cardinality(raw) \in Nat /\ (Cardinality(raw) < Tags!SearchCap(q) => raw = U)
      BY <2>6, <2>7, Cut
    <3>2. Cardinality(raw) < MaxSearch
      BY <2>3, <2>6, <2>8, <3>1
    <3>3. Cardinality(raw) < Tags!SearchCap(q)
      BY <2>3, <2>8, <3>2 DEF Tags!SearchCap
    <3> QED
      BY <3>1, <3>3
  <2>9. ASSUME ~a.limited, q.limit = None \/ a.raw < q.limit,
               NEW r \in Tags!Wanted(q), \A k \in Key : a.of[r][k] = "none"
        PROVE  r \in a.rows
    <3>1. r \in U
      BY <2>3, <2>5, <2>9 DEF Tags!Untagged
    <3> QED
      BY <2>3, <2>8, <2>9, <3>1
  <2>10. a.rows \subseteq Tags!Matching(q)
    BY <2>3 DEF Tags!Wanted
  <2> QED
    BY <2>3, <2>9, <2>10 DEF UntaggedOf
<1> QED
  BY <1>1, <1>2

\* What an operation answers to a request, live or from the snapshot.
Others == {"error", "list_tag_keys_in_use", "get_required_tags"}
Answers(op, a, q) ==
    \/ a.tool \in Others
    \/ op = "check_tag_compliance" /\ CheckOf(a, q)
    \/ op = "find_untagged_resources" /\ UntaggedOf(a, q)

LEMMA LiveAnswers ==
  ASSUME NEW q, Proper(q), world.policy \in {None, OrgKeys},
         NEW op \in Tags!Operation, NEW a \in Tags!Live(op, q)
  PROVE  Answers(op, a, q)
<1>1. CASE op = "check_tag_compliance"
  <2>1. a \in Tags!Checked(q)
    BY <1>1 DEF Tags!Live
  <2> QED
    BY <1>1, <2>1, CheckedCounts DEF Answers, Others
<1>2. CASE op = "find_untagged_resources"
  <2>1. a \in Tags!FoundUntagged(q)
    BY <1>2 DEF Tags!Live
  <2> QED
    BY <1>2, <2>1, UntaggedComplete DEF Answers, Others
<1>3. CASE op = "list_tag_keys_in_use"
  <2>1. a = Tags!KeysInUse
    BY <1>3 DEF Tags!Live
  <2>2. a.tool = "list_tag_keys_in_use"
    BY <2>1 DEF Tags!KeysInUse
  <2> QED
    BY <2>2 DEF Answers, Others
<1>4. CASE op = "get_required_tags"
  <2>1. a = Tags!RequiredTags(q)
    BY <1>4 DEF Tags!Live
  <2>2. a.tool = "error" \/ a.tool = "get_required_tags"
    BY <2>1 DEF Tags!RequiredTags, Tags!Failure
  <2> QED
    BY <2>2 DEF Answers, Others
<1> QED
  BY <1>1, <1>2, <1>3, <1>4 DEF Tags!Operation

\* Details that are cut are said to be cut, and take no count with them.
LEMMA CutAnswers ==
  ASSUME NEW op, NEW a, NEW q, Answers(op, a, q), NEW max, NEW b \in Tags!Cut(a, max)
  PROVE  Answers(op, b, q)
<1>1. CASE a.tool \in Others
  <2>1. a.tool \notin {"check_tag_compliance", "find_untagged_resources"}
    BY <1>1 DEF Others
  <2>2. b = a
    BY <2>1 DEF Tags!Cut
  <2> QED
    BY <2>2
<1>2. CASE CheckOf(a, q) /\ op = "check_tag_compliance"
  <2>1. PICK kept : Counts(a, kept) /\ (~a.limited /\ ~a.failed => kept = AskedBy(q, a.of))
    BY <1>2 DEF CheckOf
  <2>2. a = [tool |-> "check_tag_compliance", policy |-> a.policy, strict |-> a.strict,
             of |-> a.of, bad |-> a.bad, rows |-> a.rows,
             buckets |-> a.buckets, cut |-> a.cut, limited |-> a.limited, failed |-> a.failed]
    BY <2>1 DEF Counts
  <2>3. a.tool = "check_tag_compliance"
    BY <2>2
  <2>4. PICK rows : b = [a EXCEPT !.rows = rows, !.cut = @ \/ rows # a.rows]
    BY <2>3 DEF Tags!Cut
  <2>5. /\ b.policy = a.policy /\ b.strict = a.strict /\ b.of = a.of /\ b.bad = a.bad
        /\ b.rows = rows /\ b.buckets = a.buckets /\ b.limited = a.limited
        /\ b.failed = a.failed /\ b.tool = "check_tag_compliance"
    BY <2>2, <2>4
  <2>12. b.cut <=> a.cut \/ rows # a.rows
    BY <2>2, <2>4
  <2>13. b = [tool |-> b.tool, policy |-> b.policy, strict |-> b.strict,
              of |-> b.of, bad |-> b.bad, rows |-> b.rows,
              buckets |-> b.buckets, cut |-> b.cut, limited |-> b.limited, failed |-> b.failed]
    BY <2>2, <2>4
  <2>6. \A r, v : BreaksIn(b, r, v) <=> BreaksIn(a, r, v)
    BY <2>5 DEF BreaksIn
  <2>7. \A v \in Tags!Violation : v[1] \in b.policy =>
            b.buckets[v] = Cardinality({r \in kept : BreaksIn(b, r, v)})
    <3> TAKE v \in Tags!Violation
    <3> HAVE v[1] \in b.policy
    <3>1. a.buckets[v] = Cardinality({r \in kept : BreaksIn(a, r, v)})
      BY <2>1, <2>5 DEF Counts
    <3>2. {r \in kept : BreaksIn(a, r, v)} = {r \in kept : BreaksIn(b, r, v)}
      BY <2>6
    <3> QED
      BY <2>5, <3>1, <3>2
  <2>8. b.cut \/ Cardinality(b.rows) = b.bad
    <3>1. a.cut \/ Cardinality(a.rows) = a.bad
      BY <2>1 DEF Counts
    <3> QED
      BY <2>5, <2>12, <3>1
  <2>9. b.bad = 0 <=>
            \A r \in kept : \A v \in Tags!Violation : v[1] \in b.policy => ~BreaksIn(b, r, v)
    BY <2>1, <2>5, <2>6 DEF Counts
  <2>10. /\ \A v \in Tags!Violation : b.buckets[v] \in Nat
         /\ (\A v \in Tags!Violation : ~(b.buckets[v] > 0)) => b.bad = 0
    BY <2>1, <2>5 DEF Counts
  <2>11. Counts(b, kept)
    BY <2>5, <2>7, <2>8, <2>9, <2>10, <2>13 DEF Counts
  <2> QED
    BY <1>2, <2>1, <2>5, <2>11 DEF CheckOf, Answers
<1>3. CASE UntaggedOf(a, q) /\ op = "find_untagged_resources"
  <2>1. /\ a = [tool |-> "find_untagged_resources", of |-> a.of, rows |-> a.rows, raw |-> a.raw,
                cut |-> a.cut, limited |-> a.limited]
        /\ a.rows \subseteq Tags!Matching(q)
        /\ /\ ~a.limited /\ ~a.cut
           /\ q.limit = None \/ a.raw < q.limit
           => \A r \in Tags!Wanted(q) : (\A k \in Key : a.of[r][k] = "none") => r \in a.rows
    BY <1>3 DEF UntaggedOf
  <2>2. a.tool = "find_untagged_resources"
    BY <2>1
  <2>3. PICK rows \in Tags!AtMost(max, a.rows) :
            b = [a EXCEPT !.rows = rows, !.cut = @ \/ rows # a.rows]
    BY <2>2 DEF Tags!Cut
  <2>4. b.of = a.of /\ b.rows = rows /\ b.raw = a.raw /\ b.limited = a.limited
        /\ b.tool = "find_untagged_resources"
    BY <2>1, <2>3
  <2>7. b = [tool |-> b.tool, of |-> b.of, rows |-> b.rows, raw |-> b.raw, cut |-> b.cut,
             limited |-> b.limited]
    BY <2>1, <2>3
  <2>5. rows \subseteq a.rows
    BY DEF Tags!AtMost
  <2>6. b.cut <=> a.cut \/ rows # a.rows
    BY <2>1, <2>3
  <2> QED
    BY <1>3, <2>1, <2>4, <2>5, <2>6, <2>7 DEF UntaggedOf, Answers
<1> QED
  BY <1>1, <1>2, <1>3 DEF Answers

\* A stored answer is one to every request that does not force a live one.
LEMMA StoredAnswers ==
  ASSUME NEW op, NEW q, Proper(q), ~Tags!ForcesLive(op, q), NEW a, Answers(op, a, Swept)
  PROVE  Answers(op, a, q)
<1>1. CASE op = "check_tag_compliance" /\ CheckOf(a, Swept)
  <2>1. q.types = None /\ q.required = None /\ ~q.system /\ ~q.aws
    BY <1>1 DEF Tags!ForcesLive
  <2>2. AskedBy(q, a.of) = AskedBy(Swept, a.of)
    BY <2>1, SweptPlain DEF AsksAll, AskedBy, Tags!Matching
  <2> QED
    BY <1>1, <2>1, <2>2 DEF CheckOf, Answers
<1>2. CASE op = "find_untagged_resources" /\ UntaggedOf(a, Swept)
  <2>1. q.types = None /\ q.regions = None
    BY <1>2 DEF Tags!ForcesLive
  <2>2. Tags!Matching(q) = Tags!Matching(Swept) /\ Tags!Wanted(q) \subseteq Tags!Wanted(Swept)
    BY <2>1, SweptPlain DEF AsksAll, Tags!Matching, Tags!Wanted
  <2>3. ~a.limited /\ ~a.cut =>
          \A r \in Tags!Wanted(Swept) : (\A k \in Key : a.of[r][k] = "none") => r \in a.rows
    BY <1>2, SweptPlain DEF AsksAll, UntaggedOf
  <2> QED
    BY <1>2, <2>2, <2>3 DEF UntaggedOf, Answers
<1> QED
  BY <1>1, <1>2 DEF Answers

\* What is said to a caller holds of what this caller asked.
LEMMA AnswerHolds ==
  ASSUME NEW op, NEW a, NEW q, Answers(op, a, q),
         answer' = [tool |-> a.tool, op |-> op, request |-> q, reply |-> a]
  PROVE  Tags!TagAnswersHold'
<1>1. answer'.tool = a.tool /\ answer'.request = q /\ answer'.reply = a
  OBVIOUS
<1>2. CASE a.tool \in Others
  BY <1>1, <1>2 DEF Others, Tags!TagAnswersHold
<1>3. CASE CheckOf(a, q)
  <2>1. PICK kept : Counts(a, kept) /\ (~a.limited /\ ~a.failed => kept = AskedBy(q, a.of))
    BY <1>3 DEF CheckOf
  <2>2. a.tool = "check_tag_compliance"
    BY <2>1 DEF Counts
  <2>3. Tags!Asked' = AskedBy(q, a.of)
    BY <1>1 DEF Tags!Asked, AskedBy, Tags!Matching
  <2>4. \A r, v : Tags!Breaks(r, v)' <=> BreaksIn(a, r, v)
    BY <1>1 DEF Tags!Breaks, BreaksIn
  <2>5. ASSUME ~a.limited, ~a.failed
        PROVE  /\ \A v \in Tags!Violation : v[1] \in a.policy =>
                     a.buckets[v] = Cardinality({r \in AskedBy(q, a.of) : Tags!Breaks(r, v)'})
               /\ a.bad = 0 <=> \A r \in AskedBy(q, a.of) : \A v \in Tags!Violation :
                                    v[1] \in a.policy => ~Tags!Breaks(r, v)'
               /\ a.cut \/ Cardinality(a.rows) = a.bad
    <3>1. Counts(a, AskedBy(q, a.of))
      BY <2>1, <2>5
    <3>2. \A v : {r \in AskedBy(q, a.of) : Tags!Breaks(r, v)'} = {r \in AskedBy(q, a.of) : BreaksIn(a, r, v)}
      BY <2>4
    <3>3. \A v \in Tags!Violation : v[1] \in a.policy =>
                     a.buckets[v] = Cardinality({r \in AskedBy(q, a.of) : Tags!Breaks(r, v)'})
      BY <3>1, <3>2 DEF Counts
    <3>4. a.bad = 0 <=> \A r \in AskedBy(q, a.of) : \A v \in Tags!Violation :
                                    v[1] \in a.policy => ~Tags!Breaks(r, v)'
      BY <2>4, <3>1 DEF Counts
    <3>5. a.cut \/ Cardinality(a.rows) = a.bad
      BY <3>1 DEF Counts
    <3> QED
      BY <3>3, <3>4, <3>5
  <2>6. q.required # None /\ ~q.aws => a.policy = q.required
    BY <1>3 DEF CheckOf
  <2> QED
    BY <1>1, <2>2, <2>3, <2>5, <2>6, SameCardinality3 DEF Tags!TagAnswersHold
<1>4. CASE UntaggedOf(a, q)
  <2>1. a.tool = "find_untagged_resources"
    BY <1>4 DEF UntaggedOf
  <2>2. Tags!Matching(answer.request)' = Tags!Matching(q) /\ Tags!Wanted(answer.request)' = Tags!Wanted(q)
    BY <1>1 DEF Tags!Matching, Tags!Wanted
  <2> QED
    BY <1>1, <1>4, <2>1, <2>2 DEF UntaggedOf, Tags!TagAnswersHold
<1> QED
  BY <1>2, <1>3, <1>4 DEF Answers

LEMMA TwoFinite == \A a, b : IsFiniteSet({a, b})
<1> TAKE a, b
<1>1. IsFiniteSet({a})
  BY FS_Singleton
<1>2. {a, b} = {a} \cup {b}
  OBVIOUS
<1> QED
  BY <1>1, <1>2, FS_AddElement

\* The links repair the largest buckets.
LEMMA LinksHold ==
  ASSUME NEW q, Proper(q), world.policy \in {None, OrgKeys},
         NEW max \in {1, 2}, Tags!Guide(q, max)
  PROVE  Tags!TagAnswersHold'
<1>1. PICK check \in Tags!Checked(q) :
        IF check.tool = "error"
        THEN answer' = [tool |-> "error", request |-> q, reply |-> check]
        ELSE LET Before(v, w) == Tags!Bigger(check.buckets, v, w)
                 Filled == {v \in Tags!Violation : check.buckets[v] > 0}
             IN  \E links \in Tags!First(max, Filled, Before) :
                    answer' = [tool |-> "links", request |-> q, links |-> links, reply |-> check,
                               dropped |-> Cardinality(Filled) - Cardinality(links)]
  BY SameCardinality3 DEF Tags!Guide
<1>2. CASE check.tool = "error"
  BY <1>1, <1>2 DEF Tags!TagAnswersHold
<1>3. CASE check.tool # "error"
  <2> DEFINE Filled == {v \in Tags!Violation : check.buckets[v] > 0}
  <2>1. PICK links : /\ links \in SUBSET Filled
                     /\ Cardinality(links) = IF Cardinality(Filled) < max
                                             THEN Cardinality(Filled) ELSE max
                     /\ \A v \in links, w \in Filled \ links :
                            ~Tags!Bigger(check.buckets, w, v)
                     /\ answer' = [tool |-> "links", request |-> q, links |-> links,
                                   reply |-> check,
                                   dropped |-> Cardinality(Filled) - Cardinality(links)]
    BY <1>1, <1>3, SameCardinality3 DEF Tags!First, Tags!AtMost
  <2>2. answer'.tool = "links" /\ answer'.links = links /\ answer'.reply = check
    BY <2>1
  <2>3. CheckOf(check, q)
    BY <1>3, CheckedCounts
  <2>4. /\ \A v \in Tags!Violation : check.buckets[v] \in Nat
        /\ (\A v \in Tags!Violation : ~(check.buckets[v] > 0)) => check.bad = 0
    BY <2>3 DEF CheckOf, Counts
  <2>5. ASSUME NEW v \in links, NEW w \in Tags!Violation \ links
        PROVE  check.buckets[v] >= check.buckets[w]
    <3>1. v \in Filled /\ check.buckets[v] \in Nat /\ check.buckets[w] \in Nat
      BY <2>1, <2>4
    <3>2. CASE w \in Filled
      <4>1. ~(check.buckets[w] > check.buckets[v])
        BY <2>1, <2>5, <3>2 DEF Tags!Bigger
      <4> QED
        BY <3>1, <4>1
    <3>3. CASE w \notin Filled
      BY <3>1, <3>3
    <3> QED
      BY <3>2, <3>3
  <2>6. ASSUME links = {} PROVE check.bad = 0
    <3>1. Cardinality(links) = 0
      BY <2>6, FS_EmptySet
    <3>2. Filled = {}
      <4>1. IsFiniteSet({"missing_tag", "invalid_value"})
        BY TwoFinite
      <4>2. IsFiniteSet(Tags!Violation)
        BY <4>1, TagConstants, FS_Product DEF Tags!Violation
      <4>3. IsFiniteSet(Filled)
        BY <4>2, FS_Subset
      <4> HIDE DEF Filled
      <4>4. Cardinality(Filled) \in Nat /\ Cardinality(Filled) = 0
        BY <2>1, <3>1, <4>3, FS_CardinalityType
      <4> QED
        BY <4>3, <4>4, FS_EmptySet
    <3> QED
      BY <2>4, <3>2
  <2> QED
    BY <2>2, <2>5, <2>6 DEF Tags!TagAnswersHold
<1> QED
  BY <1>2, <1>3

-----------------------------------------------------------------------------
(* The snapshot holds answers to the collector's own request, and what is   *)
(* answered from it is made of these.                                       *)
TagsInv ==
    tool = "tags" =>
        /\ world = [tags |-> world.tags, policy |-> world.policy, changes |-> world.changes,
                    sweeps |-> world.sweeps, cache |-> world.cache]
        /\ world.policy \in {None, OrgKeys}
        /\ world.cache = [op \in Tags!Operation |-> world.cache[op]]
        /\ \A op \in Tags!Operation :
              world.cache[op] # None => Answers(op, world.cache[op], Swept)
        /\ Tags!TagAnswersHold

\* A sweep stores what was answered to it, with fewer details or as an error.
LEMMA TagsCollect ==
  ASSUME NEW op \in Tags!Operation, TagsInv, tool = "tags", tool' = "tags", Tags!Collect(op)
  PROVE  TagsInv'
<1>1. PICK response \in Tags!Live(op, Swept) :
        \E stored \in Tags!Shrunk(response) :
            world' = [world EXCEPT !.cache[op] = stored, !.sweeps = @ + 1]
  BY DEF Tags!Collect, Swept
<1>2. PICK stored \in Tags!Shrunk(response) :
        world' = [world EXCEPT !.cache[op] = stored, !.sweeps = @ + 1]
  BY <1>1
<1>3. Proper(Swept)
  BY SweptPlain DEF AsksAll
<1>4. Answers(op, response, Swept)
  BY <1>3, LiveAnswers DEF TagsInv
<1>5. Answers(op, stored, Swept)
  <2>1. CASE stored = Tags!Failure("too_large")
    <3>1. stored.tool = "error"
      BY <2>1 DEF Tags!Failure
    <3> QED
      BY <3>1 DEF Answers, Others
  <2>2. CASE \E n \in 0..Tags!Cardinality(Resource) : stored \in Tags!Cut(response, n)
    <3>1. PICK n \in 0..Tags!Cardinality(Resource) : stored \in Tags!Cut(response, n)
      BY <2>2
    <3>2. \A m, b : b \in Tags!Cut(response, m) => Answers(op, b, Swept)
      <4> TAKE m, b
      <4> HAVE b \in Tags!Cut(response, m)
      <4> QED
        BY <1>4, CutAnswers
    <3> QED
      BY <3>1, <3>2
  <2>3. CASE stored \in UNION {Tags!Cut(response, n) : n \in 0..Tags!Cardinality(Resource)}
    <3>1. PICK S \in {Tags!Cut(response, n) : n \in 0..Tags!Cardinality(Resource)} : stored \in S
      BY <2>3
    <3> QED
      BY <2>2, <3>1
  <2>4. stored = Tags!Failure("too_large")
        \/ stored \in UNION {Tags!Cut(response, n) : n \in 0..Tags!Cardinality(Resource)}
    <3>1. stored \in Tags!Shrunk(response)
      BY <1>2
    <3> QED
      BY <3>1 DEF Tags!Shrunk
  <2> QED
    BY <2>1, <2>3, <2>4
<1>6. /\ world = [tags |-> world.tags, policy |-> world.policy, changes |-> world.changes,
                  sweeps |-> world.sweeps, cache |-> world.cache]
      /\ world.cache = [o \in Tags!Operation |-> world.cache[o]]
  BY DEF TagsInv
<1>7. /\ world'.policy = world.policy
      /\ world'.cache = [world.cache EXCEPT ![op] = stored]
      /\ world' = [tags |-> world'.tags, policy |-> world'.policy, changes |-> world'.changes,
                   sweeps |-> world'.sweeps, cache |-> world'.cache]
  BY <1>2, <1>6
<1>8. /\ world'.cache = [o \in Tags!Operation |-> world'.cache[o]]
      /\ world'.cache[op] = stored
      /\ \A o \in Tags!Operation \ {op} : world'.cache[o] = world.cache[o]
  BY <1>6, <1>7
<1>9. \A o \in Tags!Operation : world'.cache[o] # None => Answers(o, world'.cache[o], Swept)
  BY <1>5, <1>8 DEF TagsInv
<1>10. Tags!TagAnswersHold'
  BY DEF TagsInv, Tags!Collect, Tags!TagAnswersHold, Tags!Asked, Tags!Breaks, Tags!Matching, Tags!Wanted
<1> QED
  BY <1>7, <1>8, <1>9, <1>10 DEF TagsInv

\* A call that is answered from the snapshot, or live.
LEMMA TagsCall ==
  ASSUME NEW op \in Tags!Operation, NEW q \in Tags!Request,
         TagsInv, tool = "tags", tool' = "tags", Tags!Call(op, q)
  PROVE  TagsInv'
<1>1. PICK response \in IF Tags!ForcesLive(op, q) \/ world.cache[op] = None THEN Tags!Live(op, q)
                        ELSE Tags!Cut(world.cache[op], q.max) :
        answer' = [tool |-> response.tool, op |-> op, request |-> q, reply |-> response]
  BY DEF Tags!Call
<1>2. Proper(q) /\ world' = world
  BY RequestsProper DEF Tags!Call
<1>3. Answers(op, response, q)
  <2>1. CASE Tags!ForcesLive(op, q) \/ world.cache[op] = None
    <3>1. response \in Tags!Live(op, q)
      BY <1>1, <2>1
    <3> QED
      BY <1>2, <3>1, LiveAnswers DEF TagsInv
  <2>2. CASE ~Tags!ForcesLive(op, q) /\ world.cache[op] # None
    <3>1. response \in Tags!Cut(world.cache[op], q.max)
      BY <1>1, <2>2
    <3>2. Answers(op, world.cache[op], Swept)
      BY <2>2 DEF TagsInv
    <3>3. Answers(op, world.cache[op], q)
      BY <1>2, <2>2, <3>2, StoredAnswers
    <3> QED
      BY <3>1, <3>3, CutAnswers
  <2> QED
    BY <2>1, <2>2
<1>4. Tags!TagAnswersHold'
  BY <1>1, <1>3, AnswerHolds
<1> QED
  BY <1>2, <1>4 DEF TagsInv

\* A tag that is changed leaves what was answered and what is stored.
LEMMA TagsChange ==
  ASSUME NEW r \in Resource, NEW k \in Key, NEW value,
         TagsInv, tool = "tags", tool' = "tags", Tags!ChangeTag(r, k, value)
  PROVE  TagsInv'
<1>1. world = [tags |-> world.tags, policy |-> world.policy, changes |-> world.changes,
               sweeps |-> world.sweeps, cache |-> world.cache]
  BY DEF TagsInv
<1>2. world' = [world EXCEPT !.tags[r][k] = value, !.changes = @ + 1] /\ answer' = answer
  BY DEF Tags!ChangeTag
<1>3. /\ world'.policy = world.policy /\ world'.cache = world.cache
      /\ world' = [tags |-> world'.tags, policy |-> world'.policy, changes |-> world'.changes,
                   sweeps |-> world'.sweeps, cache |-> world'.cache]
  BY <1>1, <1>2
<1>4. Tags!TagAnswersHold'
  BY <1>2, SMTT(20) DEF TagsInv, Tags!TagAnswersHold, Tags!Asked, Tags!Breaks, Tags!Matching, Tags!Wanted
<1> QED
  BY <1>3, <1>4, SMTT(20) DEF TagsInv

\* The totals of a tag report count what breaks the policy among the resources
\* this caller asked about, whether it was scanned for or comes cut from the
\* snapshot, and the links repair the largest of what was found.
THEOREM TagAnswersCount == Spec => []TagAnswersHold
<1>1. Init => TagsInv
  <2> SUFFICES ASSUME Init, tool = "tags" PROVE TagsInv
    BY DEF TagsInv
  <2>1. Tags!Init
    BY DEF Init
  <2>2. /\ world = [tags |-> world.tags, policy |-> world.policy, changes |-> world.changes,
                    sweeps |-> world.sweeps, cache |-> world.cache]
        /\ world.policy \in {None, OrgKeys}
        /\ world.cache = [op \in Tags!Operation |-> world.cache[op]]
        /\ \A op \in Tags!Operation : world.cache[op] = None
    BY <2>1 DEF Tags!Init
  <2>3. Tags!TagAnswersHold
    BY <2>1 DEF Tags!Init, Tags!NoAnswer, Tags!TagAnswersHold
  <2> QED
    BY <2>2, <2>3 DEF TagsInv
<1>2. TagsInv /\ [Next]_vars => TagsInv'
  <2> SUFFICES ASSUME TagsInv, [Next]_vars, tool' = "tags" PROVE TagsInv'
    BY DEF TagsInv
  <2>1. CASE UNCHANGED vars
    BY <2>1 DEF vars, TagsInv, Tags!TagAnswersHold, Tags!Asked, Tags!Breaks, Tags!Matching, Tags!Wanted
  <2>2. CASE Next
    <3>1. tool = "tags" /\ Tags!Next
      BY <2>2 DEF Next
    <3>2. CASE \E r \in Resource, k \in Key, value \in Tags!Value : Tags!ChangeTag(r, k, value)
      BY <3>1, <3>2, TagsChange
    <3>3. CASE \E op \in Tags!Operation : Tags!Collect(op)
      BY <3>1, <3>3, TagsCollect
    <3>4. CASE \E op \in Tags!Operation, q \in Tags!Request : Tags!Call(op, q)
      BY <3>1, <3>4, TagsCall
    <3>5. CASE \E q \in Tags!Request, max \in {1, 2} : Tags!Guide(q, max)
      <4>1. PICK q \in Tags!Request, max \in {1, 2} : Tags!Guide(q, max)
        BY <3>5
      <4>2. Proper(q) /\ world' = world
        BY <4>1, RequestsProper DEF Tags!Guide
      <4>3. Tags!TagAnswersHold'
        BY <3>1, <4>1, <4>2, LinksHold DEF TagsInv
      <4> QED
        BY <3>1, <4>2, <4>3 DEF TagsInv
    <3> QED
      BY <3>1, <3>2, <3>3, <3>4, <3>5 DEF Tags!Next
  <2> QED
    BY <2>1, <2>2
<1>3. TagsInv => TagAnswersHold
  BY DEF TagsInv, TagAnswersHold
<1> QED
  BY <1>1, <1>2, <1>3, PTL DEF Spec

-----------------------------------------------------------------------------
(* Finite sets *)

\* Induction over the subsets of a finite set.
LEMMA SubsetInduction ==
  ASSUME NEW S, IsFiniteSet(S), NEW G,
         \A T \in SUBSET S : (\A U \in SUBSET T : U # T => U \in G) => T \in G
  PROVE  SUBSET S \subseteq G
<1> DEFINE H == {n \in Nat : \A T \in SUBSET S : Cardinality(T) < n => T \in G}
<1>1. \A T \in SUBSET S : IsFiniteSet(T) /\ Cardinality(T) \in Nat
  BY FS_Subset, FS_CardinalityType
<1>2. 0 \in H
  BY <1>1
<1>3. ASSUME NEW n \in Nat, n \in H PROVE n + 1 \in H
  <2>1. ASSUME NEW T \in SUBSET S, Cardinality(T) < n + 1 PROVE T \in G
    <3>1. ASSUME NEW U \in SUBSET T, U # T PROVE U \in G
      <4>1. Cardinality(U) < Cardinality(T)
        BY <1>1, <3>1, FS_Subset
      <4> QED
        BY <1>1, <1>3, <2>1, <4>1
    <3> QED
      BY <3>1
  <2> QED
    BY <2>1
<1>4. Nat \subseteq H
  <2> HIDE DEF H
  <2> QED
    BY <1>2, <1>3, InductionSet
<1>5. ASSUME NEW T \in SUBSET S PROVE T \in G
  <2>1. Cardinality(T) + 1 \in H
    BY <1>1, <1>4
  <2> QED
    BY <1>1, <2>1
<1> QED
  BY <1>5

\* Something of a finite set is greatest.
LEMMA GreatestOf ==
  ASSUME NEW S, IsFiniteSet(S), S # {}, NEW f, \A x \in S : f[x] \in Int
  PROVE  \E m \in S : \A x \in S : f[x] <= f[m]
<1> DEFINE G == {T \in SUBSET S : T = {} \/ \E m \in T : \A x \in T : f[x] <= f[m]}
<1>1. ASSUME NEW T \in SUBSET S, \A U \in SUBSET T : U # T => U \in G PROVE T \in G
  <2>1. CASE T = {}
    BY <2>1
  <2>2. CASE T # {}
    <3>1. PICK y \in T : TRUE
      BY <2>2
    <3>2. T \ {y} \in G
      BY <1>1, <3>1
    <3>3. CASE T \ {y} = {}
      <4>1. \A x \in T : x = y
        BY <3>3
      <4>2. \A x \in T : f[x] <= f[y]
        BY <4>1
      <4> QED
        BY <3>1, <4>2
    <3>4. CASE \E m \in T \ {y} : \A x \in T \ {y} : f[x] <= f[m]
      <4>1. PICK m \in T \ {y} : \A x \in T \ {y} : f[x] <= f[m]
        BY <3>4
      <4>2. f[m] \in Int /\ f[y] \in Int /\ \A x \in T : f[x] \in Int
        OBVIOUS
      <4>3. CASE f[y] <= f[m]
        BY <4>1, <4>3
      <4>4. CASE f[m] <= f[y]
        <5>1. \A x \in T : f[x] <= f[y]
          BY <4>1, <4>2, <4>4
        <5> QED
          BY <3>1, <5>1
      <4> QED
        BY <4>2, <4>3, <4>4
    <3> QED
      BY <3>2, <3>3, <3>4
  <2> QED
    BY <2>1, <2>2
<1>2. SUBSET S \subseteq G
  <2> HIDE DEF G
  <2> QED
    BY <1>1, SubsetInduction
<1> QED
  BY <1>2

-----------------------------------------------------------------------------
(* Sums of what purchases save *)

\* The value of one set, given those of its subsets: what MapThenSumSet recurs on.
First(s) == CHOOSE x \in s : TRUE
SumStep(f, s) == IF s = {} THEN 0 ELSE Commitments!Saved(First(s)) + f[s \ {First(s)}]
Sums(f, S) == f = [s \in SUBSET S |-> SumStep(f, s)]

LEMMA ValueOfSums ==
  ASSUME NEW S, \E f : Sums(f, S)
  PROVE  \E f : Sums(f, S) /\ Commitments!Value(S) = f[S]
<1> DEFINE g == CHOOSE f : Sums(f, S)
<1>1. Sums(g, S)
  OBVIOUS
<1>2. Commitments!Value(S) = g[S]
  BY DEF Sums, SumStep, First, Commitments!Value, Commitments!MapThenSumSet,
         Commitments!MapThenFoldSet
<1> QED
  BY <1>1, <1>2

\* Two tables of sums agree where both are defined.
LEMMA SumsAgree ==
  ASSUME NEW S, IsFiniteSet(S), NEW f, Sums(f, S), NEW R, NEW g, Sums(g, R), S \subseteq R
  PROVE  \A s \in SUBSET S : f[s] = g[s]
<1> DEFINE G == {s \in SUBSET S : f[s] = g[s]}
<1>1. ASSUME NEW s \in SUBSET S, \A u \in SUBSET s : u # s => u \in G PROVE s \in G
  <2>1. f[s] = SumStep(f, s) /\ g[s] = SumStep(g, s)
    BY DEF Sums
  <2>2. CASE s = {}
    BY <2>1, <2>2 DEF SumStep
  <2>3. CASE s # {}
    <3>1. First(s) \in s
      BY <2>3 DEF First
    <3>2. s \ {First(s)} \in G
      BY <1>1, <3>1
    <3> QED
      BY <2>1, <3>2 DEF SumStep
  <2> QED
    BY <2>2, <2>3
<1>2. SUBSET S \subseteq G
  <2> HIDE DEF G
  <2> QED
    BY <1>1, SubsetInduction
<1> QED
  BY <1>2

\* Every finite set has a table of sums.
LEMMA SumsExist ==
  ASSUME NEW S, IsFiniteSet(S)
  PROVE  \E f : Sums(f, S)
<1> DEFINE G == {T \in SUBSET S : \E f : Sums(f, T)}
<1>1. ASSUME NEW T \in SUBSET S, \A U \in SUBSET T : U # T => U \in G PROVE T \in G
  <2> DEFINE f == [s \in SUBSET T |->
                     IF s = {} THEN 0
                     ELSE IF s = T THEN Commitments!Saved(First(T)) + Commitments!Value(T \ {First(T)})
                     ELSE Commitments!Value(s)]
  <2>1. ASSUME NEW s \in SUBSET T, s # T
        PROVE  /\ IsFiniteSet(s)
               /\ \E g : Sums(g, s) /\ Commitments!Value(s) = g[s]
    BY <1>1, <2>1, ValueOfSums, FS_Subset
  <2>2. ASSUME NEW s \in SUBSET T, s # {} PROVE f[s] = SumStep(f, s)
    <3>1. First(s) \in s /\ s \ {First(s)} \in SUBSET T /\ s \ {First(s)} # T
      BY <2>2 DEF First
    <3> DEFINE r == s \ {First(s)}
    <3>2. PICK h : Sums(h, r) /\ Commitments!Value(r) = h[r]
      BY <2>1, <3>1
    <3>3. f[r] = Commitments!Value(r)
      <4>1. CASE r = {}
        <5>1. h[{}] = 0
          BY <3>2, <4>1 DEF Sums, SumStep
        <5> QED
          BY <3>2, <4>1, <5>1
      <4>2. CASE r # {}
        BY <3>1, <4>2
      <4> QED
        BY <4>1, <4>2
    <3>4. CASE s = T
      <4>1. f[s] = Commitments!Saved(First(s)) + Commitments!Value(r)
        BY <2>2, <3>4
      <4> HIDE DEF f
      <4> QED
        BY <2>2, <3>3, <4>1 DEF SumStep
    <3>5. CASE s # T
      <4>1. PICK g : Sums(g, s) /\ Commitments!Value(s) = g[s]
        BY <2>1, <3>5
      <4>2. g[s] = Commitments!Saved(First(s)) + g[r]
        BY <2>2, <4>1 DEF Sums, SumStep
      <4>3. g[r] = h[r]
        BY <2>1, <3>1, <3>2, <4>1, SumsAgree
      <4>4. f[s] = Commitments!Value(s)
        BY <2>2, <3>5
      <4> HIDE DEF f
      <4> QED
        BY <2>2, <3>2, <3>3, <4>1, <4>2, <4>3, <4>4 DEF SumStep
    <3> QED
      BY <3>4, <3>5
  <2>3. f[{}] = SumStep(f, {})
    BY DEF SumStep
  <2>4. Sums(f, T)
    <3>1. f = [s \in SUBSET T |-> f[s]]
      OBVIOUS
    <3> HIDE DEF f
    <3> QED
      BY <2>2, <2>3, <3>1 DEF Sums
  <2> QED
    BY <2>4
<1>2. SUBSET S \subseteq G
  <2> HIDE DEF G
  <2> QED
    BY <1>1, SubsetInduction
<1> QED
  BY <1>2

\* What is worth summing.
Worth == {q \in Commitments!Permutation : Commitments!PaysBack(Query[q].line)}

\* A sum takes its elements in any order.
LEMMA ValueAdds ==
  ASSUME NEW S, IsFiniteSet(S), \A x \in S : Commitments!Saved(x) \in Int
  PROVE  /\ Commitments!Value(S) \in Int /\ Commitments!Value({}) = 0
         /\ \A x \in S : Commitments!Value(S) = Commitments!Saved(x) + Commitments!Value(S \ {x})
<1> DEFINE V(s) == Commitments!Value(s)
           W(x) == Commitments!Saved(x)
           G == {s \in SUBSET S : V(s) \in Int /\ \A x \in s : V(s) = W(x) + V(s \ {x})}
<1>1. ASSUME NEW s \in SUBSET S, s # {} PROVE V(s) = W(First(s)) + V(s \ {First(s)}) /\ First(s) \in s
  <2>1. First(s) \in s /\ IsFiniteSet(s) /\ IsFiniteSet(s \ {First(s)})
    BY <1>1, FS_Subset DEF First
  <2>2. PICK f : Sums(f, s) /\ V(s) = f[s]
    BY <2>1, SumsExist, ValueOfSums
  <2>3. PICK g : Sums(g, s \ {First(s)}) /\ V(s \ {First(s)}) = g[s \ {First(s)}]
    BY <2>1, SumsExist, ValueOfSums
  <2>4. g[s \ {First(s)}] = f[s \ {First(s)}]
    BY <2>1, <2>2, <2>3, SumsAgree
  <2>5. f[s] = W(First(s)) + f[s \ {First(s)}]
    BY <1>1, <2>2 DEF Sums, SumStep
  <2> QED
    BY <2>1, <2>2, <2>3, <2>4, <2>5
<1>2. V({}) = 0
  <2>1. PICK f : Sums(f, {}) /\ V({}) = f[{}]
    BY SumsExist, ValueOfSums, FS_EmptySet
  <2> QED
    BY <2>1 DEF Sums, SumStep
<1> HIDE DEF V
<1>3. ASSUME NEW s \in SUBSET S, \A u \in SUBSET s : u # s => u \in G PROVE s \in G
  <2>1. CASE s = {}
    BY <1>2, <2>1
  <2>2. CASE s # {}
    <3> DEFINE y == First(s)
    <3>1. V(s) = W(y) + V(s \ {y}) /\ y \in s
      BY <1>1, <2>2
    <3> HIDE DEF y, W
    <3>2. s \ {y} \in G
      BY <1>3, <3>1
    <3>3. W(y) \in Int
      BY <3>1 DEF W
    <3>4. V(s) \in Int
      BY <3>1, <3>2, <3>3
    <3>5. ASSUME NEW x \in s PROVE V(s) = W(x) + V(s \ {x})
      <4>1. CASE x = y
        BY <3>1, <4>1
      <4>2. CASE x # y
        <5>1. s \ {x} \in G
          BY <1>3, <3>5
        <5>2. V(s \ {y}) = W(x) + V((s \ {y}) \ {x})
          BY <3>2, <4>2
        <5>3. V(s \ {x}) = W(y) + V((s \ {x}) \ {y})
          BY <3>1, <4>2, <5>1
        <5>4. (s \ {x}) \ {y} = (s \ {y}) \ {x}
          OBVIOUS
        <5>5. (s \ {x}) \ {y} \in G
          BY <1>3, <3>5
        <5>6. V((s \ {x}) \ {y}) \in Int /\ W(x) \in Int
          BY <3>5, <5>5 DEF W
        <5>7. \A a, b, c \in Int : a + (b + c) = b + (a + c)
          OBVIOUS
        <5>8. V(s) = W(y) + (W(x) + V((s \ {x}) \ {y}))
          BY <3>1, <5>2, <5>4
        <5>9. V(s) = W(x) + (W(y) + V((s \ {x}) \ {y}))
          BY <3>3, <5>6, <5>7, <5>8
        <5> QED
          BY <5>3, <5>9
      <4> QED
        BY <4>1, <4>2
    <3> QED
      BY <3>4, <3>5
  <2> QED
    BY <2>1, <2>2
<1>4. SUBSET S \subseteq G
  <2> HIDE DEF G
  <2> QED
    BY <1>3, SubsetInduction
<1>5. S \in G
  BY <1>4
<1> QED
  BY <1>2, <1>5 DEF V, W

LEMMA ValueSplits ==
  ASSUME NEW A, NEW B, IsFiniteSet(A), IsFiniteSet(B), A \cap B = {},
         \A x \in A \cup B : Commitments!Saved(x) \in Int
  PROVE  Commitments!Value(A \cup B) = Commitments!Value(A) + Commitments!Value(B)
<1> DEFINE V(s) == Commitments!Value(s)
           G == {s \in SUBSET B : V(A \cup s) = V(A) + V(s)}
<1>1. V(A) \in Int /\ V({}) = 0
  BY ValueAdds
<1>2. ASSUME NEW s \in SUBSET B, \A u \in SUBSET s : u # s => u \in G PROVE s \in G
  <2>1. CASE s = {}
    <3>1. A \cup s = A
      BY <2>1
    <3> HIDE DEF V
    <3> QED
      BY <1>1, <2>1, <3>1
  <2>2. CASE s # {}
    <3>1. PICK x \in s : TRUE
      BY <2>2
    <3>2. s \ {x} \in G
      BY <1>2, <3>1
    <3>3. IsFiniteSet(s) /\ IsFiniteSet(A \cup s) /\ IsFiniteSet(s \ {x})
      BY FS_Subset, FS_Union
    <3>4. V(s) = Commitments!Saved(x) + V(s \ {x}) /\ V(s \ {x}) \in Int /\ Commitments!Saved(x) \in Int
      BY <3>1, <3>3, ValueAdds
    <3>5. V(A \cup s) = Commitments!Saved(x) + V((A \cup s) \ {x})
      BY <3>1, <3>3, ValueAdds
    <3>6. (A \cup s) \ {x} = A \cup (s \ {x})
      BY <3>1
    <3>7. V(A \cup s) = Commitments!Saved(x) + V(A \cup (s \ {x}))
      BY <3>5, <3>6
    <3>8. V(A \cup (s \ {x})) = V(A) + V(s \ {x})
      BY <3>2
    <3> HIDE DEF V
    <3>9. V(A \cup s) = V(A) + V(s)
      BY <1>1, <3>4, <3>7, <3>8
    <3> QED
      BY <3>9
  <2> QED
    BY <2>1, <2>2
<1>3. SUBSET B \subseteq G
  <2> HIDE DEF G
  <2> QED
    BY <1>2, SubsetInduction
<1> QED
  BY <1>3

\* What does not lose money comes to no loss.
LEMMA ValueGains ==
  ASSUME NEW S, IsFiniteSet(S), \A x \in S : Commitments!Saved(x) \in Nat
  PROVE  Commitments!Value(S) \in Nat
<1> DEFINE V(s) == Commitments!Value(s)
           G == {s \in SUBSET S : V(s) \in Nat}
<1>1. ASSUME NEW s \in SUBSET S, \A u \in SUBSET s : u # s => u \in G PROVE s \in G
  <2>1. IsFiniteSet(s) /\ \A x \in s : Commitments!Saved(x) \in Int
    BY FS_Subset
  <2>2. CASE s = {}
    <3>1. V({}) = 0
      BY <2>1, <2>2, ValueAdds
    <3> HIDE DEF V
    <3> QED
      BY <2>2, <3>1
  <2>3. CASE s # {}
    <3>1. PICK x \in s : TRUE
      BY <2>3
    <3>2. V(s) = Commitments!Saved(x) + V(s \ {x})
      BY <2>1, <3>1, ValueAdds
    <3>3. V(s \ {x}) \in Nat /\ Commitments!Saved(x) \in Nat
      BY <1>1, <3>1
    <3> HIDE DEF V
    <3> QED
      BY <3>2, <3>3
  <2> QED
    BY <2>2, <2>3
<1>2. SUBSET S \subseteq G
  <2> HIDE DEF G
  <2> QED
    BY <1>1, SubsetInduction
<1> QED
  BY <1>2

LEMMA ValueGrows ==
  ASSUME NEW A, NEW B, IsFiniteSet(B), A \subseteq B,
         \A x \in B : Commitments!Saved(x) \in Int,
         \A x \in B \ A : Commitments!Saved(x) >= 0
  PROVE  Commitments!Value(A) <= Commitments!Value(B)
<1>1. IsFiniteSet(A) /\ IsFiniteSet(B \ A) /\ A \cup (B \ A) = B
  BY FS_Subset
<1>2. Commitments!Value(A) \in Int /\ Commitments!Value(B \ A) \in Nat
  <2>1. \A x \in B \ A : Commitments!Saved(x) \in Nat
    OBVIOUS
  <2> QED
    BY <1>1, <2>1, ValueAdds, ValueGains
<1>3. Commitments!Value(B) = Commitments!Value(A) + Commitments!Value(B \ A)
  BY <1>1, ValueSplits
<1> QED
  BY <1>2, <1>3

\* Each of A has a counterpart of its own that saves as much, and what has none
\* loses nothing.
LEMMA ValueReplaced ==
  ASSUME NEW A, IsFiniteSet(A), NEW m, NEW B, IsFiniteSet(B),
         \A x \in A : /\ m[x] \in B /\ Commitments!Saved(x) \in Int
                      /\ Commitments!Saved(x) <= Commitments!Saved(m[x]),
         \A x, y \in A : m[x] = m[y] => x = y,
         \A x \in B : Commitments!Saved(x) \in Int,
         \A z \in B : (\A x \in A : m[x] # z) => Commitments!Saved(z) >= 0
  PROVE  Commitments!Value(A) <= Commitments!Value(B)
<1> DEFINE V(s) == Commitments!Value(s)
           M(s) == {m[x] : x \in s}
           G == {s \in SUBSET A : V(s) <= V(M(s))}
<1>1. \A s \in SUBSET A : M(s) \subseteq B /\ IsFiniteSet(M(s)) /\ IsFiniteSet(s)
  <2>1. \A s \in SUBSET A : M(s) \subseteq B
    OBVIOUS
  <2> HIDE DEF M
  <2> QED
    BY <2>1, FS_Subset
<1>2. ASSUME NEW s \in SUBSET A, \A u \in SUBSET s : u # s => u \in G PROVE s \in G
  <2>1. CASE s = {}
    <3>1. M(s) = {} /\ V({}) = 0
      BY <2>1, ValueAdds
    <3> HIDE DEF V, M
    <3> QED
      BY <2>1, <3>1
  <2>2. CASE s # {}
    <3>1. PICK x \in s : TRUE
      BY <2>2
    <3>2. s \ {x} \in G
      BY <1>2, <3>1
    <3>3. M(s) \ {m[x]} = M(s \ {x}) /\ m[x] \in M(s)
      OBVIOUS
    <3> HIDE DEF M
    <3>4. V(s) = Commitments!Saved(x) + V(s \ {x}) /\ V(s \ {x}) \in Int
      BY <1>1, <3>1, ValueAdds
    <3>5. V(M(s)) = Commitments!Saved(m[x]) + V(M(s \ {x})) /\ V(M(s \ {x})) \in Int
      <4>1. /\ IsFiniteSet(M(s)) /\ IsFiniteSet(M(s \ {x}))
            /\ \A z \in M(s) : Commitments!Saved(z) \in Int
            /\ \A z \in M(s \ {x}) : Commitments!Saved(z) \in Int
        BY <1>1
      <4>2. V(M(s)) = Commitments!Saved(m[x]) + V(M(s) \ {m[x]})
        BY <3>3, <4>1, ValueAdds
      <4>3. V(M(s \ {x})) \in Int
        BY <4>1, ValueAdds
      <4> QED
        BY <3>3, <4>2, <4>3
    <3>6. /\ Commitments!Saved(x) \in Int /\ Commitments!Saved(m[x]) \in Int
          /\ Commitments!Saved(x) <= Commitments!Saved(m[x])
      OBVIOUS
    <3> HIDE DEF V
    <3> QED
      BY <3>2, <3>4, <3>5, <3>6
  <2> QED
    BY <2>1, <2>2
<1>3. SUBSET A \subseteq G
  <2> HIDE DEF G
  <2> QED
    BY <1>2, SubsetInduction
<1>4. V(A) <= V(M(A)) /\ M(A) \subseteq B
  BY <1>1, <1>3
<1>5. V(M(A)) <= V(B)
  <2>1. \A z \in B \ M(A) : Commitments!Saved(z) >= 0
    OBVIOUS
  <2> HIDE DEF M
  <2> QED
    BY <1>4, <2>1, ValueGrows
<1>6. V(A) \in Int /\ V(M(A)) \in Int /\ V(B) \in Int
  BY <1>1, ValueAdds
<1> QED
  BY <1>4, <1>5, <1>6

LEMMA ImageFinite ==
  ASSUME NEW S, IsFiniteSet(S), NEW f
  PROVE  IsFiniteSet({f[x] : x \in S})
<1> DEFINE T == {f[x] : x \in S}
           g == [x \in S |-> f[x]]
<1>1. g \in Surjection(S, T)
  BY DEF Surjection
<1> QED
  BY <1>1, FS_Surjection

\* What comes pool by pool to at least as much comes to at least as much.
OfPool(A, pool) == {q \in A : Query[q].pool = pool}

LEMMA ValueByPool ==
  ASSUME NEW A \in SUBSET Commitments!Permutation, NEW B \in SUBSET Commitments!Permutation,
         \A q \in A \cup B : Commitments!Saved(q) \in Int,
         \A pool \in Commitments!Pool :
            Commitments!Value(OfPool(A, pool)) <= Commitments!Value(OfPool(B, pool))
  PROVE  Commitments!Value(A) <= Commitments!Value(B)
<1> DEFINE V(s) == Commitments!Value(s)
           Within(C, P) == {q \in C : Query[q].pool \in P}
           G == {P \in SUBSET Commitments!Pool : V(Within(A, P)) <= V(Within(B, P))}
<1>1. IsFiniteSet(Commitments!Pool) /\ IsFiniteSet(Commitments!Permutation)
  <2>1. IsFiniteSet(Commitments!Permutation)
    BY CommitmentConstants DEF Commitments!Permutation
  <2> DEFINE f == [q \in Commitments!Permutation |-> Query[q].pool]
  <2>2. Commitments!Pool = {f[q] : q \in Commitments!Permutation}
    BY DEF Commitments!Pool
  <2> HIDE DEF f
  <2> QED
    BY <2>1, <2>2, ImageFinite
<1>2. ASSUME NEW C \in SUBSET (A \cup B)
      PROVE  IsFiniteSet(C) /\ V(C) \in Int
  <2>1. IsFiniteSet(C)
    BY <1>1, FS_Subset
  <2> QED
    BY <2>1, ValueAdds
<1>3. ASSUME NEW C \in {A, B}, NEW P \in SUBSET Commitments!Pool, NEW p \in P
      PROVE  V(Within(C, P)) = V(Within(C, P \ {p})) + V(OfPool(C, p))
  <2>1. /\ Within(C, P) = Within(C, P \ {p}) \cup OfPool(C, p)
        /\ Within(C, P \ {p}) \cap OfPool(C, p) = {}
        /\ Within(C, P \ {p}) \subseteq A \cup B /\ OfPool(C, p) \subseteq A \cup B
    BY DEF OfPool
  <2> HIDE DEF Within
  <2>2. IsFiniteSet(Within(C, P \ {p})) /\ IsFiniteSet(OfPool(C, p))
    BY <1>2, <2>1
  <2>3. \A x \in Within(C, P \ {p}) \cup OfPool(C, p) : Commitments!Saved(x) \in Int
    BY <2>1
  <2>4. V(Within(C, P \ {p}) \cup OfPool(C, p)) = V(Within(C, P \ {p})) + V(OfPool(C, p))
    BY <2>1, <2>2, <2>3, ValueSplits
  <2> QED
    BY <2>1, <2>4
<1>4. ASSUME NEW P \in SUBSET Commitments!Pool, \A Q \in SUBSET P : Q # P => Q \in G
      PROVE  P \in G
  <2>1. CASE P = {}
    <3>1. Within(A, P) = {} /\ Within(B, P) = {} /\ V({}) \in Int
      BY <1>2, <2>1
    <3> HIDE DEF V, Within
    <3> QED
      BY <3>1
  <2>2. CASE P # {}
    <3>1. PICK p \in P : TRUE
      BY <2>2
    <3>2. V(Within(A, P \ {p})) <= V(Within(B, P \ {p}))
      BY <1>4, <3>1
    <3>3. V(OfPool(A, p)) <= V(OfPool(B, p))
      BY <3>1
    <3>4. /\ V(Within(A, P \ {p})) \in Int /\ V(Within(B, P \ {p})) \in Int
          /\ V(OfPool(A, p)) \in Int /\ V(OfPool(B, p)) \in Int
      BY <1>2 DEF OfPool
    <3>5. /\ V(Within(A, P)) = V(Within(A, P \ {p})) + V(OfPool(A, p))
          /\ V(Within(B, P)) = V(Within(B, P \ {p})) + V(OfPool(B, p))
      BY <1>3, <3>1
    <3> HIDE DEF V, Within
    <3>6. V(Within(A, P)) <= V(Within(B, P))
      BY <3>2, <3>3, <3>4, <3>5
    <3> QED
      BY <3>6
  <2> QED
    BY <2>1, <2>2
<1>5. SUBSET Commitments!Pool \subseteq G
  <2> HIDE DEF G
  <2> QED
    BY <1>1, <1>4, SubsetInduction
<1>6. Within(A, Commitments!Pool) = A /\ Within(B, Commitments!Pool) = B
  BY DEF Commitments!Pool
<1>7. V(Within(A, Commitments!Pool)) <= V(Within(B, Commitments!Pool))
  BY <1>5
<1> QED
  BY <1>6, <1>7

\* What is worth buying saves or loses a whole number.
LEMMA WorthSaves ==
  ASSUME NEW q \in Worth
  PROVE  Commitments!Saved(q) \in Int
<1> DEFINE line == Query[q].line
<1>1. /\ line.recommended \in Nat \ {0} /\ line.average \in Nat
      /\ line.floor \in Nat \cup {None} /\ line.savings \in Int
      /\ Commitments!PaysBack(line)
  BY CommitmentConstants DEF Worth, Commitments!Permutation
<1> HIDE DEF line
<1>2. Commitments!Achievable(line) \in Nat
  <2>1. None \notin Nat
    BY GatewayConstants
  <2>2. Commitments!Volatility(line) \in {"unknown", "stable", "moderate", "spiky"}
        /\ (Commitments!Volatility(line) \in {"moderate", "spiky"} => line.floor \in Nat)
    <3>1. CASE line.floor = None
      BY <3>1 DEF Commitments!Volatility
    <3>2. CASE line.floor # None
      <4>1. line.floor \in Nat
        BY <1>1, <3>2
      <4>2. 10 * line.floor >= 8 * line.average \/ 10 * line.floor < 8 * line.average
        BY <1>1, <4>1
      <4> QED
        BY <3>2, <4>1, <4>2 DEF Commitments!Volatility
    <3> QED
      BY <3>1, <3>2
  <2>3. CASE Commitments!Volatility(line) \in {"unknown", "stable"}
    BY <1>1, <2>3 DEF Commitments!Achievable
  <2>4. CASE Commitments!Volatility(line) = "moderate"
    <3>1. Commitments!Achievable(line) = Commitments!Least(line.recommended,
                line.floor + (line.recommended - line.floor) \div 2)
      BY <1>1, <2>4 DEF Commitments!Achievable
    <3>2. line.floor + (line.recommended - line.floor) \div 2 \in Nat
      BY <1>1, <2>2, <2>4
    <3> QED
      BY <1>1, <3>1, <3>2 DEF Commitments!Least
  <2>5. CASE Commitments!Volatility(line) = "spiky"
    <3>1. Commitments!Achievable(line) = Commitments!Least(line.recommended, line.floor)
      BY <1>1, <2>5 DEF Commitments!Achievable
    <3> QED
      BY <1>1, <2>2, <2>5, <3>1 DEF Commitments!Least
  <2> QED
    BY <2>2, <2>3, <2>4, <2>5
<1>3. line.savings * Commitments!Achievable(line) \in Int
  BY <1>1, <1>2
<1>4. \A m \in Int, n \in Nat \ {0} : m \div n \in Int
  OBVIOUS
<1>5. Commitments!Saved(q) = (line.savings * Commitments!Achievable(line)) \div line.recommended
  BY DEF Commitments!Saved, line
<1> QED
  BY <1>1, <1>3, <1>4, <1>5

-----------------------------------------------------------------------------
(* The purchases *)

\* Of the answers for a label, one that pays back and saves the most is kept.
LEMMA BestOfLabel ==
  ASSUME world.done \subseteq Commitments!Permutation, NEW q \in world.done, q \in Worth
  PROVE  \E p \in Commitments!Best : /\ Query[p].label = Query[q].label /\ p \in Worth
                                     /\ Commitments!Saved(q) <= Commitments!Saved(p)
<1> DEFINE T == {p \in world.done : Query[p].label = Query[q].label /\ p \in Worth}
           f == [p \in T |-> Commitments!Saved(p)]
<1>1. \A p \in T : f[p] = Commitments!Saved(p) /\ f[p] \in Int
  BY WorthSaves
<1>2. IsFiniteSet(T) /\ q \in T
  BY CommitmentConstants, FS_Subset DEF Commitments!Permutation
<1> HIDE DEF f
<1>3. PICK m \in T : \A x \in T : f[x] <= f[m]
  <2> HIDE DEF T
  <2>1. T # {}
    BY <1>2
  <2> QED
    BY <1>1, <1>2, <2>1, GreatestOf
<1> DEFINE R == {Query[p].rank : p \in {p \in T : f[p] = f[m]}}
<1>4. R \in SUBSET Nat /\ R # {}
  BY CommitmentConstants DEF Commitments!Permutation
<1>5. PICK n \in R : \A k \in R : n <= k
  <2> HIDE DEF R
  <2> QED
    BY <1>4, LeastOf
<1>6. PICK p \in T : f[p] = f[m] /\ Query[p].rank = n
  BY <1>5
<1>7. ASSUME NEW s \in world.done, Query[s].label = Query[p].label
      PROVE  ~Commitments!Stronger(s, p)
  <2>1. ~Commitments!Rejected(p)
    BY <1>6 DEF Worth, Commitments!Rejected
  <2>2. CASE Commitments!Rejected(s)
    BY <2>1, <2>2 DEF Commitments!Stronger
  <2>3. CASE ~Commitments!Rejected(s)
    <3>1. s \in T
      BY <1>6, <1>7, <2>3 DEF Worth, Commitments!Rejected
    <3>2. /\ Commitments!Saved(s) \in Int /\ Commitments!Saved(p) \in Int
          /\ Commitments!Saved(s) <= Commitments!Saved(p)
      BY <1>1, <1>3, <1>6, <3>1
    <3>3. Commitments!Saved(s) = Commitments!Saved(p) => n <= Query[s].rank
      BY <1>1, <1>5, <1>6, <3>1
    <3>4. n \in Nat /\ Query[s].rank \in Nat
      BY <1>4, <3>1, CommitmentConstants DEF Commitments!Permutation
    <3> QED
      BY <1>6, <2>1, <2>3, <3>2, <3>3, <3>4 DEF Commitments!Stronger
  <2> QED
    BY <2>2, <2>3
<1>8. p \in Commitments!Best
  BY <1>7 DEF Commitments!Best
<1>9. Commitments!Saved(q) <= Commitments!Saved(p)
  BY <1>1, <1>2, <1>3, <1>6
<1> QED
  BY <1>6, <1>8, <1>9

\* Only one is.
LEMMA OneOfLabel ==
  ASSUME world.done \subseteq Commitments!Permutation,
         NEW p \in Commitments!Best, NEW q \in Commitments!Best, p \in Worth, q \in Worth,
         Query[p].label = Query[q].label
  PROVE  p = q
<1>1. p \in world.done /\ q \in world.done
      /\ ~Commitments!Stronger(p, q) /\ ~Commitments!Stronger(q, p)
  BY DEF Commitments!Best
<1>2. ~Commitments!Rejected(p) /\ ~Commitments!Rejected(q)
  BY DEF Worth, Commitments!Rejected
<1>3. Commitments!Rejected(p) = Commitments!Rejected(q)
      /\ Commitments!Rejected(q) = Commitments!Rejected(p)
  BY <1>2 DEF Commitments!Rejected
<1>4. Commitments!Saved(p) \in Int /\ Commitments!Saved(q) \in Int
  BY WorthSaves
<1>5. Query[p].rank \in Nat /\ Query[q].rank \in Nat
  BY <1>1, CommitmentConstants DEF Commitments!Permutation
<1>6. Commitments!Saved(p) = Commitments!Saved(q)
  BY <1>1, <1>3, <1>4 DEF Commitments!Stronger
<1>7. Query[p].rank = Query[q].rank
  BY <1>1, <1>3, <1>5, <1>6 DEF Commitments!Stronger
<1> QED
  BY <1>1, <1>7, CommitmentConstants DEF Commitments!Permutation

\* The option that is bought saves the most of its pool.
LEMMA OptionChosen ==
  ASSUME world.done \subseteq Commitments!Permutation, NEW pool, Commitments!OptionsOf(pool) # {}
  PROVE  /\ Commitments!BestOption(pool) \in Commitments!OptionsOf(pool)
         /\ \A o \in Commitments!OptionsOf(pool) :
               Commitments!Value(Commitments!Within(pool, o))
                  <= Commitments!Value(Commitments!Within(pool, Commitments!BestOption(pool)))
<1> DEFINE O == Commitments!OptionsOf(pool)
           B(o) == Commitments!Within(pool, o)
           f == [o \in O |-> Commitments!Value(B(o))]
           S == {q \in Commitments!Best : Query[q].pool = pool /\ ~Commitments!Rejected(q)}
           h == [q \in S |-> Query[q].option]
<1>1. IsFiniteSet(world.done)
  BY CommitmentConstants, FS_Subset DEF Commitments!Permutation
<1>2. \A o : IsFiniteSet(B(o)) /\ B(o) \subseteq Worth
  <2>1. \A o : B(o) \subseteq world.done /\ B(o) \subseteq Worth
    BY DEF Commitments!Within, Commitments!Best, Worth, Commitments!Rejected
  <2> HIDE DEF B
  <2> QED
    BY <1>1, <2>1, FS_Subset
<1>3. IsFiniteSet(O)
  <2>1. IsFiniteSet(S)
    <3>1. S \subseteq world.done
      BY DEF Commitments!Best
    <3> HIDE DEF S
    <3> QED
      BY <1>1, <3>1, FS_Subset
  <2>2. O = {h[q] : q \in S}
    BY DEF Commitments!OptionsOf
  <2> HIDE DEF h, S
  <2> QED
    BY <2>1, <2>2, ImageFinite
<1>4. \A o : Commitments!Value(B(o)) \in Int
  <2> HIDE DEF B
  <2> QED
    BY <1>2, WorthSaves, ValueAdds
<1>5. \A o \in O : f[o] = Commitments!Value(B(o)) /\ f[o] \in Int
  <2> HIDE DEF B, O
  <2> QED
    BY <1>4
<1>6. PICK m \in O : \A o \in O : f[o] <= f[m]
  <2> HIDE DEF f, O
  <2> QED
    BY <1>3, <1>5, GreatestOf DEF O
<1>7. \A o \in O : Commitments!Value(B(m)) >= Commitments!Value(B(o))
  <2> HIDE DEF f, B
  <2> QED
    BY <1>5, <1>6
<1>8. /\ Commitments!BestOption(pool) \in O
      /\ \A p \in O : Commitments!Value(B(Commitments!BestOption(pool))) >= Commitments!Value(B(p))
  BY <1>7 DEF Commitments!BestOption
<1> QED
  BY <1>4, <1>8

\* What is bought of a pool is all of its best option.
LEMMA PurchasesOf ==
  ASSUME world.done \subseteq Commitments!Permutation
  PROVE  /\ Commitments!Purchases \subseteq Commitments!Best \cap Worth
         /\ \A pool \in Commitments!Pool : Commitments!OptionsOf(pool) # {} =>
               OfPool(Commitments!Purchases, pool)
                  = Commitments!Within(pool, Commitments!BestOption(pool))
         /\ Commitments!Compatible(Commitments!Purchases)
<1> DEFINE O(pool) == Commitments!OptionsOf(pool)
           B(pool) == Commitments!Within(pool, Commitments!BestOption(pool))
<1>1. \A q : q \in Commitments!Purchases <=>
               \E pool \in Commitments!Pool : O(pool) # {} /\ q \in B(pool)
  BY DEF Commitments!Purchases
<1>2. \A pool : \A q \in B(pool) :
        /\ q \in Commitments!Best /\ q \in Worth /\ Query[q].pool = pool
        /\ Query[q].option = Commitments!BestOption(pool)
  BY DEF Commitments!Within, Commitments!Best, Worth, Commitments!Rejected
<1> HIDE DEF B, O
<1>3. Commitments!Purchases \subseteq Commitments!Best \cap Worth
  BY <1>1, <1>2
<1>4. ASSUME NEW pool \in Commitments!Pool, O(pool) # {}
      PROVE  OfPool(Commitments!Purchases, pool) = B(pool)
  BY <1>1, <1>2, <1>4 DEF OfPool
<1>5. ASSUME NEW p \in Commitments!Purchases, NEW q \in Commitments!Purchases, p # q
      PROVE  /\ Query[p].label # Query[q].label
             /\ Query[p].pool = Query[q].pool => Query[p].option = Query[q].option
  <2>1. Query[p].label # Query[q].label
    BY <1>3, <1>5, OneOfLabel
  <2>2. \A r \in Commitments!Purchases : Query[r].option = Commitments!BestOption(Query[r].pool)
    BY <1>1, <1>2
  <2> QED
    BY <2>1, <2>2
<1>6. Commitments!Compatible(Commitments!Purchases)
  BY <1>5 DEF Commitments!Compatible
<1> QED
  BY <1>3, <1>4, <1>6 DEF B, O

\* A plan to which nothing that saves can be added.
Complete(S) ==
    \A q \in world.done \ S :
        Commitments!PaysBack(Query[q].line) /\ Commitments!Compatible(S \cup {q}) =>
            Commitments!Saved(q) >= 0

\* What is compatible with the rest of a plan and not in it loses nothing.
LEMMA NothingLeft ==
  ASSUME world.done \subseteq Commitments!Permutation,
         NEW S \in SUBSET world.done, Commitments!Compatible(S), Complete(S),
         NEW z \in world.done, z \in Worth,
         \A p \in S : Query[p].pool = Query[z].pool =>
             Query[p].label # Query[z].label /\ Query[p].option = Query[z].option
  PROVE  Commitments!Saved(z) >= 0
<1>1. \A p \in S : /\ Query[p].label # Query[z].label
                   /\ Query[p].pool = Query[z].pool => Query[p].option = Query[z].option
  <2> TAKE p \in S
  <2>1. Query[p].label = Query[z].label => Query[p].pool = Query[z].pool
    BY CommitmentConstants DEF Commitments!Permutation
  <2> QED
    BY <2>1
<1>2. z \notin S
  BY <1>1
<1>3. Commitments!Compatible(S \cup {z})
  BY <1>1 DEF Commitments!Compatible
<1> QED
  BY <1>2, <1>3 DEF Complete, Worth

\* No plan of the same answers saves more, unless it leaves out what loses money.
LEMMA PurchasesSaveMost ==
  ASSUME world.done \subseteq Commitments!Permutation,
         NEW S \in SUBSET world.done, S \subseteq Worth, Commitments!Compatible(S), Complete(S)
  PROVE  Commitments!Value(S) <= Commitments!Value(Commitments!Purchases)
<1>1. /\ Commitments!Purchases \subseteq Commitments!Best \cap Worth
      /\ Commitments!Best \subseteq world.done
      /\ IsFiniteSet(world.done)
  BY PurchasesOf, CommitmentConstants, FS_Subset
    DEF Commitments!Permutation, Commitments!Best
<1>2. \A q \in S \cup Commitments!Purchases : Commitments!Saved(q) \in Int
  BY <1>1, WorthSaves
<1>3. ASSUME NEW pool \in Commitments!Pool
      PROVE  Commitments!Value(OfPool(S, pool))
                <= Commitments!Value(OfPool(Commitments!Purchases, pool))
  <2> DEFINE A == OfPool(S, pool)
             C == OfPool(Commitments!Purchases, pool)
  <2>1. /\ A \subseteq S /\ C \subseteq Commitments!Purchases
        /\ IsFiniteSet(A) /\ IsFiniteSet(C)
    <3>1. A \subseteq S /\ C \subseteq Commitments!Purchases
          /\ A \subseteq world.done /\ C \subseteq world.done
      BY <1>1 DEF OfPool
    <3> HIDE DEF A, C
    <3> QED
      BY <1>1, <3>1, FS_Subset
  <2>2. Commitments!Value(A) \in Int /\ Commitments!Value(C) \in Int
    <3> HIDE DEF A, C
    <3> QED
      BY <1>2, <2>1, ValueAdds
  <2>3. CASE A = {}
    <3>1. Commitments!Value({}) = 0
      BY <2>1, <2>3, <1>2, ValueAdds
    <3>2. ASSUME NEW z \in C PROVE Commitments!Saved(z) \in Nat
      <4>1. z \in world.done /\ z \in Worth /\ Query[z].pool = pool
        BY <1>1, <3>2 DEF OfPool
      <4>2. \A p \in S : Query[p].pool # pool
        BY <2>3 DEF OfPool
      <4>3. Commitments!Saved(z) >= 0
        BY <4>1, <4>2, NothingLeft
      <4> QED
        BY <4>1, <4>3, WorthSaves
    <3> HIDE DEF A, C
    <3>3. Commitments!Value(C) \in Nat
      BY <2>1, <3>2, ValueGains
    <3> QED
      BY <2>2, <2>3, <3>1, <3>3 DEF A, C
  <2>4. CASE A # {}
    <3>1. PICK s \in A : TRUE
      BY <2>4
    <3> DEFINE o == Query[s].option
               Matches(q, p) == /\ p \in Commitments!Best /\ Query[p].label = Query[q].label
                                /\ p \in Worth /\ Commitments!Saved(q) <= Commitments!Saved(p)
               m == [q \in A |-> CHOOSE p : Matches(q, p)]
               B == Commitments!Within(pool, o)
    <3>2. ASSUME NEW q \in A PROVE Matches(q, m[q])
      <4>1. \E p : Matches(q, p)
        BY <2>1, BestOfLabel
      <4>2. m[q] = CHOOSE p : Matches(q, p)
        OBVIOUS
      <4> HIDE DEF Matches, m
      <4> QED
        BY <4>1, <4>2
    <3>3. \A q \in A : Query[q].pool = pool /\ Query[q].option = o
      BY <3>1 DEF OfPool, Commitments!Compatible
    <3> HIDE DEF m
    <3>4. \A q \in A : m[q] \in B
      <4> TAKE q \in A
      <4>1. Matches(q, m[q]) /\ Query[q].pool = pool /\ Query[q].option = o
        BY <3>2, <3>3
      <4>2. q \in Commitments!Permutation /\ m[q] \in Commitments!Permutation
        BY <1>1, <2>1, <4>1
      <4>3. Query[m[q]].pool = pool /\ Query[m[q]].option = o
        BY <4>1, <4>2, CommitmentConstants DEF Commitments!Permutation
      <4> QED
        BY <4>1, <4>3 DEF Commitments!Within, Worth, Commitments!Rejected
    <3>5. ASSUME NEW x \in A, NEW y \in A, m[x] = m[y] PROVE x = y
      <4>1. Query[x].label = Query[y].label
        BY <3>2, <3>5
      <4> QED
        BY <2>1, <4>1 DEF Commitments!Compatible
    <3>6. IsFiniteSet(B) /\ B \subseteq Worth
      <4>1. B \subseteq world.done /\ B \subseteq Worth
        BY <1>1 DEF Commitments!Within, Worth, Commitments!Rejected, Commitments!Best
      <4> HIDE DEF B
      <4> QED
        BY <1>1, <4>1, FS_Subset
    <3>7. o \in Commitments!OptionsOf(pool)
      <4>1. m[s] \in B
        BY <3>1, <3>4
      <4> QED
        BY <4>1 DEF Commitments!Within, Commitments!OptionsOf
    <3>8. C = Commitments!Within(pool, Commitments!BestOption(pool))
      BY <3>7, PurchasesOf
    <3>9. Commitments!Value(B) <= Commitments!Value(C)
      BY <3>7, <3>8, OptionChosen
    <3>10. \A q \in A : Commitments!Saved(q) \in Int /\ Commitments!Saved(q) <= Commitments!Saved(m[q])
      BY <1>2, <2>1, <3>2
    <3>13. ASSUME NEW z \in B, \A x \in A : m[x] # z PROVE Commitments!Saved(z) >= 0
      <4>1. /\ z \in Commitments!Best /\ z \in world.done /\ z \in Worth
            /\ Query[z].pool = pool /\ Query[z].option = o
        BY <1>1, <3>6, <3>13 DEF Commitments!Within
      <4>2. ASSUME NEW p \in S, Query[p].pool = pool
            PROVE  Query[p].label # Query[z].label /\ Query[p].option = o
        <5>1. p \in A
          BY <4>2 DEF OfPool
        <5>2. Query[m[p]].label = Query[p].label /\ m[p] \in Commitments!Best /\ m[p] \in Worth
          BY <3>2, <5>1
        <5>3. m[p] # z
          BY <3>13, <5>1
        <5> QED
          BY <3>3, <4>1, <5>1, <5>2, <5>3, OneOfLabel
      <4> HIDE DEF B, A, o
      <4> QED
        BY <4>1, <4>2, NothingLeft
    <3> HIDE DEF A, B, C
    <3>11. \A x \in B : Commitments!Saved(x) \in Int
      BY <3>6, WorthSaves
    <3>12. Commitments!Value(A) <= Commitments!Value(B) /\ Commitments!Value(B) \in Int
      BY <2>1, <3>4, <3>5, <3>6, <3>10, <3>11, <3>13, ValueReplaced, ValueAdds
    <3> QED
      BY <2>2, <3>9, <3>12 DEF A, C
  <2> QED
    BY <2>3, <2>4
<1> QED
  BY <1>1, <1>2, <1>3, ValueByPool

\* The plan is made of the answers there were at the deadline, and of all of them.
PlanInv ==
    tool = "commitments" =>
        /\ world = [stage |-> world.stage, done |-> world.done, failed |-> world.failed,
                    late |-> world.late, plan |-> world.plan, payBack |-> world.payBack]
        /\ world.done \subseteq Commitments!Permutation
        /\ world.stage \in {"sweep", "plan"}
        /\ world.stage = "plan" =>
              /\ world.plan = Commitments!Purchases
              /\ world.payBack = {q \in Commitments!Best : ~Commitments!Rejected(q)}
        /\ Commitments!PlanIsSound

LEMMA PurchasesStay ==
  ASSUME world'.done = world.done
  PROVE  Commitments!Best' = Commitments!Best /\ Commitments!Purchases' = Commitments!Purchases
<1>1. Commitments!Best' = Commitments!Best
  BY DEF Commitments!Best
<1>2. Commitments!Purchases' = Commitments!Purchases
  BY <1>1 DEF Commitments!Purchases, Commitments!Within, Commitments!BestOption,
              Commitments!OptionsOf
<1> QED
  BY <1>1, <1>2

\* What is bought, in an analysis or alone.
LEMMA PlanBought ==
  ASSUME PlanInv, tool = "commitments", world.stage = "plan", world.done # {},
         world' = world, answer'.tool \in {"analysis", "size"}, answer'.bought = world.plan
  PROVE  /\ world'.done # {} /\ Commitments!Compatible(answer'.bought)
         /\ \A q \in answer'.bought :
              LET line == Query[q].line IN
              /\ Commitments!PaysBack(line)
              /\ line.floor # None /\ 2 * line.floor < line.average =>
                    Commitments!Achievable(line) <= line.floor
<1>1. world.plan = Commitments!Purchases /\ world.done \subseteq Commitments!Permutation
  BY DEF PlanInv
<1>2. Commitments!Compatible(answer'.bought) /\ answer'.bought \subseteq Worth
  BY <1>1, PurchasesOf
<1>3. ASSUME NEW q \in answer'.bought, Query[q].line.floor # None,
             2 * Query[q].line.floor < Query[q].line.average
      PROVE  Commitments!Achievable(Query[q].line) <= Query[q].line.floor
  <2> DEFINE line == Query[q].line
  <2>1. /\ line.recommended \in Nat /\ line.average \in Nat /\ line.floor \in Nat
        /\ Commitments!PaysBack(line)
    BY <1>2, <1>3, CommitmentConstants DEF Worth, Commitments!Permutation
  <2>2. line.floor # None /\ 2 * line.floor < line.average
    BY <1>3
  <2> HIDE DEF line
  <2>3. Commitments!Volatility(line) = "spiky"
    <3>1. ~(10 * line.floor >= 8 * line.average) /\ 10 * line.floor < 8 * line.average
          /\ ~(2 * line.floor >= line.average)
      BY <2>1, <2>2
    <3> QED
      BY <2>2, <3>1 DEF Commitments!Volatility
  <2>4. Commitments!Achievable(line) = Commitments!Least(line.recommended, line.floor)
    BY <2>1, <2>3 DEF Commitments!Achievable
  <2>5. Commitments!Achievable(line) <= line.floor
    BY <2>1, <2>4 DEF Commitments!Least
  <2> QED
    BY <2>5 DEF line
<1> QED
  BY <1>2, <1>3 DEF Worth

LEMMA PlanSized ==
  ASSUME PlanInv, tool = "commitments", Commitments!Size
  PROVE  Commitments!PlanIsSound'
<1>1. /\ answer' = [tool |-> "size", bought |-> world.plan, total |-> Commitments!Value(world.plan)]
      /\ world' = world /\ world.stage = "plan" /\ world.done # {}
  BY DEF Commitments!Size
<1>2. answer'.tool = "size" /\ answer'.bought = world.plan
      /\ answer'.total = Commitments!Value(world.plan)
  BY <1>1
<1>3. world.plan = Commitments!Purchases /\ world.done \subseteq Commitments!Permutation
  BY <1>1 DEF PlanInv
<1>4. ASSUME NEW S \in SUBSET world.done, \A q \in S : Commitments!PaysBack(Query[q].line),
             Commitments!Compatible(S), Complete(S)
      PROVE  Commitments!Value(S) <= answer'.total
  <2>1. S \subseteq Worth
    BY <1>3, <1>4 DEF Worth
  <2> QED
    BY <1>2, <1>3, <1>4, <2>1, PurchasesSaveMost
<1>5. /\ world'.done # {} /\ Commitments!Compatible(answer'.bought)
      /\ \A q \in answer'.bought :
            LET line == Query[q].line IN
            /\ Commitments!PaysBack(line)
            /\ line.floor # None /\ 2 * line.floor < line.average =>
                  Commitments!Achievable(line) <= line.floor
  BY <1>1, <1>2, PlanBought
<1>6. \A S \in SUBSET world'.done :
        /\ Commitments!Compatible(S)
        /\ \A q \in S : Commitments!PaysBack(Query[q].line)
        /\ \A q \in world'.done \ S :
              Commitments!PaysBack(Query[q].line) /\ Commitments!Compatible(S \cup {q}) =>
                  Commitments!Saved(q) >= 0
        => Commitments!Value(S) <= answer'.total
  BY <1>1, <1>4 DEF Complete
<1> QED
  BY <1>2, <1>5, <1>6 DEF Commitments!PlanIsSound

\* Of every source something is told of its utilization.
LEMMA UtilizationTold ==
  ASSUME NEW sources, NEW outcome \in Commitments!Outcomes(sources), NEW s \in DOMAIN outcome
  PROVE  outcome[s].utilization \in Commitments!UtilizationTold
<1>0. PICK S \in SUBSET sources : \E odd \in [S -> Commitments!Outcome] :
        outcome = [x \in sources |-> IF x \in DOMAIN odd THEN odd[x] ELSE Commitments!Healthy]
  BY DEF Commitments!Outcomes
<1>1. PICK odd \in [S -> Commitments!Outcome] :
        outcome = [x \in sources |-> IF x \in DOMAIN odd THEN odd[x] ELSE Commitments!Healthy]
  BY <1>0
<1>2. outcome[s] = IF s \in S THEN odd[s] ELSE Commitments!Healthy
  BY <1>1
<1>3. Commitments!Healthy.utilization \in Commitments!UtilizationTold
  BY DEF Commitments!Healthy, Commitments!UtilizationTold
<1>4. \A told \in Commitments!Outcome : told.utilization \in Commitments!UtilizationTold
  BY DEF Commitments!Outcome
<1> QED
  BY <1>1, <1>2, <1>3, <1>4

\* The verdict follows from a measurement.
LEMMA VerdictMeasured ==
  ASSUME NEW i, NEW held, NEW outcome,
         \A s \in DOMAIN outcome : outcome[s].utilization \in Commitments!UtilizationTold,
         Commitments!Verdict(i, held, outcome) \in {"renew", "renew-smaller", "let-lapse"}
  PROVE  /\ Item[i].service \in DOMAIN outcome
         /\ outcome[Item[i].service].utilization \notin {"blank", "none held", "failed"}
         /\ Commitments!Verdict(i, held, outcome) = "renew" =>
               /\ outcome[Item[i].service].utilization = "healthy"
               /\ ~\E j \in held : Item[j].queued /\ Item[j].key = Item[i].key
<1> DEFINE u == outcome[Item[i].service].utilization
           queued == \E j \in held : Item[j].queued /\ Item[j].key = Item[i].key
<1>1. ~queued
  BY DEF Commitments!Verdict
<1>2. Commitments!Verdict(i, held, outcome) =
        IF Item[i].service \in DOMAIN outcome THEN Commitments!VerdictBy(u) ELSE "review"
  BY <1>1 DEF Commitments!Verdict
<1>3. Item[i].service \in DOMAIN outcome /\ Commitments!Verdict(i, held, outcome) = Commitments!VerdictBy(u)
  BY <1>2
<1>4. u \in Commitments!UtilizationTold
  BY <1>3
<1> HIDE DEF u
<1>5. /\ u \in {"blank", "none held", "failed"} => Commitments!VerdictBy(u) = "review"
      /\ u \in {"low", "idle"} => Commitments!VerdictBy(u) = "let-lapse"
      /\ u = "partial" => Commitments!VerdictBy(u) = "renew-smaller"
  BY DEF Commitments!VerdictBy
<1>6. u \notin {"blank", "none held", "failed"}
  BY <1>3, <1>5
<1>7. Commitments!Verdict(i, held, outcome) = "renew" => u = "healthy"
  BY <1>3, <1>4, <1>5, <1>6 DEF Commitments!UtilizationTold
<1> QED
  BY <1>1, <1>3, <1>6, <1>7 DEF u

LEMMA PlanAnalysed ==
  ASSUME PlanInv, tool = "commitments", NEW regions,
         NEW outcome \in Commitments!Outcomes(Commitments!Sources(Commitments!Inventory(regions))),
         Commitments!Analyse(regions, outcome)
  PROVE  Commitments!PlanIsSound'
<1> DEFINE held == Commitments!Inventory(regions)
<1>1. world' = world /\ world.stage = "plan"
  BY DEF Commitments!Analyse
<1>2. CASE world.done = {} /\ Commitments!Permutation # {}
  <2>1. answer' = [tool |-> "fatal"]
    BY <1>2 DEF Commitments!Analyse
  <2>2. answer'.tool = "fatal"
    BY <2>1
  <2> QED
    BY <2>2 DEF Commitments!PlanIsSound
<1>3. CASE ~(world.done = {} /\ Commitments!Permutation # {})
  <2>1. answer' = [tool |-> "analysis", bought |-> world.plan,
                   safe |-> Commitments!Safe(outcome), outcome |-> outcome, inventory |-> held,
                   missing |-> world.failed \cup world.late,
                   expiring |-> Commitments!Expiring(held, outcome)]
    BY <1>3 DEF Commitments!Analyse
  <2>2. /\ answer'.tool = "analysis" /\ answer'.bought = world.plan
        /\ answer'.safe = Commitments!Safe(outcome) /\ answer'.outcome = outcome
        /\ answer'.inventory = held /\ answer'.expiring = Commitments!Expiring(held, outcome)
    BY <2>1
  <2>3. world.done # {}
    BY <1>3, CommitmentConstants DEF Commitments!Permutation
  <2>4. /\ world.plan = Commitments!Purchases /\ world.done \subseteq Commitments!Permutation
        /\ world.payBack = {q \in Commitments!Best : ~Commitments!Rejected(q)}
    BY <1>1 DEF PlanInv
  <2>5. world.plan \subseteq world.payBack
    BY <2>4, PurchasesOf DEF Worth, Commitments!Rejected
  <2>6. ASSUME Commitments!Safe(outcome) = "yes"
        PROVE  /\ \A q \in world.plan : Query[q].service \notin Unfilterable =>
                     Query[q].service \in DOMAIN outcome
               /\ \A s \in DOMAIN outcome :
                     /\ "failed" \notin {outcome[s].coverage, outcome[s].utilization}
                     /\ outcome[s].utilization \notin {"partial", "low"}
    <3>1. DOMAIN outcome = Commitments!Sources(held)
      BY DEF Commitments!Analyse
    <3>2. \A q \in world.plan : Query[q].service \notin Unfilterable =>
             Query[q].service \in DOMAIN outcome
      BY <2>5, <3>1 DEF Commitments!Sources
    <3>3. ~\E s \in DOMAIN outcome : Commitments!Blocked(s, outcome)
      BY <2>6 DEF Commitments!Safe
    <3>4. ~\E s \in DOMAIN outcome : Commitments!Unmeasured(s, outcome)
      BY <2>6, <3>3 DEF Commitments!Safe
    <3> QED
      BY <3>2, <3>3, <3>4 DEF Commitments!Blocked, Commitments!Unmeasured
  <2>7. ASSUME NEW i \in DOMAIN Commitments!Expiring(held, outcome)
        PROVE  LET verdict == Commitments!Expiring(held, outcome)[i] IN
               /\ verdict \in {"renew", "renew-smaller", "let-lapse"} =>
                     /\ Item[i].service \in DOMAIN outcome
                     /\ outcome[Item[i].service].utilization \notin {"blank", "none held", "failed"}
               /\ verdict = "renew" =>
                     /\ outcome[Item[i].service].utilization = "healthy"
                     /\ ~\E j \in held : Item[j].queued /\ Item[j].key = Item[i].key
    <3> HIDE DEF held
    <3>1. Commitments!Expiring(held, outcome)[i] = Commitments!Verdict(i, held, outcome)
      BY <2>7 DEF Commitments!Expiring
    <3>2. \A s \in DOMAIN outcome : outcome[s].utilization \in Commitments!UtilizationTold
      BY UtilizationTold DEF held
    <3>3. Commitments!Verdict(i, held, outcome) \in {"renew", "renew-smaller", "let-lapse"} =>
            /\ Item[i].service \in DOMAIN outcome
            /\ outcome[Item[i].service].utilization \notin {"blank", "none held", "failed"}
            /\ Commitments!Verdict(i, held, outcome) = "renew" =>
                  /\ outcome[Item[i].service].utilization = "healthy"
                  /\ ~\E j \in held : Item[j].queued /\ Item[j].key = Item[i].key
      BY <3>2, VerdictMeasured
    <3> QED
      BY <3>1, <3>3
  <2> HIDE DEF held
  <2>8. /\ world'.done # {} /\ Commitments!Compatible(answer'.bought)
        /\ \A q \in answer'.bought :
              LET line == Query[q].line IN
              /\ Commitments!PaysBack(line)
              /\ line.floor # None /\ 2 * line.floor < line.average =>
                    Commitments!Achievable(line) <= line.floor
    BY <1>1, <2>2, <2>3, PlanBought
  <2>9. answer'.safe = "yes" =>
            /\ \A q \in answer'.bought : Query[q].service \notin Unfilterable =>
                  Query[q].service \in DOMAIN answer'.outcome
            /\ \A s \in DOMAIN answer'.outcome :
                  /\ "failed" \notin {answer'.outcome[s].coverage, answer'.outcome[s].utilization}
                  /\ answer'.outcome[s].utilization \notin {"partial", "low"}
    BY <2>2, <2>6
  <2>10. \A i \in DOMAIN answer'.expiring :
            /\ answer'.expiring[i] \in {"renew", "renew-smaller", "let-lapse"} =>
                  /\ Item[i].service \in DOMAIN answer'.outcome
                  /\ answer'.outcome[Item[i].service].utilization
                        \notin {"blank", "none held", "failed"}
            /\ answer'.expiring[i] = "renew" =>
                  /\ answer'.outcome[Item[i].service].utilization = "healthy"
                  /\ ~\E j \in answer'.inventory : Item[j].queued /\ Item[j].key = Item[i].key
    BY <2>2, <2>7
  <2> QED
    BY <2>2, <2>8, <2>9, <2>10 DEF Commitments!PlanIsSound
<1> QED
  BY <1>2, <1>3

\* The purchases that are recommended commit no usage twice, pay back any upfront
\* payment and stay within the quietest hour of a spiky workload; another plan saves
\* more only by leaving out a purchase that loses money; more is called safe only
\* when everything held was asked for, no query failed and nothing measured is wasted;
\* what to do with what ends follows from its utilization, and what has a renewal
\* queued is not renewed again.
THEOREM PlansAreSound == Spec => []PlanHolds
<1>1. Init => PlanInv
  <2> SUFFICES ASSUME Init, tool = "commitments" PROVE PlanInv
    BY DEF PlanInv
  <2>1. Commitments!Init
    BY DEF Init
  <2>2. /\ world.stage = "sweep" /\ world.done = {}
        /\ world = [stage |-> world.stage, done |-> world.done, failed |-> world.failed,
                    late |-> world.late, plan |-> world.plan, payBack |-> world.payBack]
    BY <2>1 DEF Commitments!Init
  <2>3. Commitments!PlanIsSound
    BY <2>1 DEF Commitments!Init, Commitments!NoAnswer, Commitments!PlanIsSound
  <2> QED
    BY <2>2, <2>3 DEF PlanInv
<1>2. PlanInv /\ [Next]_vars => PlanInv'
  <2> SUFFICES ASSUME PlanInv, [Next]_vars, tool' = "commitments" PROVE PlanInv'
    BY DEF PlanInv
  <2>1. CASE UNCHANGED vars
    <3>1. world' = world /\ answer' = answer /\ tool = "commitments"
      BY <2>1 DEF vars
    <3>2. Commitments!PlanIsSound'
      BY <3>1 DEF PlanInv, Commitments!PlanIsSound
    <3> QED
      BY <3>1, <3>2, PurchasesStay DEF PlanInv
  <2>2. CASE Next
    <3>1. tool = "commitments" /\ Commitments!Next
      BY <2>2 DEF Next
    <3>2. /\ answer = Commitments!NoAnswer
          /\ world = [stage |-> world.stage, done |-> world.done, failed |-> world.failed,
                      late |-> world.late, plan |-> world.plan, payBack |-> world.payBack]
          /\ world.done \subseteq Commitments!Permutation
          /\ world.stage \in {"sweep", "plan"}
      BY <3>1 DEF Commitments!Next, PlanInv
    <3>3. ASSUME answer' = answer PROVE Commitments!PlanIsSound'
      <4>1. answer'.tool = "none"
        BY <3>2, <3>3 DEF Commitments!NoAnswer
      <4> QED
        BY <4>1 DEF Commitments!PlanIsSound
    <3>4. ASSUME world' = world, Commitments!PlanIsSound' PROVE PlanInv'
      BY <3>1, <3>4, PurchasesStay DEF PlanInv
    <3>5. ASSUME NEW q \in Commitments!Permutation, NEW ok \in BOOLEAN, Commitments!Finish(q, ok)
          PROVE  PlanInv'
      <4>1. /\ world.stage = "sweep" /\ answer' = answer
            /\ world' = IF ok THEN [world EXCEPT !.done = @ \cup {q}]
                        ELSE [world EXCEPT !.failed = @ \cup {q}]
        BY <3>5 DEF Commitments!Finish
      <4>2. /\ world'.stage = "sweep" /\ world'.done \subseteq world.done \cup {q}
            /\ world' = [stage |-> world'.stage, done |-> world'.done, failed |-> world'.failed,
                         late |-> world'.late, plan |-> world'.plan, payBack |-> world'.payBack]
        BY <3>2, <4>1
      <4> QED
        BY <3>2, <3>3, <4>1, <4>2 DEF PlanInv
    <3>6. ASSUME Commitments!EndSweep PROVE PlanInv'
      <4>1. /\ answer' = answer
            /\ world' = [world EXCEPT !.stage = "plan", !.late = Commitments!Running,
                               !.plan = Commitments!Purchases,
                               !.payBack = {q \in Commitments!Best : ~Commitments!Rejected(q)}]
        BY <3>6 DEF Commitments!EndSweep
      <4>2. /\ world'.stage = "plan" /\ world'.done = world.done
            /\ world'.plan = Commitments!Purchases
            /\ world'.payBack = {q \in Commitments!Best : ~Commitments!Rejected(q)}
            /\ world' = [stage |-> world'.stage, done |-> world'.done, failed |-> world'.failed,
                         late |-> world'.late, plan |-> world'.plan, payBack |-> world'.payBack]
        BY <3>2, <4>1
      <4>3. Commitments!Best' = Commitments!Best /\ Commitments!Purchases' = Commitments!Purchases
        BY <4>2, PurchasesStay
      <4> QED
        BY <3>2, <3>3, <4>1, <4>2, <4>3 DEF PlanInv
    <3>7. ASSUME Commitments!Size PROVE PlanInv'
      <4>1. world' = world
        BY <3>7 DEF Commitments!Size
      <4> QED
        BY <3>1, <3>4, <3>7, <4>1, PlanSized
    <3>8. ASSUME NEW regions,
                 NEW outcome \in Commitments!Outcomes(Commitments!Sources(Commitments!Inventory(regions))),
                 Commitments!Analyse(regions, outcome)
          PROVE  PlanInv'
      <4>1. world' = world
        BY <3>8 DEF Commitments!Analyse
      <4> QED
        BY <3>1, <3>4, <3>8, <4>1, PlanAnalysed
    <3> QED
      BY <3>1, <3>5, <3>6, <3>7, <3>8 DEF Commitments!Next
  <2> QED
    BY <2>1, <2>2
<1>3. PlanInv => PlanHolds
  BY DEF PlanInv, PlanHolds
<1> QED
  BY <1>1, <1>2, <1>3, PTL DEF Spec

-----------------------------------------------------------------------------
(* Direct Connect *)

LEMMA SameCardinality4 == \A S : Network!Cardinality(S) = Cardinality(S)
BY DEF Network!Cardinality, Cardinality

Many(T) == \E x, y \in T : x # y

LEMMA Plural ==
  ASSUME NEW T, IsFiniteSet(T)
  PROVE  /\ Cardinality(T) \in Nat
         /\ Cardinality(T) = 0 <=> T = {}
         /\ Cardinality(T) = 1 <=> \E x : T = {x}
         /\ Cardinality(T) >= 2 <=> Many(T)
         /\ Cardinality(T) > 1 <=> Many(T)
<1>1. Cardinality(T) \in Nat /\ (Cardinality(T) = 0 <=> T = {})
  BY FS_CardinalityType, FS_EmptySet
<1>2. Cardinality(T) = 1 <=> \E x : T = {x}
  BY FS_Singleton
<1>3. Many(T) <=> T # {} /\ ~\E x : T = {x}
  BY DEF Many
<1>4. Many(T) <=> Cardinality(T) # 0 /\ Cardinality(T) # 1
  BY <1>1, <1>2, <1>3
<1>5. \A n \in Nat : /\ n # 0 /\ n # 1 <=> n >= 2
                     /\ n # 0 /\ n # 1 <=> n > 1
  OBVIOUS
<1>6. (Cardinality(T) >= 2 <=> Many(T)) /\ (Cardinality(T) > 1 <=> Many(T))
  BY <1>1, <1>4, <1>5
<1> QED
  BY <1>1, <1>2, <1>6

\* Two of S at one location are on two devices.
Multi(S, l) ==
    \E c, d \in S : /\ Network!At(c) = l /\ Network!At(d) = l
                    /\ Network!Device(c) # Network!Device(d)

\* Locations and their devices, without the counting.
LEMMA Counted ==
  ASSUME NEW S, IsFiniteSet(S)
  PROVE  /\ IsFiniteSet(Network!Locations(S))
         /\ Network!Locations(S) = {} <=> S = {}
         /\ Network!Cardinality(Network!Locations(S)) \in Nat
         /\ Network!Cardinality(Network!Locations(S)) = 0 <=> S = {}
         /\ Network!Cardinality(Network!Locations(S)) = 1 <=> \E l : Network!Locations(S) = {l}
         /\ Network!Cardinality(Network!Locations(S)) > 1 <=> Many(Network!Locations(S))
<1> DEFINE L == Network!Locations(S)
<1>1. IsFiniteSet(L) /\ (L = {} <=> S = {})
  <2> DEFINE f == [c \in S |-> Network!At(c)]
  <2>1. L = {f[c] : c \in S}
    BY DEF Network!Locations
  <2>2. L = {} <=> S = {}
    BY DEF Network!Locations
  <2> HIDE DEF f, L
  <2> QED
    BY <2>1, <2>2, ImageFinite
<1> HIDE DEF L
<1>2. /\ Network!Cardinality(L) \in Nat
      /\ Network!Cardinality(L) = 0 <=> L = {}
      /\ Network!Cardinality(L) = 1 <=> \E l : L = {l}
      /\ Network!Cardinality(L) > 1 <=> Many(L)
  BY <1>1, Plural, SameCardinality4
<1> QED
  BY <1>1, <1>2 DEF L

LEMMA TwoDevices ==
  ASSUME NEW S, IsFiniteSet(S), NEW l
  PROVE  /\ Network!DevicesAt(S, l) >= 2 <=> Multi(S, l)
         /\ Network!DevicesAt(S, l) < 2 <=> ~Multi(S, l)
<1> DEFINE R == {c \in S : Network!At(c) = l}
           D == {Network!Device(c) : c \in R}
           f == [c \in S |-> Network!Device(c)]
<1>1. D = {f[c] : c \in R} /\ (Many(D) <=> Multi(S, l))
  BY DEF Many, Multi
<1>2. IsFiniteSet(R)
  BY FS_Subset
<1>3. IsFiniteSet(D)
  <2> HIDE DEF D, f, R
  <2> QED
    BY <1>1, <1>2, ImageFinite
<1> HIDE DEF D
<1>4. Cardinality(D) \in Nat /\ (Cardinality(D) >= 2 <=> Many(D))
  BY <1>3, Plural
<1>5. Network!DevicesAt(S, l) = Cardinality(D)
  BY SameCardinality4 DEF Network!DevicesAt, D
<1>6. Cardinality(D) < 2 <=> ~(Cardinality(D) >= 2)
  BY <1>4
<1> QED
  BY <1>1, <1>4, <1>5, <1>6

\* The level, without the counting.
LEMMA LevelOf ==
  ASSUME NEW S, IsFiniteSet(S)
  PROVE  /\ S = {} => Network!Level(S) = "none"
         /\ (\E l : Network!Locations(S) = {l}) => Network!Level(S) = "devtest"
         /\ Many(Network!Locations(S)) =>
              /\ Network!Level(S) \in {"high", "maximum"}
              /\ Network!Level(S) = "maximum" <=> \A l \in Network!Locations(S) : Multi(S, l)
         /\ S = {} \/ (\E l : Network!Locations(S) = {l}) \/ Many(Network!Locations(S))
<1> DEFINE L == Network!Locations(S)
           n == Network!Cardinality(L)
<1>1. /\ L = {} <=> S = {}
      /\ n = 0 <=> S = {}
      /\ n = 1 <=> \E l : L = {l}
      /\ n > 1 <=> Many(L)
      /\ n \in Nat
  BY Counted
<1>2. Network!AllMulti(S) <=> \A l \in L : Multi(S, l)
  <2>1. \A l : Network!DevicesAt(S, l) >= 2 <=> Multi(S, l)
    BY TwoDevices
  <2> QED
    BY <2>1 DEF Network!AllMulti
<1> HIDE DEF L
<1>3. Network!Level(S) = CASE L = {} -> "none"
                           [] n = 1 -> "devtest"
                           [] n > 1 -> IF Network!AllMulti(S) THEN "maximum" ELSE "high"
  BY DEF Network!Level, L
<1> HIDE DEF n
<1>4. CASE S = {}
  <2>1. L = {} /\ n = 0 /\ ~Many(L) /\ ~\E l : L = {l}
    BY <1>1, <1>4
  <2> QED
    BY <1>3, <1>4, <2>1 DEF L
<1>5. CASE n = 1
  <2>1. L # {} /\ S # {} /\ ~(n > 1) /\ ~Many(L) /\ \E l : L = {l}
    BY <1>1, <1>5
  <2>2. Network!Level(S) = "devtest"
    BY <1>3, <1>5, <2>1
  <2> QED
    BY <2>1, <2>2 DEF L
<1>6. CASE n > 1
  <2>1. L # {} /\ S # {} /\ n # 1 /\ Many(L) /\ ~\E l : L = {l}
    BY <1>1, <1>6
  <2>2. Network!Level(S) = IF Network!AllMulti(S) THEN "maximum" ELSE "high"
    BY <1>3, <1>6, <2>1
  <2> QED
    BY <1>2, <2>1, <2>2 DEF L
<1>7. S = {} \/ n = 1 \/ n > 1
  BY <1>1
<1> QED
  BY <1>4, <1>5, <1>6, <1>7

\* The circuits of a set as a sequence: each of them, and nothing else.
LEMMA SequenceOf ==
  ASSUME NEW S, IsFiniteSet(S)
  PROVE  /\ Network!SetToSeq(S) \in Seq(S)
         /\ \A x \in S : \E i \in 1..Len(Network!SetToSeq(S)) : Network!SetToSeq(S)[i] = x
<1> DEFINE n == Cardinality(S)
           s == Network!SetToSeq(S)
<1>1. n \in Nat /\ ExistsBijection(1..n, S)
  BY FS_CardinalityType
<1>2. PICK f \in [1..n -> S] : \A a, b \in 1..n : f[a] = f[b] => a = b
  BY <1>1 DEF ExistsBijection, Bijection, Injection, IsInjective
<1>3. s \in [1..n -> S] /\ \A a, b \in 1..n : s[a] = s[b] => a = b
  <2> DEFINE Fits(g) == \A a, b \in DOMAIN g : g[a] = g[b] => a = b
  <2>1. s = CHOOSE g \in [1..n -> S] : Fits(g)
    BY SameCardinality4 DEF Network!SetToSeq, Network!IsInjective
  <2>2. Fits(f)
    BY <1>2
  <2> HIDE DEF s, n
  <2>3. s \in [1..n -> S] /\ Fits(s)
    <3> HIDE DEF Fits
    <3> QED
      BY <2>1, <2>2
  <2> QED
    BY <2>3
<1> HIDE DEF n, s
<1>4. IsFiniteSet(1..n) /\ Cardinality(1..n) = n
  BY <1>1, FS_Interval
<1>5. s \in Injection(1..n, S)
  BY <1>3 DEF Injection, IsInjective
<1>6. s \in Surjection(1..n, S)
  BY <1>4, <1>5, FS_Injection DEF n
<1>7. s \in Seq(S) /\ Len(s) = n
  BY <1>1, <1>3
<1>8. \A x \in S : \E i \in 1..n : s[i] = x
  BY <1>6 DEF Surjection
<1> QED
  BY <1>7, <1>8 DEF s

\* Circuits are on devices that exist, VIFs on circuits, and only a circuit of this
\* account is known to be down.
CircuitsFit ==
    /\ world = [circuits |-> world.circuits, vifs |-> world.vifs, vifDown |-> world.vifDown,
                lineDown |-> world.lineDown, builds |-> world.builds,
                promised |-> world.promised]
    /\ world.circuits \in Seq({world.circuits[c] : c \in DOMAIN world.circuits})
    /\ \A c \in DOMAIN world.circuits :
          /\ world.circuits[c].told \in BOOLEAN
          /\ world.circuits[c].on = <<Network!At(c), world.circuits[c].on[2], world.circuits[c].on[3]>>
          /\ world.circuits[c].on[2] \in Nat /\ world.circuits[c].on[2] < Len(world.circuits)
    /\ world.vifs \subseteq Gateway \X DOMAIN world.circuits
    /\ world.lineDown \subseteq DOMAIN world.circuits \ Hosted

\* What a complete assessment takes for the circuits of g.
ScopeOf(g) == Network!Scope(g, {})

LEMMA ScopeIs ==
  /\ Network!Known({}) = Gateway
  /\ \A kind : Network!Read(kind, {}) = Network!Searched({})
  /\ \A g, c : c \in ScopeOf(g) <=>
        \E v \in world.vifs : /\ v[1] = g /\ v[2] = c
                              /\ world.circuits[c].region \in Network!Searched({})
BY DEF Network!Known, Network!Read, ScopeOf, Network!Scope, Network!Vifs

LEMMA CircuitsFinite ==
  ASSUME CircuitsFit
  PROVE  /\ Len(world.circuits) \in Nat /\ DOMAIN world.circuits = 1..Len(world.circuits)
         /\ IsFiniteSet(DOMAIN world.circuits)
         /\ \A g : ScopeOf(g) \subseteq DOMAIN world.circuits /\ IsFiniteSet(ScopeOf(g))
<1>1. Len(world.circuits) \in Nat /\ DOMAIN world.circuits = 1..Len(world.circuits)
  BY OfSequence DEF CircuitsFit
<1>2. IsFiniteSet(DOMAIN world.circuits)
  BY <1>1, FS_Interval
<1>3. \A g : ScopeOf(g) \subseteq DOMAIN world.circuits
  BY ScopeIs DEF CircuitsFit
<1> QED
  BY <1>1, <1>2, <1>3, FS_Subset

\* A gateway at maximum without a critical finding survives two losses.
LEMMA MaximumSurvives ==
  ASSUME CircuitsFit, NEW g \in Gateway, Network!Level(ScopeOf(g)) = "maximum",
         ~Network!Critical(g, {}), Network!Told(g),
         NEW lost \in Network!Feeding(g), NEW other \in Network!Feeding(g)
  PROVE  \E v \in Network!Feeding(g) :
            /\ Network!Carries(v) /\ Network!At(v[2]) # Network!At(lost[2])
            /\ world.circuits[v[2]].on # world.circuits[other[2]].on
<1> DEFINE S == ScopeOf(g)
<1>1. Many(Network!Locations(S)) /\ \A l \in Network!Locations(S) : Multi(S, l)
  <2>1. IsFiniteSet(S)
    BY CircuitsFinite
  <2> HIDE DEF S
  <2> QED
    BY <2>1, LevelOf DEF S
<1>2. PICK l \in Network!Locations(S) : l # Network!At(lost[2])
  BY <1>1 DEF Many
<1>3. PICK c \in S, d \in S : /\ Network!At(c) = l /\ Network!At(d) = l
                              /\ Network!Device(c) # Network!Device(d)
  BY <1>1, <1>2 DEF Multi
<1>4. ASSUME NEW e \in S
      PROVE  \E v \in Network!Feeding(g) : v[2] = e /\ Network!Carries(v)
                                           /\ Network!Device(e) = world.circuits[e].on
  <2>1. PICK v \in world.vifs : v[1] = g /\ v[2] = e
                                /\ world.circuits[e].region \in Network!Searched({})
    BY <1>4, ScopeIs
  <2>2. v \in Network!Vifs({}) /\ v \in Network!Feeding(g)
    BY <2>1, ScopeIs DEF Network!Vifs, Network!Feeding
  <2>3. v \notin world.vifDown
    BY <2>1, <2>2 DEF Network!Critical
  <2>4. e \notin world.lineDown
    <3>1. SUFFICES ASSUME e \in world.lineDown PROVE FALSE
      OBVIOUS
    <3>2. e \in Network!Owned({})
      BY <2>1, <3>1, ScopeIs DEF Network!Owned, CircuitsFit
    <3> QED
      BY <3>1, <3>2 DEF Network!Critical, ScopeOf
  <2>5. Network!Device(e) = world.circuits[e].on
    BY <2>1, <2>2 DEF Network!Told, Network!Device
  <2> QED
    BY <2>1, <2>2, <2>3, <2>4, <2>5 DEF Network!Carries
<1> HIDE DEF S
<1>5. PICK v \in Network!Feeding(g) : v[2] = c /\ Network!Carries(v)
                                      /\ Network!Device(c) = world.circuits[c].on
  BY <1>4
<1>6. PICK w \in Network!Feeding(g) : w[2] = d /\ Network!Carries(w)
                                      /\ Network!Device(d) = world.circuits[d].on
  BY <1>4
<1>7. world.circuits[c].on # world.circuits[other[2]].on
      \/ world.circuits[d].on # world.circuits[other[2]].on
  BY <1>3, <1>5, <1>6
<1> QED
  BY <1>2, <1>3, <1>5, <1>6, <1>7

\* What is down in a region that is searched is a critical finding.
LEMMA DownIsCritical ==
  ASSUME CircuitsFit, NEW g \in Gateway, NEW v \in Network!Feeding(g), ~Network!Carries(v),
         world.circuits[v[2]].region \in Network!Searched({})
  PROVE  Network!Critical(g, {})
<1>1. v \in Network!Vifs({}) /\ v[1] = g
  BY ScopeIs DEF Network!Vifs, Network!Feeding
<1>2. CASE v \in world.vifDown
  BY <1>1, <1>2 DEF Network!Critical
<1>3. CASE v[2] \in world.lineDown
  <2>1. v[2] \in Network!Owned({})
    BY <1>3, ScopeIs DEF Network!Owned, CircuitsFit
  <2>2. v[2] \in Network!Scope(g, {})
    BY <1>1 DEF Network!Scope
  <2> QED
    BY <1>3, <2>1, <2>2 DEF Network!Critical
<1> QED
  BY <1>2, <1>3 DEF Network!Carries

\* One device or two at each location: how many there are in all.
LEMMA DevicesCounted ==
  ASSUME CircuitsFit, NEW S \in SUBSET (DOMAIN world.circuits),
         \A c \in S : world.circuits[c].told /\ Network!Boxes(S, Network!At(c)) <= 2
  PROVE  LET L == Network!Locations(S)
             Single == {l \in L : Network!Boxes(S, l) = 1}
         IN  /\ IsFiniteSet(L) /\ IsFiniteSet(Single)
             /\ Cardinality({Network!Device(c) : c \in S}) + Cardinality(Single) = 2 * Cardinality(L)
             /\ Cardinality({Network!Device(c) : c \in S}) \in Nat
             /\ Single = {} <=> \A l \in L : Multi(S, l)
<1> DEFINE L == Network!Locations(S)
           On(l) == {world.circuits[c].on : c \in {c \in S : Network!At(c) = l}}
           D(P) == {world.circuits[c].on : c \in {c \in S : Network!At(c) \in P}}
           One(P) == {l \in P : Cardinality(On(l)) = 1}
           G == {P \in SUBSET L : Cardinality(D(P)) + Cardinality(One(P)) = 2 * Cardinality(P)}
           on == [c \in S |-> world.circuits[c].on]
           at == [c \in S |-> Network!At(c)]
<1>1. IsFiniteSet(S)
  BY CircuitsFinite, FS_Subset
<1>2. IsFiniteSet(L) /\ IsFiniteSet({world.circuits[c].on : c \in S})
  <2>1. L = {at[c] : c \in S} /\ {world.circuits[c].on : c \in S} = {on[c] : c \in S}
    BY DEF Network!Locations
  <2>2. IsFiniteSet({at[c] : c \in S}) /\ IsFiniteSet({on[c] : c \in S})
    <3> HIDE DEF on, at
    <3> QED
      BY <1>1, ImageFinite
  <2> HIDE DEF on, at, L
  <2> QED
    BY <2>1, <2>2
<1>3. ASSUME NEW P \in SUBSET L
      PROVE  /\ IsFiniteSet(P) /\ IsFiniteSet(D(P)) /\ IsFiniteSet(One(P))
             /\ Cardinality(P) \in Nat /\ Cardinality(D(P)) \in Nat /\ Cardinality(One(P)) \in Nat
  <2>1. D(P) \subseteq {world.circuits[c].on : c \in S} /\ One(P) \subseteq L
    OBVIOUS
  <2> HIDE DEF D, One, L
  <2> QED
    BY <1>2, <2>1, FS_Subset, FS_CardinalityType
<1>4. ASSUME NEW l \in L
      PROVE  /\ IsFiniteSet(On(l)) /\ Cardinality(On(l)) \in {1, 2}
             /\ Network!Boxes(S, l) = Cardinality(On(l))
             /\ Cardinality(On(l)) = 2 <=> Multi(S, l)
  <2>1. PICK c \in S : Network!At(c) = l
    BY DEF Network!Locations
  <2>2. Network!Boxes(S, l) = Cardinality(On(l))
    BY SameCardinality4 DEF Network!Boxes
  <2>3. On(l) \subseteq {world.circuits[d].on : d \in S} /\ On(l) # {}
    BY <2>1
  <2>4. Many(On(l)) <=> Multi(S, l)
    <3>1. \A d \in S : Network!Device(d) = world.circuits[d].on
      BY DEF Network!Device
    <3> QED
      BY <3>1 DEF Many, Multi
  <2>5. Network!Boxes(S, l) <= 2
    BY <2>1
  <2> HIDE DEF On
  <2>6. IsFiniteSet(On(l))
    BY <1>2, <2>3, FS_Subset
  <2>7. /\ Cardinality(On(l)) \in Nat /\ Cardinality(On(l)) <= 2 /\ Cardinality(On(l)) # 0
        /\ Cardinality(On(l)) >= 2 <=> Multi(S, l)
    BY <2>2, <2>3, <2>4, <2>5, <2>6, Plural
  <2> QED
    BY <2>2, <2>6, <2>7
<1>5. ASSUME NEW P \in SUBSET L, NEW l \in P
      PROVE  /\ D(P) = D(P \ {l}) \cup On(l) /\ D(P \ {l}) \cap On(l) = {}
             /\ Cardinality(On(l)) = 1 => One(P) = One(P \ {l}) \cup {l}
             /\ Cardinality(On(l)) # 1 => One(P) = One(P \ {l})
  <2>1. D(P) = D(P \ {l}) \cup On(l)
    OBVIOUS
  <2>2. D(P \ {l}) \cap On(l) = {}
    <3>1. \A c \in S : world.circuits[c].on[1] = Network!At(c)
      BY DEF CircuitsFit
    <3> QED
      BY <3>1
  <2> HIDE DEF On, D
  <2>3. /\ Cardinality(On(l)) = 1 => One(P) = One(P \ {l}) \cup {l}
        /\ Cardinality(On(l)) # 1 => One(P) = One(P \ {l})
    OBVIOUS
  <2> QED
    BY <2>1, <2>2, <2>3
<1>6. ASSUME NEW P \in SUBSET L, \A Q \in SUBSET P : Q # P => Q \in G
      PROVE  P \in G
  <2>1. CASE P = {}
    <3>1. D(P) = {} /\ One(P) = {} /\ Cardinality({}) = 0
      BY <2>1, FS_EmptySet
    <3> HIDE DEF D, One
    <3> QED
      BY <2>1, <3>1
  <2>2. CASE P # {}
    <3>1. PICK l \in P : TRUE
      BY <2>2
    <3> DEFINE Q == P \ {l}
    <3>2. Q \in G /\ Q \in SUBSET L /\ l \in L
      BY <1>6, <3>1
    <3>3. /\ D(P) = D(Q) \cup On(l) /\ D(Q) \cap On(l) = {}
          /\ Cardinality(On(l)) = 1 => One(P) = One(Q) \cup {l}
          /\ Cardinality(On(l)) # 1 => One(P) = One(Q)
      BY <1>5, <3>1
    <3>4. Cardinality(P) = Cardinality(Q) + 1
      <4>1. IsFiniteSet(Q) /\ l \notin Q /\ Q \cup {l} = P
        BY <1>3, <3>1, <3>2
      <4> HIDE DEF Q
      <4> QED
        BY <4>1, FS_AddElement
    <3>5. l \notin One(Q)
      OBVIOUS
    <3>6. Cardinality(D(Q)) + Cardinality(One(Q)) = 2 * Cardinality(Q)
      BY <3>2
    <3>7. /\ IsFiniteSet(D(Q)) /\ IsFiniteSet(One(Q)) /\ Cardinality(Q) \in Nat
          /\ Cardinality(D(Q)) \in Nat /\ Cardinality(One(Q)) \in Nat
      BY <1>3, <3>2
    <3>8. IsFiniteSet(On(l)) /\ Cardinality(On(l)) \in {1, 2}
      BY <1>4, <3>2
    <3> HIDE DEF D, One, On, Q
    <3>9. Cardinality(D(P)) = Cardinality(D(Q)) + Cardinality(On(l))
      <4>1. Cardinality(D(Q) \cup On(l)) = Cardinality(D(Q)) + Cardinality(On(l)) - Cardinality({})
        BY <3>3, <3>7, <3>8, FS_Union
      <4> QED
        BY <3>3, <3>7, <3>8, <4>1, FS_EmptySet
    <3>10. Cardinality(One(P)) = Cardinality(One(Q)) + (IF Cardinality(On(l)) = 1 THEN 1 ELSE 0)
      BY <3>3, <3>5, <3>7, FS_AddElement
    <3>11. Cardinality(D(P)) + Cardinality(One(P)) = 2 * Cardinality(P)
      BY <3>4, <3>6, <3>7, <3>8, <3>9, <3>10
    <3> QED
      BY <3>11
  <2> QED
    BY <2>1, <2>2
<1>7. L \in G
  <2>1. SUBSET L \subseteq G
    <3> HIDE DEF G, L
    <3> QED
      BY <1>2, <1>6, SubsetInduction
  <2> QED
    BY <2>1
<1>8. D(L) = {Network!Device(c) : c \in S}
  <2>1. \A c \in S : Network!Device(c) = world.circuits[c].on /\ Network!At(c) \in L
    BY DEF Network!Device, Network!Locations
  <2> QED
    BY <2>1
<1>9. One(L) = {l \in L : Network!Boxes(S, l) = 1}
  <2> HIDE DEF On, L
  <2> QED
    BY <1>4
<1>10. One(L) = {} <=> \A l \in L : Multi(S, l)
  <2> HIDE DEF On, L
  <2> QED
    BY <1>4
<1>11. /\ Cardinality(D(L)) + Cardinality(One(L)) = 2 * Cardinality(L)
       /\ IsFiniteSet(One(L)) /\ Cardinality(D(L)) \in Nat
  BY <1>3, <1>7
<1> HIDE DEF D, One, L
<1> QED
  BY <1>2, <1>8, <1>9, <1>10, <1>11 DEF L

\* What an estimate for maximum comes to.
LEMMA GapCounted ==
  ASSUME CircuitsFit, NEW S \in SUBSET (DOMAIN world.circuits),
         \A c \in S : world.circuits[c].told /\ Network!Boxes(S, Network!At(c)) <= 2
  PROVE  LET n == Network!Cardinality(Network!Locations(S))
             devices == Network!Cardinality({Network!Device(c) : c \in S})
             wanted == 2 * Network!Max2(2, n)
             more == IF wanted > devices THEN wanted - devices ELSE 0
         IN  more = Network!Gap(S) /\ (more = 0 <=> Network!Level(S) = "maximum")
<1> DEFINE L == Network!Locations(S)
           Single == {l \in L : Network!Boxes(S, l) = 1}
           n == Network!Cardinality(L)
           devices == Network!Cardinality({Network!Device(c) : c \in S})
           wanted == 2 * Network!Max2(2, n)
           more == IF wanted > devices THEN wanted - devices ELSE 0
<1>1. /\ IsFiniteSet(L) /\ IsFiniteSet(Single)
      /\ devices + Cardinality(Single) = 2 * Cardinality(L)
      /\ devices \in Nat
      /\ Single = {} <=> \A l \in L : Multi(S, l)
  BY DevicesCounted, SameCardinality4
<1>2. IsFiniteSet(S)
  BY CircuitsFinite, FS_Subset
<1>3. Network!Level(S) = "maximum" <=> Many(L) /\ \A l \in L : Multi(S, l)
  <2>1. S = {} => ~Many(L)
    BY DEF Network!Locations, Many
  <2>2. (\E l : L = {l}) => ~Many(L)
    BY DEF Many
  <2> QED
    BY <1>2, <2>1, <2>2, LevelOf
<1> HIDE DEF L, Single, devices
<1>4. /\ n \in Nat /\ n = Cardinality(L)
      /\ n >= 2 <=> Many(L)
      /\ Cardinality(Single) \in Nat
      /\ Cardinality(Single) = 0 <=> Single = {}
  BY <1>1, Plural, SameCardinality4
<1>5. Network!Gap(S) = 2 * (IF n < 2 THEN 2 - n ELSE 0) + Cardinality(Single)
  BY SameCardinality4 DEF Network!Gap, Single, L
<1>6. Network!Max2(2, n) = IF n < 2 THEN 2 ELSE n
  BY <1>4 DEF Network!Max2
<1> HIDE DEF n
<1>7. \A s \in Nat : devices + s = 2 * n =>
        /\ more = 2 * (IF n < 2 THEN 2 - n ELSE 0) + s
        /\ more = 0 <=> n >= 2 /\ s = 0
  BY <1>1, <1>4, <1>6
<1>8. /\ more = Network!Gap(S)
      /\ more = 0 <=> n >= 2 /\ Cardinality(Single) = 0
  BY <1>1, <1>4, <1>5, <1>7
<1>9. more = 0 <=> Network!Level(S) = "maximum"
  BY <1>1, <1>3, <1>4, <1>8
<1> QED
  BY <1>8, <1>9 DEF n, L, devices

\* Of a gateway that is connected at one location only, its second one is another;
Placed ==
    \A g \in Gateway : ScopeOf(g) # {} => \E c \in ScopeOf(g) : Network!At(c) # Site[g]

\* what was promised has been reached;
Promised ==
    /\ world.promised = [g \in Gateway |-> world.promised[g]]
    /\ \A g \in Gateway : world.promised[g] # None =>
          /\ world.promised[g] \in Network!Target
          /\ Network!Rank(Network!Level(ScopeOf(g))) >= Network!Rank(world.promised[g])

\* and a complete assessment that was not acted on yet is of what there is.
Assessed ==
    answer.tool = "assessment" /\ answer.errors = {} =>
        \A g \in Gateway :
            /\ answer.level[g] = Network!Level(ScopeOf(g))
            /\ answer.target[g] \in Network!Target
            /\ answer.level[g] \in {"high", "maximum"} => answer.target[g] = "maximum"
            /\ answer.ghosts[g] = Network!SecondSite(g, ScopeOf(g), answer.target[g])
                                    \cup Network!SecondDevices(ScopeOf(g), answer.target[g])

NetworkInv ==
    tool = "network" =>
        CircuitsFit /\ Placed /\ Promised /\ Assessed /\ Network!ResilienceHolds

\* The circuits that are built for the ghosts, and what they leave alone.
Built(g, ghosts) ==
    LET n == Len(world.circuits) IN
    /\ Len(world'.circuits) \in Nat /\ Len(world'.circuits) >= n
    /\ \A c \in 1..n : world'.circuits[c] = world.circuits[c]
    /\ \A c \in (n + 1)..Len(world'.circuits) : \E ghost \in ghosts :
          world'.circuits[c] = [at |-> ghost[1], on |-> <<ghost[1], n, ghost[2]>>,
                                region |-> Home, told |-> TRUE]
    /\ \A ghost \in ghosts : \E c \in (n + 1)..Len(world'.circuits) :
          world'.circuits[c] = [at |-> ghost[1], on |-> <<ghost[1], n, ghost[2]>>,
                                region |-> Home, told |-> TRUE]
    /\ world'.circuits \in Seq({world'.circuits[c] : c \in DOMAIN world'.circuits})
    /\ world'.vifs = world.vifs \cup ({g} \X ((n + 1)..Len(world'.circuits)))
    /\ world'.vifDown = world.vifDown /\ world'.lineDown = world.lineDown
    /\ world'.promised = [world.promised EXCEPT ![g] = answer.target[g]]
    /\ world' = [circuits |-> world'.circuits, vifs |-> world'.vifs, vifDown |-> world'.vifDown,
                 lineDown |-> world'.lineDown, builds |-> world'.builds,
                 promised |-> world'.promised]

LEMMA BuildAdds ==
  ASSUME CircuitsFit, NEW g \in Gateway, Network!Build(g), IsFiniteSet(answer.ghosts[g])
  PROVE  Built(g, answer.ghosts[g])
<1> DEFINE n == Len(world.circuits)
           ghosts == answer.ghosts[g]
           Line(ghost) == [at |-> ghost[1], on |-> <<ghost[1], n, ghost[2]>>, region |-> Home,
                           told |-> TRUE]
           Lines == {Line(ghost) : ghost \in ghosts}
           new == Network!SetToSeq(Lines)
           All == {world.circuits[c] : c \in DOMAIN world.circuits} \cup Lines
           both == world.circuits \o new
<1>1. world' = [world EXCEPT !.circuits = both,
                             !.vifs = @ \cup ({g} \X ((n + 1)..(n + Len(new)))),
                             !.builds = @ + 1,
                             !.promised[g] = answer.target[g]]
  BY DEF Network!Build
<1>2. IsFiniteSet(Lines)
  <2> DEFINE f == [ghost \in ghosts |-> Line(ghost)]
  <2>1. Lines = {f[ghost] : ghost \in ghosts}
    OBVIOUS
  <2> HIDE DEF f, Lines
  <2> QED
    BY <2>1, ImageFinite
<1> HIDE DEF Lines
<1>3. /\ new \in Seq(Lines) /\ Len(new) \in Nat
      /\ \A x \in Lines : \E i \in 1..Len(new) : new[i] = x
  BY <1>2, SequenceOf
<1> HIDE DEF new
<1>4. /\ world.circuits \in Seq(All) /\ new \in Seq(All)
      /\ n \in Nat /\ DOMAIN world.circuits = 1..n
  <2>1. world.circuits \in Seq(All)
    BY OfSequence DEF CircuitsFit
  <2> QED
    BY <1>3, <2>1, CircuitsFinite, OfSequence
<1> HIDE DEF n, All
<1> DEFINE m == Len(new)
<1>5. /\ both \in Seq(All) /\ Len(both) = n + m /\ m \in Nat
      /\ \A c \in 1..n : both[c] = world.circuits[c]
      /\ \A i \in 1..m : both[n + i] = new[i]
  <2>1. /\ both \in Seq(All) /\ Len(both) = n + m
        /\ \A c \in 1..(n + m) : both[c] = IF c <= n THEN world.circuits[c] ELSE new[c - n]
    BY <1>4, ConcatProperties DEF n
  <2> HIDE DEF both, m
  <2>2. m \in Nat
    BY <1>3 DEF m
  <2>3. \A c \in 1..n : c \in 1..(n + m) /\ c <= n
    BY <1>4, <2>2
  <2>4. \A i \in 1..m : n + i \in 1..(n + m) /\ ~(n + i <= n) /\ (n + i) - n = i
    BY <1>4, <2>2
  <2>5. \A i \in 1..m : both[n + i] = new[i]
    BY <2>1, <2>4
  <2> QED
    BY <2>1, <2>2, <2>3, <2>5
<1> HIDE DEF both
<1>6. /\ world'.circuits = both /\ world'.vifDown = world.vifDown
      /\ world'.vifs = world.vifs \cup ({g} \X ((n + 1)..(n + Len(new))))
      /\ world'.lineDown = world.lineDown
      /\ world'.promised = [world.promised EXCEPT ![g] = answer.target[g]]
      /\ world' = [circuits |-> world'.circuits, vifs |-> world'.vifs,
                   vifDown |-> world'.vifDown, lineDown |-> world'.lineDown,
                   builds |-> world'.builds, promised |-> world'.promised]
  BY <1>1 DEF CircuitsFit
<1>7. \A c \in (n + 1)..Len(both) : \E ghost \in ghosts : both[c] = Line(ghost)
  <2> TAKE c \in (n + 1)..Len(both)
  <2>1. PICK i \in 1..m : c = n + i
    <3> HIDE DEF m
    <3>1. c \in (n + 1)..(n + m)
      BY <1>5
    <3>2. \A a, b \in Nat : \A k \in (a + 1)..(a + b) : k - a \in 1..b /\ k = a + (k - a)
      OBVIOUS
    <3>3. n \in Nat /\ m \in Nat
      BY <1>4, <1>5
    <3> QED
      BY <3>1, <3>2, <3>3
  <2>2. new[i] \in Lines /\ both[c] = new[i]
    BY <1>3, <1>5, <2>1
  <2> QED
    BY <2>2 DEF Lines
<1>8. \A ghost \in ghosts : \E c \in (n + 1)..Len(both) : both[c] = Line(ghost)
  <2> TAKE ghost \in ghosts
  <2>1. Line(ghost) \in Lines
    BY DEF Lines
  <2>2. PICK i \in 1..Len(new) : new[i] = Line(ghost)
    BY <1>3, <2>1
  <2>3. n + i \in (n + 1)..Len(both) /\ both[n + i] = new[i]
    <3> HIDE DEF m
    <3> QED
      BY <1>4, <1>5, <2>2 DEF m
  <2> QED
    BY <2>2, <2>3
<1>9. both \in Seq({both[c] : c \in DOMAIN both})
  BY <1>5, OfSequence
<1>10. Len(both) \in Nat /\ Len(both) >= n /\ Len(both) = n + Len(new)
  <2> HIDE DEF m
  <2> QED
    BY <1>4, <1>5 DEF m
<1> HIDE DEF m
<1>11. Len(world'.circuits) = Len(both) /\ \A c : world'.circuits[c] = both[c]
  BY <1>6
<1>12. world'.vifs = world.vifs \cup ({g} \X ((n + 1)..Len(world'.circuits)))
  BY <1>6, <1>10
<1>13. world'.circuits \in Seq({world'.circuits[c] : c \in DOMAIN world'.circuits})
  BY <1>6, <1>9
<1> QED
  BY <1>5, <1>6, <1>7, <1>8, <1>10, <1>11, <1>12, <1>13 DEF Built, n

\* What is built joins the circuits of its gateway, on devices no other has.
LEMMA ScopeGrows ==
  ASSUME CircuitsFit, NEW g \in Gateway, NEW ghosts, Built(g, ghosts),
         \A ghost \in ghosts : ghost[2] \in {1, 2, 3}
  PROVE  LET n == Len(world.circuits)
             New == (n + 1)..Len(world'.circuits)
             On(c, ghost) == /\ Network!At(c)' = ghost[1]
                             /\ Network!Device(c)' = <<ghost[1], n, ghost[2]>>
         IN  /\ CircuitsFit'
             /\ \A h \in Gateway : h # g => ScopeOf(h)' = ScopeOf(h)
             /\ ScopeOf(g)' = ScopeOf(g) \cup New
             /\ \A c \in 1..n : /\ Network!At(c)' = Network!At(c)
                                /\ Network!Device(c)' = Network!Device(c)
             /\ \A c \in New : \E ghost \in ghosts : On(c, ghost)
             /\ \A ghost \in ghosts : \E c \in New : On(c, ghost)
             /\ \A c \in 1..n, ghost \in ghosts :
                   Network!Device(c) # <<ghost[1], n, ghost[2]>>
<1> DEFINE n == Len(world.circuits)
           New == (n + 1)..Len(world'.circuits)
           On(c, ghost) == /\ Network!At(c)' = ghost[1]
                           /\ Network!Device(c)' = <<ghost[1], n, ghost[2]>>
           Line(ghost) == [at |-> ghost[1], on |-> <<ghost[1], n, ghost[2]>>, region |-> Home,
                           told |-> TRUE]
<1>1. n \in Nat /\ DOMAIN world.circuits = 1..n
  BY CircuitsFinite
<1>2. /\ Len(world'.circuits) \in Nat /\ Len(world'.circuits) >= n
      /\ \A c \in 1..n : world'.circuits[c] = world.circuits[c]
      /\ \A c \in New : \E ghost \in ghosts : world'.circuits[c] = Line(ghost)
      /\ \A ghost \in ghosts : \E c \in New : world'.circuits[c] = Line(ghost)
      /\ world'.circuits \in Seq({world'.circuits[c] : c \in DOMAIN world'.circuits})
      /\ world'.vifs = world.vifs \cup ({g} \X New)
      /\ world'.lineDown = world.lineDown
  BY DEF Built
<1>3. DOMAIN world'.circuits = 1..Len(world'.circuits)
  BY <1>2, OfSequence
<1>4. /\ \A c : c \in DOMAIN world'.circuits <=> c \in 1..n \/ c \in New
      /\ \A c : ~(c \in 1..n /\ c \in New)
      /\ \A c \in New : n < Len(world'.circuits)
  BY <1>1, <1>2, <1>3
<1>5. ASSUME NEW c, NEW ghost \in ghosts, world'.circuits[c] = Line(ghost) PROVE On(c, ghost)
  BY <1>5 DEF Network!At, Network!Device
<1>6. \A c \in 1..n : /\ Network!At(c)' = Network!At(c)
                      /\ Network!Device(c)' = Network!Device(c)
  BY <1>2 DEF Network!At, Network!Device
<1> HIDE DEF New, On
<1>7. CircuitsFit'
  <2>1. ASSUME NEW c \in DOMAIN world'.circuits
        PROVE  /\ world'.circuits[c].told \in BOOLEAN
               /\ world'.circuits[c].on
                    = <<Network!At(c)', world'.circuits[c].on[2], world'.circuits[c].on[3]>>
               /\ world'.circuits[c].on[2] \in Nat
               /\ world'.circuits[c].on[2] < Len(world'.circuits)
    <3>1. CASE c \in 1..n
      <4>1. world'.circuits[c] = world.circuits[c] /\ Network!At(c)' = Network!At(c)
        BY <1>2, <1>6, <3>1
      <4>2. /\ world.circuits[c].told \in BOOLEAN
            /\ world.circuits[c].on
                 = <<Network!At(c), world.circuits[c].on[2], world.circuits[c].on[3]>>
            /\ world.circuits[c].on[2] \in Nat /\ world.circuits[c].on[2] < n
        BY <1>1, <3>1 DEF CircuitsFit
      <4>3. \A x \in Nat : x < n => x < Len(world'.circuits)
        BY <1>1, <1>2
      <4> QED
        BY <4>1, <4>2, <4>3
    <3>2. CASE c \in New
      <4>1. PICK ghost \in ghosts : world'.circuits[c] = Line(ghost)
        BY <1>2, <3>2
      <4>2. n < Len(world'.circuits)
        BY <1>4, <3>2
      <4> HIDE DEF n
      <4> QED
        BY <1>1, <4>1, <4>2 DEF Network!At
    <3> QED
      BY <1>4, <2>1, <3>1, <3>2
  <2>2. world'.vifs \subseteq Gateway \X DOMAIN world'.circuits
    BY <1>1, <1>2, <1>4 DEF CircuitsFit
  <2>3. world'.lineDown \subseteq DOMAIN world'.circuits \ Hosted
    BY <1>1, <1>2, <1>4 DEF CircuitsFit
  <2>4. world' = [circuits |-> world'.circuits, vifs |-> world'.vifs, vifDown |-> world'.vifDown,
                  lineDown |-> world'.lineDown, builds |-> world'.builds,
                  promised |-> world'.promised]
    BY DEF Built
  <2> QED
    BY <1>2, <2>1, <2>2, <2>3, <2>4 DEF CircuitsFit
<1>8. ScopeIs'
  BY ScopeIs, PTL
<1>9. Network!Searched({})' = Network!Searched({}) /\ Home \in Network!Searched({})
  BY DEF Network!Searched, Network!Known
<1>10. /\ \A v \in world.vifs : v[2] \in 1..n
       /\ \A c \in 1..n : world'.circuits[c].region = world.circuits[c].region
       /\ \A c \in New : world'.circuits[c].region = Home
  <2>1. \A v \in world.vifs : v[2] \in 1..n
    BY <1>1 DEF CircuitsFit
  <2>2. ASSUME NEW c \in New PROVE world'.circuits[c].region = Home
    <3>1. PICK ghost \in ghosts : world'.circuits[c] = Line(ghost)
      BY <1>2
    <3> QED
      BY <3>1
  <2> QED
    BY <1>2, <2>1, <2>2
<1>11. ASSUME NEW h \in Gateway, NEW c
       PROVE  c \in ScopeOf(h)' <=> c \in ScopeOf(h) \/ (h = g /\ c \in New)
  <2>1. c \in ScopeOf(h)' <=>
          \E v \in world'.vifs : /\ v[1] = h /\ v[2] = c
                                /\ world'.circuits[c].region \in Network!Searched({})
    BY <1>8, <1>9
  <2>2. c \in ScopeOf(h) <=>
          \E v \in world.vifs : /\ v[1] = h /\ v[2] = c
                               /\ world.circuits[c].region \in Network!Searched({})
    BY ScopeIs
  <2>3. \A v : v \in world'.vifs <=> v \in world.vifs \/ v \in {g} \X New
    BY <1>2
  <2>4. ASSUME h = g, c \in New PROVE c \in ScopeOf(h)'
    <3>1. <<g, c>> \in world'.vifs
      BY <2>3, <2>4
    <3> QED
      BY <1>9, <1>10, <2>1, <2>4, <3>1
  <2>5. ASSUME c \in ScopeOf(h) PROVE c \in ScopeOf(h)'
    BY <1>10, <2>1, <2>2, <2>3, <2>5
  <2>6. ASSUME c \in ScopeOf(h)' PROVE c \in ScopeOf(h) \/ (h = g /\ c \in New)
    BY <1>10, <2>1, <2>2, <2>3, <2>6
  <2> QED
    BY <2>4, <2>5, <2>6
<1>12. /\ \A h \in Gateway : h # g => ScopeOf(h)' = ScopeOf(h)
       /\ ScopeOf(g)' = ScopeOf(g) \cup New
  BY <1>11
<1>13. \A c \in 1..n, ghost \in ghosts : Network!Device(c) # <<ghost[1], n, ghost[2]>>
  <2> TAKE c \in 1..n, ghost \in ghosts
  <2>1. CASE world.circuits[c].told
    <3>1. Network!Device(c)[2] < n /\ Network!Device(c)[2] \in Nat
      BY <1>1, <2>1 DEF CircuitsFit, Network!Device
    <3> QED
      BY <1>1, <3>1
  <2>2. CASE ~world.circuits[c].told
    BY <2>2 DEF Network!Device
  <2> QED
    BY <2>1, <2>2
<1>14. /\ \A c \in New : \E ghost \in ghosts : On(c, ghost)
       /\ \A ghost \in ghosts : \E c \in New : On(c, ghost)
  BY <1>2, <1>5
<1> QED
  BY <1>6, <1>7, <1>12, <1>13, <1>14 DEF New, On

\* What is recommended for the circuits S of a gateway.
LEMMA GhostsAre ==
  ASSUME NEW S, IsFiniteSet(S), NEW g, NEW goal \in Network!Target
  PROVE  LET ghosts == Network!SecondSite(g, S, goal) \cup Network!SecondDevices(S, goal)
             L == Network!Locations(S)
         IN  /\ IsFiniteSet(ghosts)
             /\ S = {} => ghosts = {}
             /\ \A ghost \in ghosts : ghost[2] \in {1, 2, 3}
             /\ \A ghost \in ghosts :
                   ghost[1] \in L \/ (ghost[1] = Site[g] /\ \E l : L = {l})
             /\ (\E l : L = {l}) => <<Site[g], 1>> \in ghosts
             /\ (\E l : L = {l}) /\ goal = "maximum" => <<Site[g], 2>> \in ghosts
             /\ goal = "maximum" => \A l \in L : Multi(S, l) \/ <<l, 3>> \in ghosts
<1> DEFINE L == Network!Locations(S)
           single == \E l : L = {l}
           site == Network!SecondSite(g, S, goal)
           devices == Network!SecondDevices(S, goal)
<1>1. /\ IsFiniteSet(L)
      /\ L = {} <=> S = {}
      /\ Network!Cardinality(L) = 1 <=> single
  BY Counted
<1>2. \A l : Network!DevicesAt(S, l) < 2 <=> ~Multi(S, l)
  BY TwoDevices
<1>3. devices = IF goal = "high" THEN {} ELSE {<<l, 3>> : l \in {l \in L : ~Multi(S, l)}}
  <2>1. {l \in L : Network!DevicesAt(S, l) < 2} = {l \in L : ~Multi(S, l)}
    BY <1>2
  <2> QED
    BY <2>1 DEF Network!SecondDevices
<1>4. site = IF single THEN {<<Site[g], i>> : i \in IF goal = "maximum" THEN {1, 2} ELSE {1}}
             ELSE {}
  BY <1>1 DEF Network!SecondSite
<1>5. IsFiniteSet(site)
  <2> DEFINE both == {<<Site[g], 1>>, <<Site[g], 2>>}
  <2>1. site \subseteq both
    <3> HIDE DEF single, site
    <3> QED
      BY <1>4
  <2>2. IsFiniteSet(both)
    BY TwoFinite
  <2> HIDE DEF site, both
  <2> QED
    BY <2>1, <2>2, FS_Subset
<1>6. IsFiniteSet(devices)
  <2> DEFINE f == [l \in L |-> <<l, 3>>]
             All == {f[l] : l \in L}
  <2>1. devices \subseteq All
    BY <1>3
  <2>2. IsFiniteSet(All)
    <3> HIDE DEF f, L
    <3> QED
      BY <1>1, ImageFinite
  <2> HIDE DEF All, devices
  <2> QED
    BY <2>1, <2>2, FS_Subset
<1>7. S = {} => site \cup devices = {}
  <2> SUFFICES ASSUME S = {} PROVE site \cup devices = {}
    OBVIOUS
  <2>1. L = {} /\ ~single
    BY <1>1
  <2> HIDE DEF L, single, site, devices
  <2> QED
    BY <1>3, <1>4, <2>1
<1> HIDE DEF L, site, devices, single
<1>8. \A ghost \in site :
        /\ single /\ ghost[1] = Site[g] /\ ghost[2] \in {1, 2}
  BY <1>4
<1>9. \A ghost \in devices : ghost[1] \in L /\ ghost[2] = 3
  BY <1>3
<1>10. /\ single => <<Site[g], 1>> \in site
       /\ single /\ goal = "maximum" => <<Site[g], 2>> \in site
       /\ goal = "maximum" => \A l \in L : Multi(S, l) \/ <<l, 3>> \in devices
  BY <1>3, <1>4
<1>11. IsFiniteSet(site \cup devices)
  BY <1>5, <1>6, FS_Union
<1> QED
  BY <1>7, <1>8, <1>9, <1>10, <1>11 DEF L, site, devices, single

LEMMA LevelStays ==
  ASSUME NEW S, \A c \in S : /\ Network!At(c)' = Network!At(c)
                             /\ Network!Device(c)' = Network!Device(c)
  PROVE  Network!Level(S)' = Network!Level(S)
<1>1. Network!Locations(S)' = Network!Locations(S)
  BY DEF Network!Locations
<1>2. \A l : Network!DevicesAt(S, l)' = Network!DevicesAt(S, l)
  <2> TAKE l
  <2>1. {Network!Device(c)' : c \in {c \in S : Network!At(c)' = l}}
          = {Network!Device(c) : c \in {c \in S : Network!At(c) = l}}
    OBVIOUS
  <2> QED
    BY <2>1, SameCardinality4 DEF Network!DevicesAt
<1>3. Network!AllMulti(S)' <=> Network!AllMulti(S)
  BY <1>1, <1>2 DEF Network!AllMulti
<1> QED
  BY <1>1, <1>3, SameCardinality4 DEF Network!Level

\* LevelOf as one formula, so that it can be said of the next state.
Levels ==
    \A S : IsFiniteSet(S) =>
        /\ Many(Network!Locations(S)) => Network!Level(S) \in {"high", "maximum"}
        /\ Many(Network!Locations(S)) /\ (\A l \in Network!Locations(S) : Multi(S, l)) =>
              Network!Level(S) = "maximum"

LEMMA LevelsAre == Levels
BY LevelOf DEF Levels

LEMMA LevelsStillAre == Levels'
BY LevelsAre, PTL

\* What is built for a gateway takes it to the level that it was recommended for.
LEMMA LevelReached ==
  ASSUME CircuitsFit, Placed, NEW g \in Gateway, NEW goal \in Network!Target, NEW ghosts,
         ghosts = Network!SecondSite(g, ScopeOf(g), goal)
                    \cup Network!SecondDevices(ScopeOf(g), goal),
         ghosts # {}, Built(g, ghosts),
         Network!Level(ScopeOf(g)) \in {"high", "maximum"} => goal = "maximum"
  PROVE  Network!Rank(Network!Level(ScopeOf(g))') >= Network!Rank(goal)
<1> DEFINE S == ScopeOf(g)
           n == Len(world.circuits)
           New == (n + 1)..Len(world'.circuits)
           L == Network!Locations(S)
<1>1. PICK T : T = ScopeOf(g)'
  OBVIOUS
<1>2. /\ IsFiniteSet(S) /\ S \subseteq 1..n
  BY CircuitsFinite
<1>3. /\ S # {}
      /\ \A ghost \in ghosts : ghost[2] \in {1, 2, 3}
      /\ (\E l : L = {l}) => <<Site[g], 1>> \in ghosts
      /\ (\E l : L = {l}) /\ goal = "maximum" => <<Site[g], 2>> \in ghosts
      /\ goal = "maximum" => \A l \in L : Multi(S, l) \/ <<l, 3>> \in ghosts
      /\ \A ghost \in ghosts :
            ghost[1] \in L \/ (ghost[1] = Site[g] /\ \E l : L = {l})
  <2> HIDE DEF S
  <2> QED
    BY <1>2, GhostsAre DEF S
<1>4. /\ T = S \cup New
      /\ \A c \in 1..n : /\ Network!At(c)' = Network!At(c)
                         /\ Network!Device(c)' = Network!Device(c)
      /\ \A c \in New : \E ghost \in ghosts :
            Network!At(c)' = ghost[1] /\ Network!Device(c)' = <<ghost[1], n, ghost[2]>>
      /\ \A ghost \in ghosts : \E c \in New :
            Network!At(c)' = ghost[1] /\ Network!Device(c)' = <<ghost[1], n, ghost[2]>>
      /\ \A c \in 1..n, ghost \in ghosts : Network!Device(c) # <<ghost[1], n, ghost[2]>>
  <2>1. \A ghost \in ghosts : ghost[2] \in {1, 2, 3}
    BY <1>3
  <2> QED
    BY <1>1, <2>1, ScopeGrows, SMTT(20)
<1>5. IsFiniteSet(T)
  <2>1. IsFiniteSet(New)
    <3>1. n + 1 \in Int /\ Len(world'.circuits) \in Int
      BY CircuitsFinite DEF Built
    <3> HIDE DEF n
    <3> QED
      BY <3>1, FS_Interval
  <2> HIDE DEF S, New
  <2> QED
    BY <1>2, <1>4, <2>1, FS_Union
<1>6. S = {} \/ (\E l : L = {l}) \/ Many(L)
  BY <1>2, LevelOf
<1>7. \A ghost \in ghosts : ghost[1] \in Network!Locations(T)'
  BY <1>4 DEF Network!Locations
<1>8. \A l \in L : l \in Network!Locations(T)'
  BY <1>2, <1>4 DEF Network!Locations
<1>9. Many(Network!Locations(T)')
  <2>1. CASE Many(L)
    BY <1>8, <2>1 DEF Many
  <2>2. CASE \E l : L = {l}
    <3>1. PICK c \in S : Network!At(c) # Site[g]
      BY <1>3 DEF Placed
    <3>2. Network!At(c) \in Network!Locations(T)'
      BY <1>8 DEF Network!Locations
    <3>3. Site[g] \in Network!Locations(T)'
      BY <1>3, <1>7, <2>2
    <3> QED
      BY <3>1, <3>2, <3>3 DEF Many
  <2> QED
    BY <1>3, <1>6, <2>1, <2>2
<1>10. CASE goal = "maximum"
  <2>1. ASSUME NEW l \in L PROVE Multi(T, l)'
    <3>1. CASE Multi(S, l)
      <4>1. PICK c \in S, d \in S : /\ Network!At(c) = l /\ Network!At(d) = l
                                    /\ Network!Device(c) # Network!Device(d)
        BY <3>1 DEF Multi
      <4>2. /\ c \in T /\ d \in T /\ Network!At(c)' = l /\ Network!At(d)' = l
            /\ Network!Device(c)' # Network!Device(d)'
        BY <1>2, <1>4, <4>1
      <4> QED
        BY <4>2 DEF Multi
    <3>2. CASE <<l, 3>> \in ghosts
      <4>1. PICK c \in S : Network!At(c) = l
        BY DEF Network!Locations
      <4>2. PICK d \in New : Network!At(d)' = l /\ Network!Device(d)' = <<l, n, 3>>
        BY <1>4, <3>2
      <4>3. Network!Device(c) # <<l, n, 3>>
        BY <1>2, <1>4, <3>2
      <4>4. /\ c \in T /\ d \in T /\ Network!At(c)' = l
            /\ Network!Device(c)' # Network!Device(d)'
        BY <1>2, <1>4, <4>1, <4>2, <4>3
      <4> QED
        BY <4>2, <4>4 DEF Multi
    <3> QED
      BY <1>3, <1>10, <3>1, <3>2
  <2>2. ASSUME \E l : L = {l} PROVE Multi(T, Site[g])'
    <3>1. <<Site[g], 1>> \in ghosts /\ <<Site[g], 2>> \in ghosts
      BY <1>3, <1>10, <2>2
    <3>2. PICK c \in New : Network!At(c)' = Site[g] /\ Network!Device(c)' = <<Site[g], n, 1>>
      BY <1>4, <3>1
    <3>3. PICK d \in New : Network!At(d)' = Site[g] /\ Network!Device(d)' = <<Site[g], n, 2>>
      BY <1>4, <3>1
    <3>4. c \in T /\ d \in T
      BY <1>4
    <3>5. Network!Device(c)' # Network!Device(d)'
      BY <3>2, <3>3
    <3> QED
      BY <3>2, <3>3, <3>4, <3>5 DEF Multi
  <2>3. ASSUME NEW l \in Network!Locations(T)' PROVE Multi(T, l)'
    <3>1. PICK c \in T : l = Network!At(c)'
      BY DEF Network!Locations
    <3>2. CASE c \in S
      <4>1. l \in L
        BY <1>2, <1>4, <3>1, <3>2 DEF Network!Locations
      <4> QED
        BY <2>1, <4>1
    <3>3. CASE c \in New
      <4>1. PICK ghost \in ghosts : l = ghost[1]
        BY <1>4, <3>1, <3>3
      <4>2. l \in L \/ (l = Site[g] /\ \E k : L = {k})
        BY <1>3, <4>1
      <4> QED
        BY <2>1, <2>2, <4>2
    <3> QED
      BY <1>4, <3>2, <3>3
  <2>4. Network!Level(T)' = "maximum"
    BY <1>5, <1>9, <2>3, LevelsStillAre DEF Levels
  <2> QED
    BY <1>1, <1>10, <2>4 DEF Network!Rank
<1>11. CASE goal # "maximum"
  <2>1. goal = "high"
    BY <1>11 DEF Network!Target
  <2>2. Network!Level(T)' \in {"high", "maximum"}
    BY <1>5, <1>9, LevelsStillAre DEF Levels
  <2>3. Network!Rank(goal) = 2
    BY <2>1 DEF Network!Rank
  <2>4. Network!Rank(Network!Level(T)') \in {2, 3}
    BY <2>2 DEF Network!Rank
  <2> QED
    BY <1>1, <2>3, <2>4
<1> QED
  BY <1>10, <1>11

LEMMA NetworkBuilt ==
  ASSUME CircuitsFit, Placed, Promised, Assessed, NEW g \in Gateway, Network!Build(g)
  PROVE  CircuitsFit' /\ Placed' /\ Promised' /\ answer'.tool = "none"
<1> DEFINE n == Len(world.circuits)
           New == (n + 1)..Len(world'.circuits)
           ghosts == answer.ghosts[g]
           goal == answer.target[g]
<1>1. answer.tool = "assessment" /\ answer.errors = {} /\ ghosts # {} /\ answer'.tool = "none"
  BY DEF Network!Build, Network!NoAnswer
<1>2. /\ goal \in Network!Target
      /\ Network!Level(ScopeOf(g)) \in {"high", "maximum"} => goal = "maximum"
      /\ ghosts = Network!SecondSite(g, ScopeOf(g), goal)
                    \cup Network!SecondDevices(ScopeOf(g), goal)
  BY <1>1 DEF Assessed
<1>3. \A h : IsFiniteSet(ScopeOf(h)) /\ ScopeOf(h) \subseteq 1..n
  BY CircuitsFinite
<1>4. /\ IsFiniteSet(ghosts) /\ ScopeOf(g) # {}
      /\ \A ghost \in ghosts : ghost[2] \in {1, 2, 3}
  <2> HIDE DEF ghosts, goal
  <2> QED
    BY <1>1, <1>2, <1>3, GhostsAre
<1>5. Built(g, ghosts)
  BY <1>4, BuildAdds
<1>6. /\ CircuitsFit'
      /\ \A h \in Gateway : h # g => ScopeOf(h)' = ScopeOf(h)
      /\ ScopeOf(g)' = ScopeOf(g) \cup New
      /\ \A c \in 1..n : /\ Network!At(c)' = Network!At(c)
                         /\ Network!Device(c)' = Network!Device(c)
  BY <1>4, <1>5, ScopeGrows
<1>7. Network!Rank(Network!Level(ScopeOf(g))') >= Network!Rank(goal)
  <2> HIDE DEF ghosts, goal
  <2> QED
    BY <1>1, <1>2, <1>5, LevelReached
<1>8. ASSUME NEW h \in Gateway, h # g
      PROVE  Network!Level(ScopeOf(h))' = Network!Level(ScopeOf(h))
  <2>1. PICK S : S = ScopeOf(h)
    OBVIOUS
  <2>2. Network!Level(S)' = Network!Level(S)
    BY <1>3, <1>6, <2>1, LevelStays
  <2> QED
    BY <1>6, <1>8, <2>1, <2>2
<1>9. Placed'
  <2> SUFFICES ASSUME NEW h \in Gateway, ScopeOf(h)' # {}
               PROVE  \E c \in ScopeOf(h)' : Network!At(c)' # Site[h]
    BY DEF Placed
  <2>1. ScopeOf(h) # {}
    BY <1>4, <1>6
  <2>2. PICK c \in ScopeOf(h) : Network!At(c) # Site[h]
    BY <2>1 DEF Placed
  <2>3. c \in ScopeOf(h)' /\ Network!At(c)' = Network!At(c)
    BY <1>3, <1>6
  <2> QED
    BY <2>2, <2>3
<1>10. Promised'
  <2>1. world'.promised = [world.promised EXCEPT ![g] = goal]
    BY <1>5 DEF Built
  <2>2. \A h \in Gateway : world'.promised[h] = IF h = g THEN goal ELSE world.promised[h]
    BY <2>1 DEF Promised
  <2>3. world'.promised = [h \in Gateway |-> world'.promised[h]]
    BY <2>1 DEF Promised
  <2>4. ASSUME NEW h \in Gateway, world'.promised[h] # None
        PROVE  /\ world'.promised[h] \in Network!Target
               /\ Network!Rank(Network!Level(ScopeOf(h))') >= Network!Rank(world'.promised[h])
    BY <1>2, <1>7, <1>8, <2>2, <2>4 DEF Promised
  <2> QED
    BY <2>3, <2>4 DEF Promised
<1> QED
  BY <1>1, <1>6, <1>9, <1>10

LEMMA NetworkBroken ==
  ASSUME CircuitsFit, Placed, Promised, NEW vifs, NEW lines \in SUBSET (DOMAIN world.circuits \ Hosted),
         Network!Break(vifs, lines)
  PROVE  CircuitsFit' /\ Placed' /\ Promised' /\ answer' = answer
<1>1. /\ world'.circuits = world.circuits /\ world'.vifs = world.vifs
      /\ world'.lineDown = world.lineDown \cup lines /\ world'.promised = world.promised
      /\ world' = [circuits |-> world'.circuits, vifs |-> world'.vifs, vifDown |-> world'.vifDown,
                   lineDown |-> world'.lineDown, builds |-> world'.builds,
                   promised |-> world'.promised]
      /\ answer' = answer
  BY DEF Network!Break, CircuitsFit
<1>2. /\ \A c : Network!At(c)' = Network!At(c) /\ Network!Device(c)' = Network!Device(c)
  BY <1>1 DEF Network!At, Network!Device
<1>3. CircuitsFit'
  BY <1>1, <1>2 DEF CircuitsFit
<1>4. \A g : ScopeOf(g)' = ScopeOf(g)
  <2>1. \A failed : Network!Read("vifs", failed)' = Network!Read("vifs", failed)
    BY <1>1 DEF Network!Read, Network!Searched, Network!Known
  <2>2. Network!Vifs({})' = Network!Vifs({})
    BY <1>1, <2>1 DEF Network!Vifs
  <2> QED
    BY <2>2 DEF ScopeOf, Network!Scope
<1>5. \A g : Network!Level(ScopeOf(g))' = Network!Level(ScopeOf(g))
  <2> TAKE g
  <2>1. PICK S : S = ScopeOf(g)
    OBVIOUS
  <2>2. Network!Level(S)' = Network!Level(S)
    BY <1>2, LevelStays
  <2> QED
    BY <1>4, <2>1, <2>2
<1>6. Placed'
  BY <1>2, <1>4 DEF Placed
<1>7. Promised'
  BY <1>1, <1>5 DEF Promised
<1> QED
  BY <1>1, <1>3, <1>6, <1>7

\* An assessment and an estimate change nothing of what they are about.
LEMMA NetworkStays ==
  ASSUME world' = world
  PROVE  /\ CircuitsFit' <=> CircuitsFit
         /\ \A g : ScopeOf(g)' = ScopeOf(g)
         /\ \A c : Network!At(c)' = Network!At(c)
         /\ \A S : Network!Level(S)' = Network!Level(S)
         /\ \A g, S, goal : Network!SecondSite(g, S, goal)' = Network!SecondSite(g, S, goal)
         /\ \A S, goal : Network!SecondDevices(S, goal)' = Network!SecondDevices(S, goal)
         /\ \A g : Network!Feeding(g)' = Network!Feeding(g)
         /\ \A g : Network!Told(g)' <=> Network!Told(g)
         /\ \A v : Network!Carries(v)' <=> Network!Carries(v)
         /\ Network!Searched({})' = Network!Searched({})
         /\ \A S, l : Network!Boxes(S, l)' = Network!Boxes(S, l)
         /\ \A S : Network!Gap(S)' = Network!Gap(S)
<1>1. \A c : Network!At(c)' = Network!At(c) /\ Network!Device(c)' = Network!Device(c)
  BY DEF Network!At, Network!Device
<1>2. \A g : ScopeOf(g)' = ScopeOf(g)
  <2>1. Network!Read("vifs", {})' = Network!Read("vifs", {})
    BY DEF Network!Read, Network!Searched, Network!Known
  <2>2. Network!Vifs({})' = Network!Vifs({})
    BY <2>1 DEF Network!Vifs
  <2> QED
    BY <2>2 DEF ScopeOf, Network!Scope
<1>3. \A S : Network!Level(S)' = Network!Level(S)
  BY <1>1, LevelStays
<1>4. \A S : Network!Locations(S)' = Network!Locations(S)
  BY <1>1 DEF Network!Locations
<1>5. \A S, l : Network!DevicesAt(S, l)' = Network!DevicesAt(S, l)
  BY DEF Network!DevicesAt, Network!Device, Network!At
<1>6. \A g, S, goal : Network!SecondSite(g, S, goal)' = Network!SecondSite(g, S, goal)
  BY <1>4 DEF Network!SecondSite
<1>7. \A S, goal : Network!SecondDevices(S, goal)' = Network!SecondDevices(S, goal)
  <2> TAKE S, goal
  <2>1. {l \in Network!Locations(S)' : Network!DevicesAt(S, l)' < 2}
          = {l \in Network!Locations(S) : Network!DevicesAt(S, l) < 2}
    BY <1>4, <1>5
  <2> QED
    BY <2>1 DEF Network!SecondDevices
<1>8. \A g : Network!Feeding(g)' = Network!Feeding(g)
  BY DEF Network!Feeding
<1>9. \A g : Network!Told(g)' <=> Network!Told(g)
  BY <1>8 DEF Network!Told
<1>10. \A v : Network!Carries(v)' <=> Network!Carries(v)
  BY DEF Network!Carries
<1>11. Network!Searched({})' = Network!Searched({})
  BY DEF Network!Searched, Network!Known
<1>12. CircuitsFit' <=> CircuitsFit
  BY <1>1 DEF CircuitsFit
<1>13. \A S, l : Network!Boxes(S, l)' = Network!Boxes(S, l)
  BY DEF Network!Boxes, Network!At
<1>14. \A S : Network!Gap(S)' = Network!Gap(S)
  <2>1. \A S : {l \in Network!Locations(S)' : Network!Boxes(S, l)' = 1}
                 = {l \in Network!Locations(S) : Network!Boxes(S, l) = 1}
    BY <1>4, <1>13
  <2> QED
    BY <1>4, <2>1 DEF Network!Gap
<1> QED
  BY <1>1, <1>2, <1>3, <1>6, <1>7, <1>8, <1>9, <1>10, <1>11, <1>12, <1>13, <1>14

LEMMA NetworkAssessed ==
  ASSUME CircuitsFit, Promised, NEW target \in Network!Target, NEW failed,
         Network!Assess(target, failed)
  PROVE  Assessed' /\ Network!ResilienceHolds'
<1> DEFINE Says(a) ==
        /\ a.tool = "assessment" /\ a.errors = failed
        /\ failed = {} => \A g \in Gateway :
              /\ a.level[g] = Network!Level(ScopeOf(g))
              /\ a.target[g] = Network!Effective(a.level[g], target)
              /\ g \in a.critical <=> Network!Critical(g, {})
              /\ a.ghosts[g] = Network!SecondSite(g, ScopeOf(g), a.target[g])
                                 \cup Network!SecondDevices(ScopeOf(g), a.target[g])
<1>1. world' = world
  BY DEF Network!Assess
<1>2. PICK a : a = answer'
  OBVIOUS
<1>3. Says(a)
  <2>1. a = LET level == [g \in Network!Known(failed) |-> Network!Level(Network!Scope(g, failed))]
                goal == [g \in Network!Known(failed) |-> Network!Effective(level[g], target)]
            IN  [tool |-> "assessment", errors |-> failed, level |-> level, target |-> goal,
                 critical |-> {g \in Network!Known(failed) : Network!Critical(g, failed)},
                 ghosts |-> [g \in Network!Known(failed) |->
                       Network!SecondSite(g, Network!Scope(g, failed), goal[g])
                         \cup Network!SecondDevices(Network!Scope(g, failed), goal[g])]]
    BY <1>2 DEF Network!Assess
  <2>2. a.tool = "assessment" /\ a.errors = failed
    BY <2>1
  <2>3. ASSUME failed = {}, NEW g \in Gateway
        PROVE  /\ a.level[g] = Network!Level(ScopeOf(g))
               /\ a.target[g] = Network!Effective(a.level[g], target)
               /\ g \in a.critical <=> Network!Critical(g, {})
               /\ a.ghosts[g] = Network!SecondSite(g, ScopeOf(g), a.target[g])
                                  \cup Network!SecondDevices(ScopeOf(g), a.target[g])
    <3>1. g \in Network!Known(failed)
      BY <2>3, ScopeIs
    <3>2. a.level[g] = Network!Level(Network!Scope(g, failed))
      BY <2>1, <3>1
    <3>3. a.target[g] = Network!Effective(a.level[g], target)
      BY <2>1, <3>1
    <3>4. g \in a.critical <=> Network!Critical(g, failed)
      BY <2>1, <3>1
    <3>5. a.ghosts[g] = Network!SecondSite(g, Network!Scope(g, failed), a.target[g])
                          \cup Network!SecondDevices(Network!Scope(g, failed), a.target[g])
      BY <2>1, <3>1
    <3> QED
      BY <2>3, <3>2, <3>3, <3>4, <3>5 DEF ScopeOf
  <2> QED
    BY <2>2, <2>3
<1>4. ASSUME failed = {}, NEW g \in Gateway
      PROVE  /\ a.target[g] \in Network!Target
             /\ a.level[g] \in {"high", "maximum"} => a.target[g] = "maximum"
  BY <1>3, <1>4 DEF Network!Effective, Network!Target
<1>5. Assessed'
  <2>1. answer'.tool = "assessment" /\ answer'.errors = {} =>
          \A g \in Gateway :
            /\ answer'.level[g] = Network!Level(ScopeOf(g))
            /\ answer'.target[g] \in Network!Target
            /\ answer'.level[g] \in {"high", "maximum"} => answer'.target[g] = "maximum"
            /\ answer'.ghosts[g] = Network!SecondSite(g, ScopeOf(g), answer'.target[g])
                                    \cup Network!SecondDevices(ScopeOf(g), answer'.target[g])
    BY <1>2, <1>3, <1>4
  <2> QED
    BY <1>1, <2>1, NetworkStays DEF Assessed
<1>6. ASSUME failed = {}, NEW g \in Gateway
      PROVE  /\ a.level[g] = "maximum" /\ g \notin a.critical /\ Network!Told(g) =>
                  \A lost, other \in Network!Feeding(g) : \E v \in Network!Feeding(g) :
                    Network!Carries(v) /\ Network!At(v[2]) # Network!At(lost[2])
                    /\ world.circuits[v[2]].on # world.circuits[other[2]].on
             /\ \A v \in Network!Feeding(g) :
                  ~Network!Carries(v) /\ world.circuits[v[2]].region \in Network!Searched({})
                    => g \in a.critical
             /\ world.promised[g] # None =>
                  Network!Rank(a.level[g]) >= Network!Rank(world.promised[g])
  <2>1. a.level[g] = Network!Level(ScopeOf(g)) /\ (g \in a.critical <=> Network!Critical(g, {}))
    BY <1>3, <1>6
  <2>2. a.level[g] = "maximum" /\ g \notin a.critical /\ Network!Told(g) =>
                  \A lost, other \in Network!Feeding(g) : \E v \in Network!Feeding(g) :
                    Network!Carries(v) /\ Network!At(v[2]) # Network!At(lost[2])
                    /\ world.circuits[v[2]].on # world.circuits[other[2]].on
    BY <2>1, MaximumSurvives
  <2>3. \A v \in Network!Feeding(g) :
                  ~Network!Carries(v) /\ world.circuits[v[2]].region \in Network!Searched({})
                    => g \in a.critical
    BY <2>1, DownIsCritical
  <2> QED
    BY <2>1, <2>2, <2>3 DEF Promised
<1>7. Network!ResilienceHolds'
  <2>1. answer'.tool # "cost" /\ (answer'.errors = {} => failed = {})
    BY <1>2, <1>3
  <2> QED
    BY <1>1, <1>2, <1>6, <2>1, NetworkStays DEF Network!ResilienceHolds
<1> QED
  BY <1>5, <1>7

LEMMA NetworkEstimated ==
  ASSUME CircuitsFit, NEW target, NEW failed, Network!Estimate(target, failed)
  PROVE  Assessed' /\ Network!ResilienceHolds'
<1> DEFINE S == Network!Connections(failed)
           n == Network!Cardinality(Network!Locations(S))
           devices == Network!Cardinality({Network!Device(c) : c \in S})
           wanted == IF target = "high" THEN Network!Max2(2, n) ELSE 2 * Network!Max2(2, n)
           present == IF target = "high" THEN n ELSE devices
<1>1. world' = world
  BY DEF Network!Estimate
<1>2. PICK a : a = answer'
  OBVIOUS
<1>3. /\ a.tool = "cost" /\ a.target = target /\ a.of = S /\ a.level = Network!Level(S)
      /\ a.more = IF wanted > present THEN wanted - present ELSE 0
  BY <1>2 DEF Network!Estimate
<1>4. S \in SUBSET (DOMAIN world.circuits)
  BY DEF Network!Connections, Network!Owned, Network!Vifs, CircuitsFit
<1>5. ASSUME a.target = "maximum",
             \A c \in a.of : world.circuits[c].told /\ Network!Boxes(a.of, Network!At(c)) <= 2
      PROVE  /\ a.more = Network!Gap(a.of)
             /\ a.more = 0 <=> a.level = "maximum"
  <2>1. a.more = IF 2 * Network!Max2(2, n) > devices THEN 2 * Network!Max2(2, n) - devices ELSE 0
    BY <1>3, <1>5
  <2>2. \A c \in S : world.circuits[c].told /\ Network!Boxes(S, Network!At(c)) <= 2
    BY <1>3, <1>5
  <2> HIDE DEF S
  <2> QED
    BY <1>3, <1>4, <2>1, <2>2, GapCounted
<1>6. answer'.tool # "assessment"
  BY <1>2, <1>3
<1> HIDE DEF S
<1>7. Network!ResilienceHolds'
  BY <1>1, <1>2, <1>5, <1>6, NetworkStays DEF Network!ResilienceHolds
<1> QED
  BY <1>6, <1>7 DEF Assessed

\* A Direct Connect gateway that is said to be at maximum without a critical finding,
\* and whose devices AWS tells, survives the loss of a location and of a device
\* elsewhere; what is down where the topology was searched is a critical finding; what
\* is built for a recommendation reaches the level it was made for, whatever is built
\* or breaks after it; and the estimate counts what is missing.
THEOREM ResilienceIsReal == Spec => []ResilienceHolds
<1>1. Init => NetworkInv
  <2> SUFFICES ASSUME Init, tool = "network" PROVE NetworkInv
    BY DEF NetworkInv
  <2>1. PICK vifs \in SUBSET (Gateway \X DOMAIN Circuits) :
          world = [circuits |-> Circuits, vifs |-> vifs, vifDown |-> {}, lineDown |-> {},
                   builds |-> 0, promised |-> [g \in Gateway |-> None]]
    BY DEF Init, Network!Init
  <2>2. answer.tool = "none"
    BY DEF Init, Network!Init, Network!NoAnswer
  <2>3. /\ world.circuits = Circuits /\ world.vifs = vifs /\ world.lineDown = {}
        /\ world.promised = [g \in Gateway |-> None]
        /\ world = [circuits |-> world.circuits, vifs |-> world.vifs, vifDown |-> world.vifDown,
                    lineDown |-> world.lineDown, builds |-> world.builds,
                    promised |-> world.promised]
    BY <2>1
  <2>4. CircuitsFit
    <3>1. Len(Circuits) \in Nat /\ DOMAIN Circuits = 1..Len(Circuits)
      BY NetworkConstants, OfSequence
    <3>2. ASSUME NEW c \in DOMAIN Circuits
          PROVE  /\ Circuits[c].told \in BOOLEAN
                 /\ Circuits[c].on = <<Circuits[c].at, Circuits[c].on[2], Circuits[c].on[3]>>
                 /\ Circuits[c].on[2] = 0 /\ 0 < Len(Circuits)
      BY <3>1, NetworkConstants
    <3> QED
      BY <2>3, <3>2, NetworkConstants DEF CircuitsFit, Network!At
  <2>5. Placed
    <3>1. \A g \in Gateway : ScopeOf(g) \subseteq DOMAIN Circuits
      BY <2>3, <2>4, CircuitsFinite
    <3> QED
      BY <2>3, <3>1, NetworkConstants DEF Placed, Network!At
  <2>6. Promised
    BY <2>3 DEF Promised
  <2>7. Assessed /\ Network!ResilienceHolds
    BY <2>2 DEF Assessed, Network!ResilienceHolds
  <2> QED
    BY <2>4, <2>5, <2>6, <2>7 DEF NetworkInv
<1>2. NetworkInv /\ [Next]_vars => NetworkInv'
  <2> SUFFICES ASSUME NetworkInv, [Next]_vars, tool' = "network" PROVE NetworkInv'
    BY DEF NetworkInv
  <2>1. tool = "network" /\ CircuitsFit /\ Placed /\ Promised /\ Assessed /\ Network!ResilienceHolds
    BY DEF NetworkInv, Next, vars
  <2>2. ASSUME world' = world PROVE CircuitsFit' /\ Placed' /\ Promised'
    <3>1. \A g : Network!Level(ScopeOf(g))' = Network!Level(ScopeOf(g))
      <4> TAKE g
      <4>1. PICK S : S = ScopeOf(g)
        OBVIOUS
      <4> QED
        BY <2>2, <4>1, NetworkStays
    <3> QED
      BY <2>1, <2>2, <3>1, NetworkStays DEF Placed, Promised
  <2>3. ASSUME answer'.tool = "none" PROVE Assessed' /\ Network!ResilienceHolds'
    BY <2>3 DEF Assessed, Network!ResilienceHolds
  <2>4. CASE UNCHANGED vars
    <3>1. world' = world /\ answer' = answer
      BY <2>4 DEF vars
    <3>2. Assessed'
      BY <2>1, <3>1, NetworkStays DEF Assessed
    <3>3. Network!ResilienceHolds'
      BY <2>1, <3>1, NetworkStays DEF Network!ResilienceHolds
    <3> QED
      BY <2>2, <3>1, <3>2, <3>3 DEF NetworkInv
  <2>5. CASE Next
    <3>1. Network!Next
      BY <2>1, <2>5 DEF Next
    <3>2. ASSUME answer = Network!NoAnswer, answer' = answer PROVE answer'.tool = "none"
      BY <3>2 DEF Network!NoAnswer
    <3>3. ASSUME answer = Network!NoAnswer, NEW v \in world.vifs, Network!Break({v}, {})
          PROVE  NetworkInv'
      BY <2>1, <2>3, <3>2, <3>3, NetworkBroken DEF NetworkInv
    <3>4. ASSUME answer = Network!NoAnswer, NEW c \in DOMAIN world.circuits \ Hosted,
                 Network!Break({}, {c})
          PROVE  NetworkInv'
      <4>1. {c} \in SUBSET (DOMAIN world.circuits \ Hosted)
        OBVIOUS
      <4> QED
        BY <2>1, <2>3, <3>2, <3>4, <4>1, NetworkBroken DEF NetworkInv
    <3>5. ASSUME NEW target \in Network!Target, NEW failed, Network!Assess(target, failed)
          PROVE  NetworkInv'
      <4>1. world' = world
        BY <3>5 DEF Network!Assess
      <4> QED
        BY <2>1, <2>2, <3>5, <4>1, NetworkAssessed DEF NetworkInv
    <3>6. ASSUME NEW target, NEW failed, Network!Estimate(target, failed) PROVE NetworkInv'
      <4>1. world' = world
        BY <3>6 DEF Network!Estimate
      <4> QED
        BY <2>1, <2>2, <3>6, <4>1, NetworkEstimated DEF NetworkInv
    <3>7. ASSUME NEW g \in Gateway, Network!Build(g) PROVE NetworkInv'
      BY <2>1, <2>3, <3>7, NetworkBuilt DEF NetworkInv
    <3> QED
      BY <3>1, <3>3, <3>4, <3>5, <3>6, <3>7 DEF Network!Next
  <2> QED
    BY <2>4, <2>5
<1>3. NetworkInv => ResilienceHolds
  BY DEF NetworkInv, ResilienceHolds
<1> QED
  BY <1>1, <1>2, <1>3, PTL DEF Spec
=============================================================================
