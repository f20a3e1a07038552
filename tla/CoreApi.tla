------------------------------ MODULE CoreApi ------------------------------
(***************************************************************************)
(* The reports and the report templates of a user, as the browser lists    *)
(* and changes them (src/src/lambda/frontend/core-api/handler.py) and as   *)
(* the agents write and load them (src/src/agents/shared/reports.py).      *)
(***************************************************************************)
EXTENDS Naturals, FiniteSets, Sequences

CONSTANTS
    MaxReports,
    PageSize,   \* rows that fit in one page of a query
    BuiltIn,    \* ids of the templates that come with the code; their content
                \* is their id
    Own,        \* ids a user's templates may get
    Content,    \* what can be saved: a name to sort by and sections or none
    None

VARIABLES world, answer

NoAnswer == [tool |-> "none"]
Id == BuiltIn \cup Own

\* world.writing: reports whose worker has yet to write its record.
Init ==
    /\ world = [reports |-> <<>>, stored |-> {}, writing |-> {},
                template |-> [i \in Id |-> None]]
    /\ answer = NoAnswer

Created == DOMAIN world.reports
Last == Cardinality(Created)
Changed(w) == world' = w /\ UNCHANGED answer

-----------------------------------------------------------------------------
(* Reports                                                                 *)

\* create_report_record, create_edit_report_record; save_report.  The number
\* of a report is the order of creation; its id tells nothing.  Nobody looks
\* whether the row was written.
Request(parent, ok) ==
    /\ Last < MaxReports
    /\ parent = None \/ parent \in world.stored
    /\ Changed([world EXCEPT
            !.reports = Append(@, [parent |-> parent,
                version |-> IF parent = None THEN 1 ELSE world.reports[parent].version + 1]),
            !.stored = IF ok THEN @ \cup {Last + 1} ELSE @,
            !.writing = @ \cup {Last + 1}])

\* The last save_report of the worker is a put_item of the whole record: a
\* report that was deleted meanwhile is back.
Finish(r) ==
    /\ r \in world.writing
    /\ Changed([world EXCEPT !.writing = @ \ {r}, !.stored = @ \cup {r}])

DeleteReport(r) ==
    /\ r \in world.stored
    /\ Changed([world EXCEPT !.stored = @ \ {r}])

\* _root_id: the id of a parent that is gone stands for its lineage.
Roots(page) ==
    LET root[r \in page] ==
            LET parent == world.reports[r].parent IN
            IF parent = None THEN r
            ELSE IF parent \in page THEN root[parent] ELSE parent
    IN  root

\* Of a lineage, one with the highest version; which, the order of ids decides.
Latest(lineage) ==
    {r \in lineage : \A s \in lineage : world.reports[r].version >= world.reports[s].version}

\* _list_reports: one page of the query.
ListReports ==
    \E page \in SUBSET world.stored :
        /\ \/ page = world.stored /\ Cardinality(page) <= PageSize
           \/ page # world.stored /\ Cardinality(page) = PageSize
        /\ LET root == Roots(page)
               Lineage(x) == {r \in page : root[r] = x}
           IN  \E head \in [{root[r] : r \in page} -> page] :
                /\ \A x \in DOMAIN head : head[x] \in Latest(Lineage(x))
                /\ answer' = [tool |-> "reports", page |-> page,
                              rows |-> {[head |-> head[x], versions |-> Lineage(x)] :
                                            x \in DOMAIN head}]
        /\ UNCHANGED world

-----------------------------------------------------------------------------
(* Templates                                                               *)

\* _create_template: sections are required.
CreateTemplate(i, c) ==
    /\ i \in Own /\ world.template[i] = None /\ c.sections
    /\ Changed([world EXCEPT !.template[i] = c])

\* _update_template writes the caller's row, whether there is one or not, also
\* for the id of a built-in template, and without any sections.
UpdateTemplate(i, c) == Changed([world EXCEPT !.template[i] = c])

DeleteTemplate(i) == Changed([world EXCEPT !.template[i] = None])

BuiltInFirst(i, n) == i \in BuiltIn /\ (world.template[i] = None \/ n[i] <= world.template[i].name)

\* _list_templates: sorted by name, built-in ones first among equals, and of
\* each id the first; without the saved ones when their query fails.  n: the
\* names of the built-in templates.
ListTemplates(n, ok) ==
    LET saved == IF ok THEN {j \in Id : world.template[j] # None} ELSE {} IN
    /\ answer' = [tool |-> "templates", read |-> ok,
                  shown |-> [i \in BuiltIn \cup saved |->
                                IF i \notin saved \/ BuiltInFirst(i, n) THEN [builtin |-> i]
                                ELSE [saved |-> world.template[i]]]]
    /\ UNCHANGED world

\* Mistake: a built-in template wins over the one that was saved for its id.
LoadedBuiltIn(i) ==
    CASE i \in BuiltIn -> {[builtin |-> i]}
      [] i \notin BuiltIn /\ world.template[i] # None -> {[saved |-> world.template[i]]}
      [] OTHER -> {[builtin |-> b] : b \in BuiltIn}

\* load_template: a row that has sections, the built-in template of this id, or
\* the first of them.
Loaded(i) ==
    LET row == world.template[i]
        Usable == row # None /\ row.sections
    IN  CASE Usable -> {[saved |-> row]}
          [] ~Usable /\ i \in BuiltIn -> {[builtin |-> i]}
          [] OTHER -> {[builtin |-> b] : b \in BuiltIn}

Generate(i) ==
    /\ \E source \in Loaded(i) : answer' = [tool |-> "generate", id |-> i, source |-> source]
    /\ UNCHANGED world

Next ==
    /\ answer = NoAnswer
    /\ \/ \E parent \in Created \cup {None}, ok \in BOOLEAN : Request(parent, ok)
       \/ \E r \in Created : Finish(r) \/ DeleteReport(r)
       \/ ListReports
       \/ \E i \in Id : DeleteTemplate(i) \/ Generate(i)
       \/ \E i \in Id, c \in Content : CreateTemplate(i, c) \/ UpdateTemplate(i, c)
       \/ \E n \in [BuiltIn -> {c.name : c \in Content}], ok \in BOOLEAN : ListTemplates(n, ok)

Spec == Init /\ [][Next]_<<world, answer>>

-----------------------------------------------------------------------------
\* r and s are versions of one report as far as the page tells: they are joined
\* by edits whose other versions are on the page, or are edits of one that is gone.
Linked(S, page) ==
    \A r \in page : \A s \in page :
        (\/ world.reports[r].parent = s
         \/ world.reports[r].parent # None /\ world.reports[r].parent = world.reports[s].parent)
        => (r \in S <=> s \in S)
Related(r, s, page) == \A S \in SUBSET page : Linked(S, page) /\ r \in S => s \in S

\* However reports were edited, deleted and written again, the list has each
\* one it read once, in a row with just its other versions, under one of them
\* that no other is an edit of; and it is the templates a user saved that are
\* listed, once each, and generated from, whichever id they have.
UserDataHolds ==
    /\ answer.tool = "reports" =>
        /\ UNION {row.versions : row \in answer.rows} = answer.page
        /\ \A row \in answer.rows :
              /\ \A r \in row.versions, s \in answer.page :
                    s \in row.versions <=> Related(r, s, answer.page)
              /\ row.head \in row.versions
              /\ \A r \in row.versions : world.reports[r].parent # row.head
    /\ answer.tool = "templates" /\ answer.read =>
        \A i \in Own : world.template[i] # None =>
            i \in DOMAIN answer.shown /\ answer.shown[i] = [saved |-> world.template[i]]
    /\ answer.tool = "generate" =>
        LET row == world.template[answer.id] IN
        row # None /\ row.sections => answer.source = [saved |-> row]
=============================================================================
