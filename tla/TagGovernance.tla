--------------------------- MODULE TagGovernance ---------------------------
(***************************************************************************)
(* Tag compliance: a scan of the account's resources against a policy, the *)
(* snapshot of its answers that a scheduled collector keeps, and the links *)
(* to repair what was found (src/src/lambda/mcp/tag-governance,            *)
(* src/src/lambda/collectors/tag-governance).                              *)
(***************************************************************************)
EXTENDS Naturals, FiniteSets, Ranking

CONSTANTS
    Resource, Key,
    SystemManaged,      \* resources of a type operators do not tag
    GlobalResource,     \* resources without a region, which GetResources does not list
    HomeResource,       \* those of the Lambda's own region
    OwnResource,        \* those of one of the accounts
    OrgKeys,            \* the keys of the organization's tag policy
    MaxSearch,          \* 1000: what Resource Explorer returns at most
    MaxGiven,           \* parameters of a call
    MaxChanges, MaxSweeps, None

VARIABLES world, answer

Value == {"none", "allowed", "other"}
Violation == Key \X {"missing_tag", "invalid_value"}
Operation == {"check_tag_compliance", "find_untagged_resources", "list_tag_keys_in_use",
              "get_required_tags"}

NoAnswer == [tool |-> "none"]

Init ==
    /\ world \in [tags : [Resource -> [Key -> Value]], policy : {None, OrgKeys},
                  changes : {0}, sweeps : {0}, cache : [Operation -> {None}]]
    /\ answer = NoAnswer

\* A call: the caller's policy, the resources of the types, regions and accounts
\* asked for, two flags, the number of details and the limit of a search; None is a
\* parameter that is not given.
Plain == [required |-> None, allowed |-> None, types |-> None, regions |-> None,
          accounts |-> None, system |-> FALSE, aws |-> FALSE, max |-> Cardinality(Resource),
          limit |-> None, refresh |-> FALSE]

OfScan ==
    [required : {None, Key}, allowed : {None, Key}, types : {None, Resource \ SystemManaged},
     regions : {None, HomeResource, Resource}, accounts : {None}, system : BOOLEAN,
     aws : BOOLEAN, max : {0, Cardinality(Resource)}, limit : {None}, refresh : {FALSE}]
OfSearch ==
    [required : {None}, allowed : {None}, types : {None, Resource \ SystemManaged},
     regions : {None, HomeResource, Resource}, accounts : {None, OwnResource}, system : {FALSE},
     aws : {FALSE}, max : {0, Cardinality(Resource)}, limit : {None, 1}, refresh : BOOLEAN]

Given(q) == {p \in DOMAIN q : q[p] # Plain[p]}
Request == {q \in OfScan \cup OfSearch : Cardinality(Given(q)) <= MaxGiven}

\* What the operations read of a call; max cuts what is stored for the first two.
Parameters(op) ==
    CASE op = "check_tag_compliance" ->
            {"required", "allowed", "types", "regions", "system", "aws", "max", "refresh"}
      [] op = "find_untagged_resources" ->
            {"types", "regions", "accounts", "limit", "max", "refresh"}
      [] op = "list_tag_keys_in_use" -> {"regions", "refresh"}
      [] op = "get_required_tags" -> {"required", "allowed", "refresh"}

-----------------------------------------------------------------------------
(* The live answers *)

\* _resolve_policy
PolicyOf(q) ==
    IF q.required # None \/ q.allowed # None
    THEN (IF q.required = None THEN {} ELSE q.required)
         \cup (IF q.allowed = None THEN {} ELSE q.allowed)
    ELSE world.policy

\* _classify; a caller that lists keys only admits any value.
ViolationsOf(r, keys, strict) ==
    {v \in keys \X {"missing_tag", "invalid_value"} :
        \/ v[2] = "missing_tag" /\ world.tags[r][v[1]] = "none"
        \/ v[2] = "invalid_value" /\ strict /\ world.tags[r][v[1]] = "other"}

Strict(q) == q.required = None \/ q.allowed # None

\* Mistake: the buckets of the details that are left.
BucketsOfDetails(bad, details, keys, strict) ==
    [v \in Violation |-> Cardinality({r \in details : v \in ViolationsOf(r, keys, strict)})]

\* _build_remediation_buckets, of everything that was found.
Buckets(bad, details, keys, strict) ==
    [v \in Violation |-> Cardinality({r \in bad : v \in ViolationsOf(r, keys, strict)})]

\* _assemble_compliance_response: counts and buckets of everything that was
\* seen, details up to the caller's number.
Assembled(q, keys, seen, limited, failed) ==
    LET kept == IF q.system THEN seen ELSE seen \ SystemManaged
        bad == {r \in kept : ViolationsOf(r, keys, Strict(q)) # {}}
    IN  {[tool |-> "check_tag_compliance", policy |-> keys, strict |-> Strict(q),
          of |-> world.tags, bad |-> Cardinality(bad), rows |-> details,
          buckets |-> Buckets(bad, details, keys, Strict(q)), cut |-> details # bad, limited |-> limited, failed |-> failed] :
            details \in AtMost(q.max, bad)}

Failure(code) == [tool |-> "error", code |-> code]
Matching(q) == IF q.types = None THEN Resource ELSE q.types
Untagged(r) == \A k \in Key : world.tags[r][k] = "none"

\* _check_compliance_in_python: a search that returns as many as there may be
\* is taken for a cut one.
CheckedInPython(q) ==
    IF PolicyOf(q) = None THEN {Failure("no_policy")}
    ELSE {Failure("not_indexed")} \cup
         UNION {Assembled(q, PolicyOf(q), seen, Cardinality(seen) >= MaxSearch, FALSE) :
                    seen \in AtMost(MaxSearch, Matching(q))}

\* GetResources: the resources of the regions asked for, or of the home region,
\* that have a tag; those that comply are left out.
Listed(q) == {r \in Matching(q) \cap (IF q.regions = None THEN HomeResource ELSE q.regions) :
                r \notin GlobalResource /\ ~Untagged(r)}

\* _check_compliance_aws_evaluated: the organization's policy whatever the
\* caller supplies, the resources of the regions that answered.
CheckedByAws(q) ==
    IF world.policy = None THEN {Failure("no_policy")}
    ELSE LET Org == [q EXCEPT !.required = None]
             listed == {r \in Listed(q) : ViolationsOf(r, world.policy, TRUE) # {}}
         IN  Assembled(Org, world.policy, listed, FALSE, FALSE) \cup
             UNION {Assembled(Org, world.policy, seen, FALSE, TRUE) : seen \in SUBSET listed}

Checked(q) == IF q.aws THEN CheckedByAws(q) ELSE CheckedInPython(q)

\* What a search for untagged resources is about; a filter of one value is part of
\* the query, the others are applied to what it returned.
Wanted(q) == Matching(q) \cap (IF q.regions = None THEN Resource ELSE q.regions)
                         \cap (IF q.accounts = None THEN Resource ELSE q.accounts)
Pushed(q) == {Resource, Matching(q)} \cup
             IF q.regions = None THEN {} ELSE {q.regions, q.regions \cap Matching(q)}

SearchCap(q) == IF q.limit # None /\ q.limit < MaxSearch THEN q.limit ELSE MaxSearch

\* handle_find_untagged_resources: a search that is cut at the caller's limit does
\* not say so, only how many it returned.
FoundUntagged(q) ==
    {Failure("not_indexed")} \cup
    UNION {{[tool |-> "find_untagged_resources", of |-> world.tags, rows |-> raw \cap Wanted(q),
             raw |-> Cardinality(raw), cut |-> FALSE, limited |-> Cardinality(raw) >= MaxSearch] :
                raw \in AtMost(SearchCap(q), {r \in among : Untagged(r)})} : among \in Pushed(q)}

KeysInUse == [tool |-> "list_tag_keys_in_use",
              keys |-> {k \in Key : \E r \in HomeResource : world.tags[r][k] # "none"}]

RequiredTags(q) ==
    IF PolicyOf(q) = None THEN Failure("no_policy")
    ELSE [tool |-> "get_required_tags", policy |-> PolicyOf(q)]

Live(op, q) ==
    CASE op = "check_tag_compliance" -> Checked(q)
      [] op = "find_untagged_resources" -> FoundUntagged(q)
      [] op = "list_tag_keys_in_use" -> {KeysInUse}
      [] op = "get_required_tags" -> {RequiredTags(q)}

-----------------------------------------------------------------------------
(* The snapshot *)

\* _snapshot_lookup: what of a request goes live.
ForcesLive(op, q) ==
    \/ q.refresh
    \/ op \in {"get_required_tags", "check_tag_compliance"} /\ q.required # None
    \/ op \in {"check_tag_compliance", "find_untagged_resources"} /\
            (q.types # None \/ q.regions # None)
    \/ op = "check_tag_compliance" /\ (q.aws \/ q.system)

\* The details of a stored answer are cut again for the caller.
Cut(response, max) ==
    IF response.tool \in {"check_tag_compliance", "find_untagged_resources"}
    THEN {[response EXCEPT !.rows = rows, !.cut = @ \/ rows # response.rows] :
            rows \in AtMost(max, response.rows)}
    ELSE {response}

\* handler of the tool
Call(op, q) ==
    /\ \E response \in IF ForcesLive(op, q) \/ world.cache[op] = None THEN Live(op, q)
                       ELSE Cut(world.cache[op], q.max) :
        answer' = [tool |-> response.tool, op |-> op, request |-> q, reply |-> response]
    /\ UNCHANGED world

\* _shrink_to_fit: details go, counts stay; or an error is stored instead.
Shrunk(response) ==
    {Failure("too_large")} \cup UNION {Cut(response, n) : n \in 0..Cardinality(Resource)}

\* One operation of a sweep of the collector; one that raises stores nothing.
Collect(op) ==
    /\ world.sweeps < MaxSweeps
    /\ \E response \in Live(op, [Plain EXCEPT !.refresh = TRUE]) :
        \E stored \in Shrunk(response) :
            world' = [world EXCEPT !.cache[op] = stored, !.sweeps = @ + 1]
    /\ UNCHANGED answer

\* A bucket is better than another that has fewer resources.
Bigger(buckets, v, w) == buckets[v] > buckets[w]

\* handle_get_remediation_guidance without buckets: a scan of its own, the
\* largest buckets first.
Guide(q, max) ==
    /\ \E check \in Checked(q) :
        IF check.tool = "error"
        THEN answer' = [tool |-> "error", request |-> q, reply |-> check]
        ELSE LET Before(v, w) == Bigger(check.buckets, v, w)
                 Filled == {v \in Violation : check.buckets[v] > 0}
             IN  \E links \in First(max, Filled, Before) :
                    answer' = [tool |-> "links", request |-> q, links |-> links, reply |-> check,
                               dropped |-> Cardinality(Filled) - Cardinality(links)]
    /\ UNCHANGED world

ChangeTag(r, k, value) ==
    /\ world.changes < MaxChanges
    /\ world' = [world EXCEPT !.tags[r][k] = value, !.changes = @ + 1]
    /\ UNCHANGED answer

Next ==
    /\ answer = NoAnswer
    /\ \/ \E r \in Resource, k \in Key, value \in Value : ChangeTag(r, k, value)
       \/ \E op \in Operation : Collect(op)
       \/ \E q \in Request :
            \/ \E op \in Operation : Given(q) \subseteq Parameters(op) /\ Call(op, q)
            \/ /\ Given(q) \subseteq Parameters("check_tag_compliance") \ {"refresh"}
               /\ \E max \in {1, 2} : Guide(q, max)

Spec == Init /\ [][Next]_<<world, answer>>

-----------------------------------------------------------------------------
\* What the request that was answered is about: AWS evaluates what has a tag, in
\* the regions asked for.
Asked ==
    LET q == answer.request
        kept == Matching(q) \ (IF q.system THEN {} ELSE SystemManaged)
    IN  IF q.aws THEN {r \in kept \ GlobalResource :
                        /\ r \in (IF q.regions = None THEN HomeResource ELSE q.regions)
                        /\ \E k \in Key : answer.reply.of[r][k] # "none"}
        ELSE kept

Breaks(r, v) ==
    \/ v[2] = "missing_tag" /\ answer.reply.of[r][v[1]] = "none"
    \/ v[2] = "invalid_value" /\ answer.reply.strict /\ answer.reply.of[r][v[1]] = "other"

\* An answer that does not say it was limited counts every violation there was
\* when it was made, of the policy and the resources this caller asked about (with
\* AWS's evaluation: those with a tag), however few details are left of it and
\* whether it is stored or live; a list of untagged resources has them all if it
\* says neither that it was limited nor cut and its search returned fewer than the
\* caller's limit; the links repair the largest buckets, and none means there is
\* nothing to repair.
TagAnswersHold ==
    /\ answer.tool = "check_tag_compliance" =>
        /\ answer.request.required # None /\ ~answer.request.aws =>
                answer.reply.policy = answer.request.required
        /\ ~answer.reply.limited /\ ~answer.reply.failed =>
              /\ \A v \in Violation : v[1] \in answer.reply.policy =>
                    answer.reply.buckets[v] = Cardinality({r \in Asked : Breaks(r, v)})
              /\ answer.reply.bad = 0 <=> \A r \in Asked : \A v \in Violation : v[1] \in answer.reply.policy => ~Breaks(r, v)
              /\ answer.reply.cut \/ Cardinality(answer.reply.rows) = answer.reply.bad
    /\ answer.tool = "find_untagged_resources" =>
        /\ answer.reply.rows \subseteq Matching(answer.request)
        /\ /\ ~answer.reply.limited /\ ~answer.reply.cut
           /\ answer.request.limit = None \/ answer.reply.raw < answer.request.limit
           => \A r \in Wanted(answer.request) :
                (\A k \in Key : answer.reply.of[r][k] = "none") => r \in answer.reply.rows
    /\ answer.tool = "links" =>
        /\ \A v \in answer.links, w \in Violation \ answer.links :
                answer.reply.buckets[v] >= answer.reply.buckets[w]
        /\ answer.links = {} => answer.reply.bad = 0

\* "Summary counts are always complete" (tools.json:1758): a count that says neither
\* that it was limited nor that a region failed is not zero when a resource of the
\* home region lacks a required tag (global ones apart, which have a note).
SummaryIsComplete ==
    answer.tool = "check_tag_compliance" /\ ~answer.reply.limited /\ ~answer.reply.failed =>
        \A r \in Matching(answer.request) \ (SystemManaged \cup GlobalResource) :
            r \in HomeResource /\ (\E k \in answer.reply.policy : Breaks(r, <<k, "missing_tag">>)) =>
                answer.reply.bad > 0

\* "A canonical snapshot cannot honestly answer a filtered question"
\* (handler.py:644): a list of untagged resources has none of an account that was
\* not asked for.
FiltersAreHonoured ==
    answer.tool = "find_untagged_resources" => answer.reply.rows \subseteq Wanted(answer.request)
=============================================================================
