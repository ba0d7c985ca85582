---------------------------- MODULE GraphGateway ----------------------------
(***************************************************************************)
(* GraphVault's graphql-gateway: one POST /graphql request at a time per   *)
(* copy of this state (requests share nothing).  The planner groups the    *)
(* query's top-level fields by the subgraph that owns them, the controller *)
(* starts one future per group on virtual threads and joins them in order, *)
(* the client turns every reply or exception into a result, the merger     *)
(* combines the results.                                                   *)
(*                                                                         *)
(* The value of a field is the field's own name: enough to see whether an  *)
(* answer is the answer to what was asked.  A query is the sequence of its *)
(* top-level selections; <<>> is a text without an operation, which does   *)
(* not parse (a GraphQL operation selects at least one field).             *)
(***************************************************************************)
EXTENDS Naturals, Sequences, FiniteSets

CONSTANTS
  ResponseKeys,  \* what a field is called in the answer: its alias, or its name
  Fields,        \* top-level field names, and what a fragment has instead
  Subgraphs,     \* subgraph names
  Owner,         \* graphvault.field-owners: subgraph by field name
  HasUrl,        \* the subgraphs graphvault.subgraphs has a URL for
  Queries,       \* the queries clients send
  ReplyKinds,    \* how subgraphs may answer
  Null           \* GraphQL's null, and Java's

Selection == [key : ResponseKeys, field : Fields]
Data == UNION {[K -> Fields \cup {Null}] : K \in SUBSET ResponseKeys}

ASSUME GraphGatewayAssumption ==
  /\ DOMAIN Owner \subseteq Fields
  /\ \A f \in DOMAIN Owner : Owner[f] \in Subgraphs
  /\ HasUrl \subseteq Subgraphs
  /\ Queries \subseteq Seq(Selection)
  /\ ReplyKinds \subseteq {"fields", "noData", "nullData", "empty", "refused"}
  /\ Null \notin Fields \cup Data

VARIABLES
  phase,    \* where the request thread is
  query,    \* the query it serves
  grouped,  \* how many of its selections the planner has looked at
  groups,   \* selections by subgraph, in the order of the LinkedHashMap
  futures,  \* futures[i]: the call for groups[i], once it is submitted,
            \* with what the subgraph answered and the result made of it
  joined,   \* how many futures have been joined
  response  \* the answer the client got, or Null

vars == <<phase, query, grouped, groups, futures, joined, response>>

Result == [data : Data \cup {Null}, failed : BOOLEAN]
Reply == [kind : ReplyKinds, nulls : SUBSET ResponseKeys]
Queued == [state |-> "queued", reply |-> Null, result |-> Null]
Slots == 1..Cardinality(Subgraphs)
Response == [status : {200, 400, 500}, data : Data, errors : SUBSET Subgraphs]

(* Every variable stays in its range; no future without a group. *)
TypeOK ==
  /\ phase \in {"idle", "plan", "fanOut", "fanIn", "answered"}
  /\ query \in Queries \cup {<<>>}
  /\ grouped \in 0..Len(query)
  /\ groups \in Seq([subgraph : Subgraphs, selections : Seq(Selection)])
  /\ futures \in Seq([state : {"queued", "sent", "done"}, reply : Reply \cup {Null},
                      result : Result \cup {Null}])
  /\ Len(futures) <= Len(groups)
  /\ joined \in 0..Len(futures)
  /\ response \in Response \cup {Null}

Init ==
  /\ phase = "idle"
  /\ query = <<>>
  /\ grouped = 0
  /\ groups = <<>>
  /\ futures = <<>>
  /\ joined = 0
  /\ response = Null

Keys(g) == {g.selections[i].key : i \in DOMAIN g.selections}
FieldsAt(g, k) == {g.selections[i].field : i \in {j \in DOMAIN g.selections :
                                                    g.selections[j].key = k}}

-----------------------------------------------------------------------------
(* GatewayController.handle, first half, and QueryPlanner.plan.            *)

Handle(q) ==
  /\ phase \in {"idle", "answered"}
  /\ phase' = "plan"
  /\ query' = q
  /\ grouped' = 0
  /\ groups' = <<>>
  /\ futures' = <<>>
  /\ joined' = 0
  /\ response' = Null

(* Any exception of the planner: 400, and nothing is called. *)
Reject ==
  /\ phase' = "answered"
  /\ response' = [status |-> 400, data |-> <<>>, errors |-> {}]
  /\ UNCHANGED <<query, grouped, groups, futures, joined>>

NextSelection == query[grouped + 1]

(* A fault against PlanMatchesQuery: only the last group is looked at, so  *)
(* a subgraph that comes up again gets a second call.                      *)
GroupsOf_Last(s) == {i \in DOMAIN groups : i = Len(groups) /\ groups[i].subgraph = s}

GroupsOf(s) == {i \in DOMAIN groups : groups[i].subgraph = s}

(* One round of the planner's loop: computeIfAbsent(...).add(field). *)
GroupSelection ==
  /\ phase = "plan"
  /\ grouped < Len(query)
  /\ NextSelection.field \in DOMAIN Owner
  /\ LET s == Owner[NextSelection.field]
     IN  groups' = IF GroupsOf(s) = {}
                   THEN Append(groups, [subgraph |-> s, selections |-> <<NextSelection>>])
                   ELSE [i \in DOMAIN groups |->
                           IF i \in GroupsOf(s)
                           THEN [groups[i] EXCEPT !.selections = Append(@, NextSelection)]
                           ELSE groups[i]]
  /\ grouped' = grouped + 1
  /\ UNCHANGED <<phase, query, futures, joined, response>>

(* No operation, a fragment, a field nobody owns, a subgraph without URL. *)
PlanFails ==
  /\ phase = "plan"
  /\ \/ query = <<>>
     \/ grouped < Len(query) /\ NextSelection.field \notin DOMAIN Owner
     \/ grouped = Len(query) /\ \E i \in DOMAIN groups : groups[i].subgraph \notin HasUrl
  /\ Reject

PlanReady ==
  /\ phase = "plan"
  /\ query # <<>>
  /\ grouped = Len(query)
  /\ \A i \in DOMAIN groups : groups[i].subgraph \in HasUrl
  /\ phase' = "fanOut"
  /\ UNCHANGED <<query, grouped, groups, futures, joined, response>>

-----------------------------------------------------------------------------
(* Fan out: all futures are created before any of them is joined.          *)

(* A fault against CallsOverlap: map and join in one lazy stream. *)
Submit_Lazy ==
  /\ phase = "fanOut"
  /\ Len(futures) < Len(groups)
  /\ \A i \in DOMAIN futures : futures[i].state = "done"
  /\ futures' = Append(futures, Queued)
  /\ UNCHANGED <<phase, query, grouped, groups, joined, response>>

(* A fault against TypeOK: one call more than there are groups. *)
Submit_OffByOne ==
  /\ phase = "fanOut"
  /\ Len(futures) <= Len(groups)
  /\ futures' = Append(futures, Queued)
  /\ UNCHANGED <<phase, query, grouped, groups, joined, response>>

Submit ==
  /\ phase = "fanOut"
  /\ Len(futures) < Len(groups)
  /\ futures' = Append(futures, Queued)
  /\ UNCHANGED <<phase, query, grouped, groups, joined, response>>

AllSubmitted ==
  /\ phase = "fanOut"
  /\ Len(futures) = Len(groups)
  /\ phase' = "fanIn"
  /\ UNCHANGED <<query, grouped, groups, futures, joined, response>>

-----------------------------------------------------------------------------
(* SubgraphClient.execute, on its own virtual thread.                      *)

Send(i) ==
  /\ i \in DOMAIN futures
  /\ futures[i].state = "queued"
  /\ futures' = [futures EXCEPT ![i].state = "sent"]
  /\ UNCHANGED <<phase, query, grouped, groups, joined, response>>

(* What a subgraph may send back for a group: the fields, some of them     *)
(* null with an error; errors without data, as for any group it does not   *)
(* validate, one with two fields under one key for example; data that is   *)
(* null; no body; or no usable reply at all.                               *)
Valid(g) == \A k \in Keys(g) : Cardinality(FieldsAt(g, k)) = 1
Replies(g) ==
  LET kinds == IF Valid(g) THEN ReplyKinds ELSE ReplyKinds \ {"fields", "nullData"}
  IN  [kind : kinds \ {"fields"}, nulls : {{}}]
        \cup [kind : kinds \cap {"fields"}, nulls : SUBSET Keys(g)]

Failed == [data |-> <<>>, failed |-> TRUE]

(* A fault against SurvivorsReported: any error discards the whole reply.  *)
ResultOf_AllOrNothing(g, reply) ==
  IF reply.kind = "fields" /\ reply.nulls = {}
  THEN [data |-> [k \in Keys(g) |-> CHOOSE f \in FieldsAt(g, k) : TRUE], failed |-> FALSE]
  ELSE Failed

(* getOrDefault keeps a null that is there; any exception is a failure. *)
ResultOf(g, reply) ==
  CASE reply.kind = "fields" ->
         [data |-> [k \in Keys(g) |->
                      IF k \in reply.nulls THEN Null ELSE CHOOSE f \in FieldsAt(g, k) : TRUE],
          failed |-> reply.nulls # {}]
    [] reply.kind = "nullData" -> [data |-> Null, failed |-> TRUE]
    [] OTHER -> Failed

Complete(i) ==
  /\ i \in DOMAIN futures
  /\ futures[i].state = "sent"
  /\ \E reply \in Replies(groups[i]) :
       futures' = [futures EXCEPT ![i] = [state |-> "done", reply |-> reply,
                                          result |-> ResultOf(groups[i], reply)]]
  /\ UNCHANGED <<phase, query, grouped, groups, joined, response>>

-----------------------------------------------------------------------------
(* Fan in, and ResponseMerger.merge.                                       *)

Join ==
  /\ phase = "fanIn"
  /\ joined < Len(futures)
  /\ futures[joined + 1].state = "done"
  /\ joined' = joined + 1
  /\ UNCHANGED <<phase, query, grouped, groups, futures, response>>

AllJoined == joined = Len(futures)

ResultAt(i) == futures[i].result

(* putAll after putAll: of two results with the same key the later stays.  *)
MergedData ==
  LET with(k) == {i \in DOMAIN futures : k \in DOMAIN ResultAt(i).data}
      last(k) == CHOOSE i \in with(k) : \A j \in with(k) : j <= i
  IN  [k \in UNION {DOMAIN ResultAt(i).data : i \in DOMAIN futures} |->
         ResultAt(last(k)).data[k]]

(* A fault against AnsweredOrExplained: errors only when there is no data. *)
MergedErrors_NoData ==
  {groups[i].subgraph : i \in {j \in DOMAIN futures : ResultAt(j).failed /\ ResultAt(j).data = <<>>}}

MergedErrors ==
  {groups[i].subgraph : i \in {j \in DOMAIN futures : ResultAt(j).failed}}

(* putAll(null) throws, and nothing above catches it. *)
Merged ==
  IF \E i \in DOMAIN futures : ResultAt(i).data = Null
  THEN [status |-> 500, data |-> <<>>, errors |-> {}]
  ELSE [status |-> 200, data |-> MergedData, errors |-> MergedErrors]

Merge ==
  /\ phase = "fanIn"
  /\ AllJoined
  /\ phase' = "answered"
  /\ response' = Merged
  /\ UNCHANGED <<query, grouped, groups, futures, joined>>

-----------------------------------------------------------------------------
RequestStep ==
  \/ GroupSelection \/ PlanFails \/ PlanReady
  \/ Submit \/ AllSubmitted \/ Join \/ Merge

Next ==
  \/ \E q \in Queries : Handle(q)
  \/ RequestStep
  \/ \E i \in Slots : Send(i) \/ Complete(i)

Spec == Init /\ [][Next]_vars

-----------------------------------------------------------------------------
(* Properties.                                                             *)

OwnerOf(sel) == Owner[sel.field]
Asked == {query[i] : i \in DOMAIN query}

(* The planner's loop is grouping by owner: each subgraph gets one group,  *)
(* in the order of first use, with its own selections in query order.  No  *)
(* call is made unless all fields have owners and all owners have URLs.    *)
FirstUse(s) == CHOOSE i \in DOMAIN query :
  OwnerOf(query[i]) = s /\ \A j \in DOMAIN query : OwnerOf(query[j]) = s => i <= j
Picks(selections, q, positions) ==
  \E at \in [DOMAIN selections -> positions] :
    /\ positions = {at[n] : n \in DOMAIN selections}
    /\ \A m, n \in DOMAIN selections : m < n => at[m] < at[n]
    /\ \A n \in DOMAIN selections : selections[n] = q[at[n]]
PlanMatchesQuery ==
  phase \in {"fanOut", "fanIn"} =>
    /\ \A sel \in Asked : sel.field \in DOMAIN Owner /\ OwnerOf(sel) \in HasUrl
    /\ {groups[i].subgraph : i \in DOMAIN groups} = {OwnerOf(sel) : sel \in Asked}
    /\ \A i, j \in DOMAIN groups :
         i < j => FirstUse(groups[i].subgraph) < FirstUse(groups[j].subgraph)
    /\ \A i \in DOMAIN groups :
         Picks(groups[i].selections, query,
               {n \in DOMAIN query : OwnerOf(query[n]) = groups[i].subgraph})

Answered == phase = "answered" /\ response.status = 200

(* An answer leaves no field in silence: each one has the value it asked   *)
(* for, or its subgraph is among the errors; nothing else is in the data.  *)
AnsweredOrExplained ==
  Answered =>
    /\ DOMAIN response.data \subseteq {sel.key : sel \in Asked}
    /\ \A sel \in Asked :
         \/ sel.key \in DOMAIN response.data /\ response.data[sel.key] = sel.field
         \/ /\ OwnerOf(sel) \in response.errors
            /\ sel.key \in DOMAIN response.data => response.data[sel.key] = Null

(* "one subgraph failing doesn't stop the others' results from making it   *)
(* into the final merged response" (SubgraphClient.java:50-54): what any   *)
(* subgraph sent, beside errors of its own or of others, is in the answer. *)
SurvivorsReported ==
  phase = "answered" =>
    \A i \in DOMAIN futures : futures[i].reply.kind = "fields" =>
      \A k \in Keys(groups[i]) \ futures[i].reply.nulls :
        k \in DOMAIN response.data /\ response.data[k] \in FieldsAt(groups[i], k)

(* Every subgraph of a plan is called, even while another one hangs: the   *)
(* calls overlap, so the request takes as long as its slowest call and not *)
(* as long as all of them together (GatewayController.java:59-67).         *)
CallsOverlap ==
  \A i \in Slots :
    phase = "fanOut" /\ i <= Len(groups) ~> i \in DOMAIN futures /\ futures[i].state # "queued"
=============================================================================
