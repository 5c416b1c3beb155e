------------------------------ MODULE MemStore ------------------------------
(***************************************************************************)
(* The in-memory backend: what the storage traits promise, each operation  *)
(* one step on hash maps.  A HashMap is a function whose domain is the     *)
(* set of its keys.  SqlStore is shown to implement this module.           *)
(*                                                                         *)
(* The operations are called as the use cases call them with no other      *)
(* request in between: on live ids, a merge with the lesser guid first.    *)
(***************************************************************************)
EXTENDS Redirects, Sequences

CONSTANTS
  Aliases,    (* external ids, (scheme, value) pairs                       *)
  Kinds,      (* node kinds; "work" is one                                 *)
  Sources,    (* provider names, as numbers in their sort order            *)
  Relations,  (* edge relations, as numbers in their sort order            *)
  Stamps,     (* fetched_at times; the row's attrs are known by it         *)
  Roles,      (* artifact roles, as numbers in their sort order            *)
  Started,    (* the nodes, works all, that are there at the start         *)
  MaxCalls    (* bound: operations in a behaviour                          *)

VARIABLES
  nodes,            (* id -> [kind, merged_into]                           *)
  aliases,          (* alias -> id                                         *)
  node_assertions,  (* <<id, source>> -> stamp                             *)
  edges,            (* <<src, dst, relation>> -> (source -> stamp)         *)
  artifacts,        (* <<id, role>> -> rows [version, current, key]; the   *)
                    (* order of the Vec shows in no answer                 *)
  calls             (* counter of the bound                                *)

tables == <<nodes, aliases, node_assertions, edges, artifacts>>
vars == <<nodes, aliases, node_assertions, edges, artifacts, calls>>

Empty == [x \in {} |-> x]
With(f, k, v) == [x \in DOMAIN f \union {k} |-> IF x = k THEN v ELSE f[x]]
Keep(f, K) == [x \in DOMAIN f \intersect K |-> f[x]]

Redirect == [n \in Ids |-> IF n \in DOMAIN nodes THEN nodes[n].merged_into ELSE NoId]
LiveNodes == {n \in DOMAIN nodes : nodes[n].merged_into = NoId}
Network(n) == NetworkOf(Redirect, DOMAIN nodes, n)
------------------------------------------------------------------------------
(* entry(id).or_insert_with(..) *)
CreateNode(n, k) ==
  /\ nodes' = IF n \in DOMAIN nodes THEN nodes
              ELSE With(nodes, n, [kind |-> k, merged_into |-> NoId])
  /\ UNCHANGED <<aliases, node_assertions, edges, artifacts>>

GetOrCreateAlias(a, n) ==
  /\ aliases' = IF a \in DOMAIN aliases THEN aliases ELSE With(aliases, a, n)
  /\ UNCHANGED <<nodes, node_assertions, edges, artifacts>>

UpsertNodeAssertion(n, s, t) ==
  /\ node_assertions' = With(node_assertions, <<n, s>>, t)
  /\ UNCHANGED <<nodes, aliases, edges, artifacts>>

PutEdge(x, y, r, s, t) ==
  /\ edges' = LET old == IF <<x, y, r>> \in DOMAIN edges THEN edges[<<x, y, r>>] ELSE Empty
              IN With(edges, <<x, y, r>>, With(old, s, t))
  /\ UNCHANGED <<nodes, aliases, node_assertions, artifacts>>

(* resolve_live_sync: every redirect it walked now points at the root. *)
ResolveLive(n) ==
  /\ n \in DOMAIN nodes
  /\ nodes' = [x \in DOMAIN nodes |->
                 [nodes[x] EXCEPT !.merged_into = Compressed(Redirect, n)[x]]]
  /\ UNCHANGED <<aliases, node_assertions, edges, artifacts>>

Demoted(rows) == {[a EXCEPT !.current = FALSE] : a \in rows}
RowsOf(n, role) ==
  IF <<n, role>> \in DOMAIN artifacts THEN artifacts[<<n, role>>] ELSE {}

(* record: a new current row takes the flag from all others. *)
Record(n, role, v) ==
  /\ artifacts' = With(artifacts, <<n, role>>,
       Demoted(RowsOf(n, role))
         \union {[version |-> v, current |-> TRUE, key |-> <<n, role, v>>]})
  /\ UNCHANGED <<nodes, aliases, node_assertions, edges>>

DeleteWorkNetwork(n) ==
  LET out == DOMAIN nodes \ Network(n) IN
  /\ nodes' = Keep(nodes, out)
  /\ aliases' = Keep(aliases, {a \in DOMAIN aliases : aliases[a] \in out})
  /\ node_assertions' = Keep(node_assertions, out \X Sources)
  /\ edges' = Keep(edges, out \X out \X Relations)
  /\ artifacts' = Keep(artifacts, out \X Roles)
------------------------------------------------------------------------------
(* merge(survivor, loser) *)
Repoint(x, s, l) == IF x = l THEN s ELSE x

(* Of the rows that meet under one key, the newest stays: a HashMap is     *)
(* folded in any order, and only a strictly newer row replaces another.    *)
AssertionsMerged(s, l) ==
  LET key(k) == <<Repoint(k[1], s, l), k[2]>>
  IN [k \in {key(j) : j \in DOMAIN node_assertions} |->
        LET met == {j \in DOMAIN node_assertions : key(j) = k}
        IN node_assertions[CHOOSE j \in met :
             \A i \in met : node_assertions[i] <= node_assertions[j]]]

EdgesMerged(s, l) ==
  LET key(e) == <<Repoint(e[1], s, l), Repoint(e[2], s, l), e[3]>>
  IN [k \in {key(e) : e \in DOMAIN edges} |->
        LET met == {e \in DOMAIN edges : key(e) = k}
        IN [p \in UNION {DOMAIN edges[e] : e \in met} |->
              LET by == {e \in met : p \in DOMAIN edges[e]}
              IN edges[CHOOSE e \in by : \A d \in by : edges[d][p] <= edges[e][p]][p]]]

(* The loser's versions follow the survivor's, with no current one among   *)
(* them if the survivor has one.  Numbers are not compared.                *)
ArtifactsMerged(s, l) ==
  [k \in {<<Repoint(j[1], s, l), j[2]>> : j \in DOMAIN artifacts} |->
     IF k[1] # s THEN artifacts[k]
     ELSE RowsOf(s, k[2]) \union
            IF \E a \in RowsOf(s, k[2]) : a.current THEN Demoted(RowsOf(l, k[2]))
            ELSE RowsOf(l, k[2])]

Merge(s, l) ==
  /\ nodes' = IF l \in DOMAIN nodes THEN [nodes EXCEPT ![l].merged_into = s] ELSE nodes
  /\ aliases' = [a \in DOMAIN aliases |-> Repoint(aliases[a], s, l)]
  /\ node_assertions' = AssertionsMerged(s, l)
  /\ edges' = EdgesMerged(s, l)
  /\ artifacts' = ArtifactsMerged(s, l)
------------------------------------------------------------------------------
(* The reads. *)

(* max over the versions, then one more. *)
NextVersion(n, role) ==
  LET V == {a.version : a \in RowsOf(n, role)}
  IN IF V = {} THEN 1 ELSE 1 + CHOOSE v \in V : \A w \in V : w <= v

CurrentArtifact(n, role) == {a \in RowsOf(n, role) : a.current}
ListArtifacts(n, all) ==
  UNION {{<<r, a>> : a \in {b \in RowsOf(n, r) : all \/ b.current}} : r \in Roles}

(* None for a missing node and for a redirect. *)
ReadNode(n) ==
  IF n \notin LiveNodes THEN {}
  ELSE {[kind |-> nodes[n].kind,
         assertions |-> {<<k[2], node_assertions[k]>> :
                           k \in {j \in DOMAIN node_assertions : j[1] = n}},
         aliases |-> {a \in DOMAIN aliases : aliases[a] = n}]}

PresentAliases(A) == A \intersect DOMAIN aliases

PlanDelete(n) ==
  LET net == Network(n)
      owned == {k \in DOMAIN artifacts : k[1] \in net}
  IN [network |-> net,
      alias_count |-> Cardinality({a \in DOMAIN aliases : aliases[a] \in net}),
      edge_count |-> Cardinality({e \in DOMAIN edges : e[1] \in net \/ e[2] \in net}),
      r2_keys |-> UNION {{a.key : a \in artifacts[k]} : k \in owned}]

(* Counts of the live, of what they are described by, and of the rest. *)
Stats ==
  LET works == {n \in LiveNodes : nodes[n].kind = "work"}
      described == {n \in works : \E k \in DOMAIN node_assertions : k[1] = n}
  IN [works |-> Cardinality(works),
      works_described |-> Cardinality(described),
      works_stub |-> Cardinality(works) - Cardinality(described),
      nodes_total |-> Cardinality(LiveNodes),
      merge_redirects |-> Cardinality(DOMAIN nodes \ LiveNodes),
      edges_total |-> Cardinality(DOMAIN edges),
      nodes_by_kind |-> [k \in {nodes[n].kind : n \in LiveNodes} |->
                           Cardinality({n \in LiveNodes : nodes[n].kind = k})],
      edges_by_relation |-> [r \in {e[3] : e \in DOMAIN edges} |->
                               Cardinality({e \in DOMAIN edges : e[3] = r})],
      assertions_by_source |-> [p \in {k[2] : k \in DOMAIN node_assertions} |->
                                  Cardinality({k \in DOMAIN node_assertions : k[2] = p})]]

Before(j, k) == \E i \in DOMAIN j : (\A h \in 1 .. i - 1 : j[h] = k[h]) /\ j[i] < k[i]

(* The first limit keys after the cursor (<<>>: from the start), and the   *)
(* cursor of the next page (<<>>: there is none).                          *)
Page(keys, cursor, limit) ==
  LET after == {k \in keys : cursor = <<>> \/ Before(cursor, k)}
      page == {k \in after : Cardinality({j \in after : Before(j, k)}) < limit}
  IN [keys |-> page,
      next |-> IF page = after THEN <<>>
               ELSE CHOOSE k \in page : \A j \in page : j = k \/ Before(j, k)]

ExportNodes(cursor, limit) ==
  LET p == Page({<<n>> : n \in LiveNodes}, cursor, limit)
  IN [rows |-> {<<k, ReadNode(k[1])>> : k \in p.keys}, next |-> p.next]

ExportEdges(cursor, limit) ==
  LET key(e, s) == e \o <<s>>
      p == Page(UNION {{key(e, s) : s \in DOMAIN edges[e]} : e \in DOMAIN edges}, cursor, limit)
  IN [rows |-> {<<k, edges[SubSeq(k, 1, 3)][k[4]]>> : k \in p.keys}, next |-> p.next]

ExportArtifacts(cursor, limit) ==
  LET p == Page({k \in DOMAIN artifacts : CurrentArtifact(k[1], k[2]) # {}}, cursor, limit)
  IN [rows |-> {<<k, CurrentArtifact(k[1], k[2])>> : k \in p.keys}, next |-> p.next]
------------------------------------------------------------------------------
Init ==
  /\ nodes = [n \in Started |-> [kind |-> "work", merged_into |-> NoId]]
  /\ aliases = Empty /\ node_assertions = Empty
  /\ edges = Empty /\ artifacts = Empty /\ calls = 0

Operation ==
  \/ \E n \in Ids \ DOMAIN nodes, k \in Kinds : CreateNode(n, k)
  \/ \E n \in DOMAIN nodes : ResolveLive(n)
  \/ \E n \in LiveNodes :
       \/ \E a \in Aliases : GetOrCreateAlias(a, n)
       \/ \E p \in Sources, t \in Stamps : UpsertNodeAssertion(n, p, t)
       \/ \E role \in Roles : Record(n, role, NextVersion(n, role))
       \/ DeleteWorkNetwork(n)
       \/ \E m \in LiveNodes :
            \/ \E r \in Relations, p \in Sources, t \in Stamps : PutEdge(n, m, r, p, t)
            \/ n < m /\ Merge(n, m)

(* The bound is spent. *)
Done == calls = MaxCalls /\ UNCHANGED vars

Next ==
  \/ calls < MaxCalls /\ calls' = calls + 1 /\ Operation
  \/ Done

Spec == Init /\ [][Next]_vars
==============================================================================
