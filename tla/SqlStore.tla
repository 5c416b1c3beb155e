------------------------------ MODULE SqlStore ------------------------------
(***************************************************************************)
(* The SQL backends, statement by statement: each operation of the storage *)
(* traits is a list of the sql crate's statements, run on a working copy   *)
(* that becomes the database when all have succeeded (COMMIT, or the end   *)
(* of a D1 batch) and is dropped when one fails or the process ends.       *)
(*                                                                         *)
(* Two engines run the same statements: store-sqlite opens its database    *)
(* with foreign_keys=OFF, D1 enforces the REFERENCES of 0002_graph.sql     *)
(* after every statement.  What SQLite runs outside a transaction          *)
(* (put_edge, record, path compression) is not cut short here: Catalog and *)
(* Library have those steps.                                               *)
(***************************************************************************)
EXTENDS Redirects, Sequences, SequencesExt

CONSTANTS Aliases, Kinds, Sources, Relations, Stamps, Roles, Started, MaxCalls,
  Engines   (* which backends to run: "sqlite", "d1"                       *)

ASSUME StoreAssumption ==
  /\ Started \subseteq Ids /\ MaxCalls \in Nat
  /\ "work" \in Kinds
  /\ Engines \subseteq {"sqlite", "d1"}
  /\ \A S \in {Stamps, Sources, Relations, Roles} : S \subseteq Nat

VARIABLES
  engine,    (* the backend of this behaviour                              *)
  db,        (* the committed tables                                       *)
  txn,       (* the operation that is under way, with its working copy     *)
  failed,    (* the operations of which a statement has failed             *)
  calls      (* operations committed                                       *)

vars == <<engine, db, txn, failed, calls>>

Enforced == engine = "d1"

(* Tables: node and alias by their primary key, the others as sets of rows. *)
(* Of them lost is a history: the rows that a merge did not take over       *)
(* because the survivor had one of that version.                            *)
Node == [kind : Kinds, merged_into : Ids \union {NoId}]
NodeAssertion == [node : Ids, source : Sources, at : Stamps]
Edge == Ids \X Ids \X Relations
EdgeAssertion == [edge : Edge, source : Sources, at : Stamps]
Artifact == [node : Ids, role : Roles, version : 1 .. MaxCalls, current : BOOLEAN,
             key : Ids \X Roles \X (1 .. MaxCalls)]

Tables(d) ==
  /\ DOMAIN d = {"node", "alias", "node_assertion", "edge", "edge_assertion", "artifacts", "lost"}
  /\ DOMAIN d.node \subseteq Ids /\ d.node \in [DOMAIN d.node -> Node]
  /\ DOMAIN d.alias \subseteq Aliases /\ d.alias \in [DOMAIN d.alias -> Ids]
  /\ d.node_assertion \subseteq NodeAssertion
  /\ d.edge \subseteq Edge
  /\ d.edge_assertion \subseteq EdgeAssertion
  /\ d.artifacts \union d.lost \subseteq Artifact

(* The REFERENCES clauses: none of them is deferrable. *)
ForeignKeys(d) ==
  /\ \A n \in DOMAIN d.node :
       d.node[n].merged_into # NoId => d.node[n].merged_into \in DOMAIN d.node
  /\ \A a \in DOMAIN d.alias : d.alias[a] \in DOMAIN d.node
  /\ \A r \in d.node_assertion : r.node \in DOMAIN d.node
  /\ \A e \in d.edge : e[1] \in DOMAIN d.node /\ e[2] \in DOMAIN d.node
  /\ \A r \in d.edge_assertion : r.edge \in d.edge

Redirect(d) == [n \in Ids |-> IF n \in DOMAIN d.node THEN d.node[n].merged_into ELSE NoId]
LiveNodes == {n \in DOMAIN db.node : db.node[n].merged_into = NoId}
------------------------------------------------------------------------------
(* The statements.                                                         *)

With(f, k, v) == [x \in DOMAIN f \union {k} |-> IF x = k THEN v ELSE f[x]]
Without(f, K) == [x \in DOMAIN f \ K |-> f[x]]

(* ON CONFLICT .. DO UPDATE .. WHERE excluded.fetched_at > the row's. *)
Upserted(rows, new, key(_)) ==
  {r \in rows : \A q \in new : key(q) = key(r) => q.at <= r.at}
    \union {q \in new : \A r \in rows : key(q) = key(r) => q.at > r.at}

(* ON CONFLICT .. DO UPDATE: whatever was there goes. *)
Replaced(rows, new, key(_)) == {r \in rows : key(r) # key(new)} \union {new}

NodeKey(r) == <<r.node, r.source>>
EdgeKey(r) == <<r.edge, r.source>>
ArtifactKey(a) == <<a.node, a.role, a.version>>

(* The edge e with its first (second) end moved to s. *)
SrcMoved(e, s) == <<s, e[2], e[3]>>
DstMoved(e, s) == <<e[1], s, e[3]>>

NodeInsert(d, n, k) ==
  IF n \in DOMAIN d.node THEN d
  ELSE [d EXCEPT !.node = With(@, n, [kind |-> k, merged_into |-> NoId])]
AliasInsert(d, a, n) ==
  IF a \in DOMAIN d.alias THEN d ELSE [d EXCEPT !.alias = With(@, a, n)]
NodeAssertionUpsert(d, row) == [d EXCEPT !.node_assertion = Replaced(@, row, NodeKey)]
EdgeInsert(d, e) == [d EXCEPT !.edge = @ \union {e}]
EdgeAssertionUpsert(d, row) == [d EXCEPT !.edge_assertion = Replaced(@, row, EdgeKey)]

(* FLIP_CURRENT_OFF and INSERT *)
FlipCurrentOff(d, n, role) ==
  [d EXCEPT !.artifacts =
     {IF a.node = n /\ a.role = role THEN [a EXCEPT !.current = FALSE] ELSE a : a \in @}]
ArtifactInsert(d, row) == [d EXCEPT !.artifacts = @ \union {row}]

(* merge, s the survivor and l the loser *)
MergeRedirect(d, s, l) ==
  [d EXCEPT !.node = [n \in DOMAIN @ |->
     IF n = l THEN [d.node[n] EXCEPT !.merged_into = s] ELSE d.node[n]]]
AliasRepoint(d, s, l) ==
  [d EXCEPT !.alias = [a \in DOMAIN @ |-> IF d.alias[a] = l THEN s ELSE d.alias[a]]]

(* The rows of l, moved to s. *)
RowsMoved(rows, s, l) ==
  {[r EXCEPT !.node = s] : r \in {q \in rows : q.node = l}}
EdgeAssertionsSrcMoved(rows, s, l) ==
  {[r EXCEPT !.edge = SrcMoved(r.edge, s)] : r \in {q \in rows : q.edge[1] = l}}
EdgeAssertionsDstMoved(rows, s, l) ==
  {[r EXCEPT !.edge = DstMoved(r.edge, s)] : r \in {q \in rows : q.edge[2] = l}}

(* Mutant: an INSERT that knows no conflict. *)
NaInsert(d, s, l) ==
  [d EXCEPT !.node_assertion = @ \union RowsMoved(@, s, l)]

NaUpsert(d, s, l) ==
  [d EXCEPT !.node_assertion = Upserted(@, RowsMoved(@, s, l), NodeKey)]
NaDeleteLoser(d, s, l) == [d EXCEPT !.node_assertion = {r \in @ : r.node # l}]
EaSrcUpsert(d, s, l) ==
  [d EXCEPT !.edge_assertion = Upserted(@, EdgeAssertionsSrcMoved(@, s, l), EdgeKey)]
EaSrcDeleteLoser(d, s, l) == [d EXCEPT !.edge_assertion = {r \in @ : r.edge[1] # l}]
EdgeSrcDeleteConflicts(d, s, l) ==
  [d EXCEPT !.edge = {e \in @ : e[1] = l => SrcMoved(e, s) \notin d.edge}]
EdgeSrcRepoint(d, s, l) ==
  [d EXCEPT !.edge = {IF e[1] = l THEN SrcMoved(e, s) ELSE e : e \in @}]
EaDstUpsert(d, s, l) ==
  [d EXCEPT !.edge_assertion = Upserted(@, EdgeAssertionsDstMoved(@, s, l), EdgeKey)]
EaDstDeleteLoser(d, s, l) == [d EXCEPT !.edge_assertion = {r \in @ : r.edge[2] # l}]
EdgeDstDeleteConflicts(d, s, l) ==
  [d EXCEPT !.edge = {e \in @ : e[2] = l => DstMoved(e, s) \notin d.edge}]
EdgeDstRepoint(d, s, l) ==
  [d EXCEPT !.edge = {IF e[2] = l THEN DstMoved(e, s) ELSE e : e \in @}]
DemoteLoserCurrent(d, s, l) ==
  [d EXCEPT !.artifacts =
     {IF a.node = l /\ \E b \in d.artifacts : b.node = s /\ b.role = a.role /\ b.current
      THEN [a EXCEPT !.current = FALSE] ELSE a : a \in @}]
(* ON CONFLICT DO NOTHING *)
ArtifactRepoint(d, s, l) ==
  LET moved == RowsMoved(d.artifacts, s, l)
      left == {q \in moved : \E a \in d.artifacts : ArtifactKey(a) = ArtifactKey(q)}
  IN [d EXCEPT !.artifacts = @ \union (moved \ left),
               !.lost = {a \in @ : a.node # l} \union RowsMoved(d.lost, s, l) \union left]
ArtifactDeleteLoser(d, s, l) == [d EXCEPT !.artifacts = {a \in @ : a.node # l}]

(* delete, net the redirect network *)
Cut(net, e) == e[1] \in net \/ e[2] \in net
DeleteEdgeAssertions(d, net) == [d EXCEPT !.edge_assertion = {r \in @ : ~Cut(net, r.edge)}]
DeleteEdges(d, net) == [d EXCEPT !.edge = {e \in @ : ~Cut(net, e)}]
DeleteNodeAssertions(d, net) == [d EXCEPT !.node_assertion = {r \in @ : r.node \notin net}]
DeleteArtifacts(d, net) ==
  [d EXCEPT !.artifacts = {a \in @ : a.node \notin net}, !.lost = {a \in @ : a.node \notin net}]
DeleteAliases(d, net) ==
  [d EXCEPT !.alias = Without(@, {a \in DOMAIN d.alias : d.alias[a] \in net})]
ClearMergedInto(d, net) ==
  [d EXCEPT !.node = [n \in DOMAIN @ |->
     IF n \in net THEN [d.node[n] EXCEPT !.merged_into = NoId] ELSE d.node[n]]]
DeleteNodes(d, net) == [d EXCEPT !.node = Without(@, net)]
------------------------------------------------------------------------------
(* What each operation sends, in order.  The merge's delete of aliases     *)
(* that both nodes have is left out: an alias is the key of one row.       *)

(* Mutant: the loser's assertions are deleted before they are copied. *)
MergeBatchHasty == <<"MERGE_REDIRECT", "ALIAS_REPOINT", "NA_DELETE_LOSER", "NA_UPSERT",
  "EA_SRC_UPSERT", "EA_SRC_DELETE_LOSER", "EDGE_SRC_DELETE_CONFLICTS", "EDGE_SRC_REPOINT",
  "EA_DST_UPSERT", "EA_DST_DELETE_LOSER", "EDGE_DST_DELETE_CONFLICTS", "EDGE_DST_REPOINT",
  "DEMOTE_LOSER_CURRENT", "ARTIFACT_REPOINT", "ARTIFACT_DELETE_LOSER">>

(* Mutant: edges are repointed over those the survivor has. *)
MergeBatchColliding == <<"MERGE_REDIRECT", "ALIAS_REPOINT", "NA_UPSERT", "NA_DELETE_LOSER",
  "EA_SRC_UPSERT", "EA_SRC_DELETE_LOSER", "EDGE_SRC_REPOINT", "EA_DST_UPSERT",
  "EA_DST_DELETE_LOSER", "EDGE_DST_REPOINT", "DEMOTE_LOSER_CURRENT", "ARTIFACT_REPOINT",
  "ARTIFACT_DELETE_LOSER">>

MergeBatch == <<"MERGE_REDIRECT", "ALIAS_REPOINT", "NA_UPSERT", "NA_DELETE_LOSER",
  "EA_SRC_UPSERT", "EA_SRC_DELETE_LOSER", "EDGE_SRC_DELETE_CONFLICTS", "EDGE_SRC_REPOINT",
  "EA_DST_UPSERT", "EA_DST_DELETE_LOSER", "EDGE_DST_DELETE_CONFLICTS", "EDGE_DST_REPOINT",
  "DEMOTE_LOSER_CURRENT", "ARTIFACT_REPOINT", "ARTIFACT_DELETE_LOSER">>

(* Mutant: nodes before the aliases that name them. *)
DeleteBatchNodesFirst == <<"DELETE_EDGE_ASSERTIONS", "DELETE_EDGES", "DELETE_NODE_ASSERTIONS",
  "DELETE_ARTIFACTS", "CLEAR_MERGED_INTO", "DELETE_NODES", "DELETE_ALIASES">>

DeleteBatch == <<"DELETE_EDGE_ASSERTIONS", "DELETE_EDGES", "DELETE_NODE_ASSERTIONS",
  "DELETE_ARTIFACTS", "DELETE_ALIASES", "CLEAR_MERGED_INTO", "DELETE_NODES">>

(* The tables after the statement st of operation o. *)
Effect(o, st, d) ==
  CASE st = "NODE_INSERT"           -> NodeInsert(d, o.n, o.kind)
    [] st = "ALIAS_INSERT"          -> AliasInsert(d, o.alias, o.n)
    [] st = "NODE_ASSERTION_UPSERT" -> NodeAssertionUpsert(d, o.row)
    [] st = "EDGE_INSERT"           -> EdgeInsert(d, o.row.edge)
    [] st = "EDGE_ASSERTION_UPSERT" -> EdgeAssertionUpsert(d, o.row)
    [] st = "FLIP_CURRENT_OFF"      -> FlipCurrentOff(d, o.row.node, o.row.role)
    [] st = "ARTIFACT_INSERT"       -> ArtifactInsert(d, o.row)
    [] st = "MERGE_REDIRECT"        -> MergeRedirect(d, o.s, o.l)
    [] st = "ALIAS_REPOINT"         -> AliasRepoint(d, o.s, o.l)
    [] st = "NA_UPSERT"             -> NaUpsert(d, o.s, o.l)
    [] st = "NA_DELETE_LOSER"       -> NaDeleteLoser(d, o.s, o.l)
    [] st = "EA_SRC_UPSERT"         -> EaSrcUpsert(d, o.s, o.l)
    [] st = "EA_SRC_DELETE_LOSER"   -> EaSrcDeleteLoser(d, o.s, o.l)
    [] st = "EDGE_SRC_DELETE_CONFLICTS" -> EdgeSrcDeleteConflicts(d, o.s, o.l)
    [] st = "EDGE_SRC_REPOINT"      -> EdgeSrcRepoint(d, o.s, o.l)
    [] st = "EA_DST_UPSERT"         -> EaDstUpsert(d, o.s, o.l)
    [] st = "EA_DST_DELETE_LOSER"   -> EaDstDeleteLoser(d, o.s, o.l)
    [] st = "EDGE_DST_DELETE_CONFLICTS" -> EdgeDstDeleteConflicts(d, o.s, o.l)
    [] st = "EDGE_DST_REPOINT"      -> EdgeDstRepoint(d, o.s, o.l)
    [] st = "DEMOTE_LOSER_CURRENT"  -> DemoteLoserCurrent(d, o.s, o.l)
    [] st = "ARTIFACT_REPOINT"      -> ArtifactRepoint(d, o.s, o.l)
    [] st = "ARTIFACT_DELETE_LOSER" -> ArtifactDeleteLoser(d, o.s, o.l)
    [] st = "DELETE_EDGE_ASSERTIONS" -> DeleteEdgeAssertions(d, o.net)
    [] st = "DELETE_EDGES"          -> DeleteEdges(d, o.net)
    [] st = "DELETE_NODE_ASSERTIONS" -> DeleteNodeAssertions(d, o.net)
    [] st = "DELETE_ARTIFACTS"      -> DeleteArtifacts(d, o.net)
    [] st = "DELETE_ALIASES"        -> DeleteAliases(d, o.net)
    [] st = "CLEAR_MERGED_INTO"     -> ClearMergedInto(d, o.net)
    [] st = "DELETE_NODES"          -> DeleteNodes(d, o.net)
    [] st = "COMPRESS"              -> MergeRedirect(d, o.root, o.walk[1])

(* A primary key that is taken, or a REFERENCES that the engine enforces. *)
Fails(o, st, d) ==
  \/ st = "EDGE_SRC_REPOINT" /\ \E e \in d.edge : e[1] = o.l /\ SrcMoved(e, o.s) \in d.edge
  \/ st = "EDGE_DST_REPOINT" /\ \E e \in d.edge : e[2] = o.l /\ DstMoved(e, o.s) \in d.edge
  \/ st = "ARTIFACT_INSERT" /\ \E a \in d.artifacts : ArtifactKey(a) = ArtifactKey(o.row)
  \/ Enforced /\ ~ForeignKeys(Effect(o, st, d))
------------------------------------------------------------------------------
NoTxn == [op |-> "none"]

(* The connection takes an operation's statements; nothing shows yet. *)
Begin(op, args, todo) ==
  txn' = [op |-> op, args |-> args, todo |-> todo, work |-> db]

CreateNode == \E n \in Ids \ DOMAIN db.node, k \in Kinds :
  Begin("create_node", [n |-> n, kind |-> k], <<"NODE_INSERT">>)

GetOrCreateAlias == \E a \in Aliases, n \in LiveNodes :
  Begin("get_or_create_alias", [alias |-> a, n |-> n], <<"ALIAS_INSERT">>)

UpsertNodeAssertion == \E n \in LiveNodes, p \in Sources, t \in Stamps :
  Begin("upsert_node_assertion", [row |-> [node |-> n, source |-> p, at |-> t]],
        <<"NODE_ASSERTION_UPSERT">>)

PutEdge == \E x, y \in LiveNodes, r \in Relations, p \in Sources, t \in Stamps :
  Begin("put_edge", [row |-> [edge |-> <<x, y, r>>, source |-> p, at |-> t]],
        <<"EDGE_INSERT", "EDGE_ASSERTION_UPSERT">>)

(* NEXT_VERSION *)
NextVersion(n, role) ==
  LET V == {a.version : a \in {b \in db.artifacts : b.node = n /\ b.role = role}}
  IN 1 + Max(V \union {0})

Record == \E n \in LiveNodes, role \in Roles :
  LET v == NextVersion(n, role) IN
  Begin("record", [row |-> [node |-> n, role |-> role, version |-> v,
                            current |-> TRUE, key |-> <<n, role, v>>]],
        <<"FLIP_CURRENT_OFF", "ARTIFACT_INSERT">>)

(* The redirects of the walk, in its order (ids decrease), each set to the *)
(* id at its end.                                                          *)
ResolveLive == \E n \in DOMAIN db.node :
  LET walked == {x \in Chain(Redirect(db), n) : Redirect(db)[x] # NoId} IN
  \E walk \in [1 .. Cardinality(walked) -> walked] :
    /\ \A i, j \in DOMAIN walk : i < j => walk[i] > walk[j]
    /\ \A x \in walked : \E i \in DOMAIN walk : walk[i] = x
    /\ Begin("resolve_live", [root |-> Root(Redirect(db), n), walk |-> walk],
             [i \in DOMAIN walk |-> "COMPRESS"])

Merge == \E s, l \in LiveNodes :
  s < l /\ Begin("merge", [s |-> s, l |-> l], MergeBatch)

DeleteWorkNetwork == \E n \in LiveNodes :
  Begin("delete_work_network", [net |-> NetworkOf(Redirect(db), DOMAIN db.node, n)],
        DeleteBatch)

Start ==
  /\ txn = NoTxn /\ calls < MaxCalls
  /\ \/ CreateNode \/ GetOrCreateAlias \/ UpsertNodeAssertion \/ PutEdge \/ Record
     \/ ResolveLive \/ Merge \/ DeleteWorkNetwork
  /\ UNCHANGED <<engine, db, failed, calls>>

Execute ==
  /\ txn # NoTxn /\ txn.todo # <<>>
  /\ ~Fails(txn.args, Head(txn.todo), txn.work)
  /\ txn' = [op |-> txn.op, todo |-> Tail(txn.todo),
             work |-> Effect(txn.args, Head(txn.todo), txn.work),
             args |-> IF txn.op # "resolve_live" THEN txn.args
                      ELSE [txn.args EXCEPT !.walk = Tail(txn.args.walk)]]
  /\ UNCHANGED <<engine, db, failed, calls>>

Commit ==
  /\ txn # NoTxn /\ txn.todo = <<>>
  /\ db' = txn.work /\ calls' = calls + 1 /\ txn' = NoTxn
  /\ UNCHANGED <<engine, failed>>

(* A statement fails: ROLLBACK, and the operation answers an error. *)
Rollback ==
  /\ txn # NoTxn /\ txn.todo # <<>>
  /\ Fails(txn.args, Head(txn.todo), txn.work)
  /\ failed' = failed \union {txn.op} /\ txn' = NoTxn
  /\ UNCHANGED <<engine, db, calls>>

(* The process ends in the middle of a transaction or batch. *)
Crash ==
  /\ txn # NoTxn /\ (Enforced \/ txn.op \in {"merge", "delete_work_network"})
  /\ txn' = NoTxn
  /\ UNCHANGED <<engine, db, failed, calls>>

Init ==
  /\ engine \in Engines
  /\ db = [node |-> [n \in Started |-> [kind |-> "work", merged_into |-> NoId]],
           alias |-> [x \in {} |-> x], node_assertion |-> {}, edge |-> {},
           edge_assertion |-> {}, artifacts |-> {}, lost |-> {}]
  /\ txn = NoTxn /\ failed = {} /\ calls = 0

(* Every operation the bound allows has been answered. *)
Done == txn = NoTxn /\ calls = MaxCalls /\ UNCHANGED vars

Next == Start \/ Execute \/ Commit \/ Rollback \/ Crash \/ Done

Spec == Init /\ [][Next]_vars
------------------------------------------------------------------------------
(* The reads, as the queries have it.                                      *)

CountBy(S, key(_)) ==
  [k \in {key(x) : x \in S} |-> Cardinality({x \in S : key(x) = k})]

(* Mutant: the queries without "merged_into IS NULL". *)
StatsOfAll ==
  LET works == {n \in DOMAIN db.node : db.node[n].kind = "work"}
      described == {n \in works : \E r \in db.node_assertion : r.node = n}
      kind(n) == db.node[n].kind
      relation(e) == e[3]
      source(r) == r.source
  IN [works |-> Cardinality(works), works_described |-> Cardinality(described),
      works_stub |-> Cardinality(works) - Cardinality(described),
      nodes_total |-> Cardinality(DOMAIN db.node),
      merge_redirects |-> Cardinality(DOMAIN db.node \ LiveNodes),
      edges_total |-> Cardinality(db.edge),
      nodes_by_kind |-> CountBy(DOMAIN db.node, kind),
      edges_by_relation |-> CountBy(db.edge, relation),
      assertions_by_source |-> CountBy(db.node_assertion, source)]

Stats ==
  LET works == {n \in LiveNodes : db.node[n].kind = "work"}
      described == {r.node : r \in db.node_assertion} \intersect works
      kind(n) == db.node[n].kind
      relation(e) == e[3]
      source(r) == r.source
  IN [works |-> Cardinality(works),
      works_described |-> Cardinality(described),
      works_stub |-> Cardinality(works) - Cardinality(described),
      nodes_total |-> Cardinality(LiveNodes),
      merge_redirects |-> Cardinality({n \in DOMAIN db.node : db.node[n].merged_into # NoId}),
      edges_total |-> Cardinality(db.edge),
      nodes_by_kind |-> CountBy(LiveNodes, kind),
      edges_by_relation |-> CountBy(db.edge, relation),
      assertions_by_source |-> CountBy(db.node_assertion, source)]

ReadNode(n) ==
  IF n \in DOMAIN db.node /\ db.node[n].merged_into = NoId
  THEN {[kind |-> db.node[n].kind,
         assertions |-> {<<r.source, r.at>> : r \in {q \in db.node_assertion : q.node = n}},
         aliases |-> {a \in DOMAIN db.alias : db.alias[a] = n}]}
  ELSE {}

PresentAliases(A) == {a \in A : a \in DOMAIN db.alias}

Shown(a) == [version |-> a.version, current |-> a.current, key |-> a.key]

CurrentArtifact(n, role) ==
  {Shown(a) : a \in {b \in db.artifacts : b.node = n /\ b.role = role /\ b.current}}

ListArtifacts(n, all) ==
  {<<a.role, Shown(a)>> : a \in {b \in db.artifacts : b.node = n /\ (all \/ b.current)}}

PlanDelete(n) ==
  LET net == NetworkOf(Redirect(db), DOMAIN db.node, n)
      artifacts == {a \in db.artifacts : a.node \in net}
  IN [network |-> net,
      alias_count |-> Cardinality({a \in DOMAIN db.alias : db.alias[a] \in net}),
      edge_count |-> Cardinality({e \in db.edge : Cut(net, e)}),
      r2_keys |-> {a.key : a \in artifacts}]

(* The order of an export, of which a page starts WHERE (k1, ..) > (?1, ..). *)
KeyBefore(j, k) == \E i \in DOMAIN j : (\A h \in 1 .. i - 1 : j[h] = k[h]) /\ j[i] < k[i]

(* ORDER BY key LIMIT n *)
FirstKeys(keys, n) == {k \in keys : Cardinality({j \in keys : KeyBefore(j, k)}) < n}
LastKey(keys) == CHOOSE k \in keys : \A j \in keys : j = k \/ KeyBefore(j, k)

(* Mutant: a full page is taken to have a next one. *)
KeysPageFull(keys, cursor, limit) ==
  LET page == FirstKeys({k \in keys : cursor # <<>> => KeyBefore(cursor, k)}, limit)
  IN [keys |-> page, next |-> IF Cardinality(page) = limit THEN LastKey(page) ELSE <<>>]

(* The .._FIRST and .._PAGE statements of an export fetch limit + 1 rows,  *)
(* of which the last only tells whether a page follows.                    *)
KeysPage(keys, cursor, limit) ==
  LET rows == FirstKeys({k \in keys : cursor # <<>> => KeyBefore(cursor, k)}, limit + 1)
      page == FirstKeys(rows, limit)
  IN [keys |-> page, next |-> IF Cardinality(rows) > limit THEN LastKey(page) ELSE <<>>]

ExportNodes(cursor, limit) ==
  LET p == KeysPage({<<n>> : n \in LiveNodes}, cursor, limit)
  IN [rows |-> {<<k, ReadNode(k[1])>> : k \in p.keys}, next |-> p.next]

ExportEdges(cursor, limit) ==
  LET key(r) == Append(r.edge, r.source)
      p == KeysPage({key(r) : r \in db.edge_assertion}, cursor, limit)
  IN [rows |-> {<<key(r), r.at>> : r \in {q \in db.edge_assertion : key(q) \in p.keys}},
      next |-> p.next]

ExportArtifacts(cursor, limit) ==
  LET current == {a \in db.artifacts : a.current}
      p == KeysPage({<<a.node, a.role>> : a \in current}, cursor, limit)
  IN [rows |-> {<<k, {Shown(a) : a \in {b \in current : <<b.node, b.role>> = k}}>> : k \in p.keys},
      next |-> p.next]
------------------------------------------------------------------------------
(* The committed tables as the in-memory maps.  Where two works have a     *)
(* version number in common the backends part ways: the maps keep both     *)
(* rows, SQL the survivor's alone; hence lost.                             *)
NodeAssertionMap(d) ==
  [k \in {NodeKey(r) : r \in d.node_assertion} |->
     (CHOOSE r \in d.node_assertion : NodeKey(r) = k).at]
EdgeMap(d) ==
  [e \in d.edge |->
     [p \in {r.source : r \in {q \in d.edge_assertion : q.edge = e}} |->
        (CHOOSE r \in d.edge_assertion : r.edge = e /\ r.source = p).at]]
ArtifactMap(d) ==
  [k \in {<<a.node, a.role>> : a \in d.artifacts} |->
     {Shown(a) : a \in {b \in d.artifacts \union d.lost : <<b.node, b.role>> = k}}]

Mem == INSTANCE MemStore WITH
  nodes <- db.node, aliases <- db.alias, node_assertions <- NodeAssertionMap(db),
  edges <- EdgeMap(db), artifacts <- ArtifactMap(db)

TypeOK ==
  /\ engine \in Engines /\ calls \in 0 .. MaxCalls
  /\ Tables(db) /\ (txn # NoTxn => Tables(txn.work))
  /\ \A r, q \in db.node_assertion : NodeKey(r) = NodeKey(q) => r = q
  /\ \A r, q \in db.edge_assertion : EdgeKey(r) = EdgeKey(q) => r = q
  /\ \A a, b \in db.artifacts : ArtifactKey(a) = ArtifactKey(b) => a = b

(* The SQL backends promise what the in-memory one does: whatever list of  *)
(* statements an operation is made of, and wherever it is cut short, its   *)
(* client sees the one step of MemStore or nothing.                        *)
ImplementsMemStore == Mem!Spec

ReadsAlike ==
  /\ Stats = Mem!Stats
  /\ \A n \in Ids :
       /\ ReadNode(n) = Mem!ReadNode(n)
       /\ ListArtifacts(n, FALSE) = Mem!ListArtifacts(n, FALSE)
       /\ ListArtifacts(n, TRUE) \union {<<a.role, Shown(a)>> : a \in {b \in db.lost : b.node = n}}
            = Mem!ListArtifacts(n, TRUE)
       /\ \A role \in Roles :
            /\ CurrentArtifact(n, role) = Mem!CurrentArtifact(n, role)
            /\ NextVersion(n, role) = Mem!NextVersion(n, role)
  /\ \A n \in LiveNodes :
       [PlanDelete(n) EXCEPT !.r2_keys = @ \union {a.key : a \in {b \in db.lost : b.node = n}}]
         = Mem!PlanDelete(n)
  /\ \A A \in SUBSET Aliases : PresentAliases(A) = Mem!PresentAliases(A)
  /\ \A limit \in 1 .. 2 :
       /\ \A cursor \in {<<>>} \union {<<n>> : n \in Ids} :
            ExportNodes(cursor, limit) = Mem!ExportNodes(cursor, limit)
       /\ \A cursor \in {<<>>} \union {Append(r.edge, r.source) : r \in db.edge_assertion} :
            ExportEdges(cursor, limit) = Mem!ExportEdges(cursor, limit)
       /\ \A cursor \in {<<>>} \union {<<a.node, a.role>> : a \in db.artifacts} :
            ExportArtifacts(cursor, limit) = Mem!ExportArtifacts(cursor, limit)

(* Both kinds of backend answer every read of what operations have left    *)
(* alike, but for the rows that only the maps kept: they are versions that *)
(* are not current.                                                        *)
ReadsAgree == calls > 0 /\ txn = NoTxn => ReadsAlike

(* No operation but a merge meets a foreign key in its way on an engine    *)
(* that enforces them ("child rows before nodes; clear merged_into").      *)
(* Without them no statement of any operation fails: a merge has deleted   *)
(* every row that a repointed one would collide with.                      *)
BatchesSucceed ==
  /\ failed \subseteq {"merge"}
  /\ engine = "sqlite" => failed = {}

(* "Run edge_assertion upserts before the corresponding edge mutations .. *)
(* and rely on deferred constraint checking (or disable FK enforcement for *)
(* the transaction)": merges succeed where keys are enforced.              *)
MergesSucceed == "merge" \notin failed
==============================================================================
