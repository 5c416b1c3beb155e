------------------------------- MODULE Catalog -------------------------------
(***************************************************************************)
(* The L2 catalog: the node, alias, node_assertion, edge and               *)
(* edge_assertion tables of the metadata store, and the use cases put_work,*)
(* put_edges, get_work and delete_work that run against them.              *)
(*                                                                         *)
(* Every HTTP request runs its use case on a thread of its own.  A backend *)
(* call holds the connection's mutex and is one step here; between two     *)
(* calls any other request may run, because the coordinator's lock         *)
(* (LocalCoordinator) takes nothing.  Foreign keys are off.                *)
(***************************************************************************)
EXTENDS Redirects, Sequences

CONSTANTS
  Callers,      (* requests that may be in flight at once                  *)
  Aliases,      (* external ids, (scheme, value) pairs                     *)
  Bundles,      (* the alias lists put_work is called with                 *)
  Links,        (* the <<src, dst>> aliases put_edges is called with       *)
  Wanted,       (* the aliases get_work is called with                     *)
  Doomed,       (* the aliases delete_work is called with                  *)
  Sources,      (* provider names                                          *)
  Stamps,       (* fetched_at times                                        *)
  MaxCalls,     (* bound: calls started in a behaviour                     *)
  MaxFailures   (* bound: calls cut short in a behaviour                   *)

ASSUME CatalogAssumption ==
  /\ \A b \in Bundles : b \in Seq(Aliases) /\ b # <<>>
  /\ \A e \in Links : e \in Seq(Aliases) /\ Len(e) = 2
  /\ Wanted \subseteq Aliases /\ Doomed \subseteq Aliases
  /\ Sources # {} /\ Stamps # {} /\ Stamps \subseteq Nat
  /\ MaxCalls \in Nat /\ MaxFailures \in Nat

VARIABLES
  nodes,           (* canonical_id of every row of node                    *)
  merged_into,     (* its merged_into column                               *)
  alias,           (* alias table: the canonical_id of each external id    *)
  node_assertion,  (* rows [node, source, at]                              *)
  edge,            (* rows <<src_id, dst_id>>                              *)
  edge_assertion,  (* rows [src, dst, source, at]                          *)
  issued,          (* the guids new_guid has returned                      *)
  req,             (* what each caller's use case has got to               *)
  calls, failures, (* counters of the two bounds                           *)
  acked,           (* history: [bundle, id] of each put_work that returned *)
  witnessed,       (* history: the bundles put_work was called with        *)
  solo,            (* history: the caller no other request has overlapped  *)
  raced,           (* history: some request has overlapped another         *)
  clashed          (* history: one of two that overlapped was a delete_work *)

tables == <<nodes, merged_into, alias, node_assertion, edge, edge_assertion>>
history == <<acked, witnessed, solo, raced, clashed>>
vars == <<nodes, merged_into, alias, node_assertion, edge, edge_assertion,
          issued, req, calls, failures, acked, witnessed, solo, raced, clashed>>

NodeRows == [node : Ids, source : Sources, at : Stamps]
EdgeRows == [src : Ids, dst : Ids, source : Sources, at : Stamps]

Ops == {"put_work", "put_edges", "get_work", "delete_work"}

Steps == {"idle", "get_alias", "resolve_live", "create_node", "merge",
          "get_or_create_alias", "upsert_node_assertion", "put_edge",
          "read_node", "delete_network"}

(* The locals of a use case: the backend call it makes next, its input     *)
(* (aliases, source, fetched_at), the alias it is at, the live guids found *)
(* so far, the raw or canonical id in hand, and put_edges' resolved src.   *)
Requests ==
  [op : Ops, step : Steps, args : Seq(Aliases), pos : Nat \ {0},
   source : Sources, at : Stamps,
   found : SUBSET Ids, cur : Ids \union {NoId}, left : Ids \union {NoId}]
------------------------------------------------------------------------------
(* The statements of the sql crate, as functions of a table's contents.    *)

Live(n) == n \in nodes /\ merged_into[n] = NoId

(* resolve_live stops with NotFound when the walk leaves the node table. *)
Resolves(n) == Chain(merged_into, n) \subseteq nodes

(* alias::INSERT_IGNORE then alias::GET. *)
AliasTaken(a, n) ==
  IF alias[a] = NoId THEN [alias EXCEPT ![a] = n] ELSE alias

(* node_assertion::UPSERT: the newcomer replaces the source's row. *)
NodeUpsert(n, s, t) ==
  {r \in node_assertion : r.node # n \/ r.source # s}
    \union {[node |-> n, source |-> s, at |-> t]}

EdgeUpsert(x, y, s, t) ==
  {r \in edge_assertion : r.src # x \/ r.dst # y \/ r.source # s}
    \union {[src |-> x, dst |-> y, source |-> s, at |-> t]}

(* Mutant: an UPDATE without its WHERE. *)
RenamedAll(x, loser, survivor) == survivor

Renamed(x, loser, survivor) == IF x = loser THEN survivor ELSE x

(* Mutant: a merge that forgets the assertions. *)
NodeLeft(loser, survivor) == node_assertion

(* Mutant: a merge in which the older of two rows stays. *)
NodeFoldedOlder(loser, survivor) ==
  LET rows == {[r EXCEPT !.node = Renamed(@, loser, survivor)] : r \in node_assertion}
  IN {r \in rows : \A q \in rows :
        q.node = r.node /\ q.source = r.source => q.at >= r.at}

(* MERGE_UPSERT + MERGE_DELETE_LOSER: of two rows with one key the newer stays. *)
NodeFolded(loser, survivor) ==
  LET rows == {[r EXCEPT !.node = Renamed(@, loser, survivor)] : r \in node_assertion}
  IN {r \in rows : \A q \in rows :
        q.node = r.node /\ q.source = r.source => q.at <= r.at}

(* The same for edge assertions, source side then target side. *)
EdgeFolded(loser, survivor) ==
  LET rows == {[r EXCEPT !.src = Renamed(@, loser, survivor),
                         !.dst = Renamed(@, loser, survivor)] : r \in edge_assertion}
  IN {r \in rows : \A q \in rows :
        q.src = r.src /\ q.dst = r.dst /\ q.source = r.source => q.at <= r.at}
------------------------------------------------------------------------------
(* A caller between calls. *)
Idle == [op |-> "put_work", step |-> "idle", args |-> <<>>, pos |-> 1,
         source |-> CHOOSE s \in Sources : TRUE, at |-> CHOOSE t \in Stamps : TRUE,
         found |-> {}, cur |-> NoId, left |-> NoId]

Return(c) == req' = [req EXCEPT ![c] = Idle]

(* A request arrives; its first backend call looks up its first alias. *)
Call(c, op, input, s, t) ==
  /\ req[c].step = "idle"
  /\ calls < MaxCalls
  /\ calls' = calls + 1
  /\ req' = [req EXCEPT ![c] = [Idle EXCEPT !.op = op, !.step = "get_alias",
                               !.args = input, !.source = s, !.at = t]]
  /\ witnessed' = IF op = "put_work" THEN witnessed \union {input} ELSE witnessed
  /\ LET others == {d \in Callers \ {c} : req[d].step # "idle"}
         deletes == op = "delete_work" \/ \E d \in others : req[d].op = "delete_work"
     IN /\ solo' = IF others = {} THEN {c} ELSE {}
        /\ raced' = (raced \/ others # {})
        /\ clashed' = (clashed \/ (others # {} /\ deletes))
  /\ UNCHANGED <<tables, issued, failures, acked>>

CallPutWork(c) == \E b \in Bundles, s \in Sources, t \in Stamps : Call(c, "put_work", b, s, t)
CallPutEdges(c) == \E e \in Links, s \in Sources, t \in Stamps : Call(c, "put_edges", e, s, t)
CallGetWork(c) == \E a \in Wanted : Call(c, "get_work", <<a>>, Idle.source, Idle.at)
CallDeleteWork(c) == \E a \in Doomed : Call(c, "delete_work", <<a>>, Idle.source, Idle.at)

(* Mutant: the first live guid wins, and nothing is merged. *)
LookedUnmerged(r, G) ==
  IF r.pos < Len(r.args) THEN [r EXCEPT !.step = "get_alias", !.pos = @ + 1, !.found = G]
  ELSE IF G = {} THEN [r EXCEPT !.step = "create_node"]
  ELSE [r EXCEPT !.step = "get_or_create_alias", !.pos = 1, !.cur = Least(G), !.found = G]

(* Mutant: the last alias of the bundle is not counted. *)
LookedShort(r, G) ==
  IF r.pos < Len(r.args) THEN [r EXCEPT !.step = "get_alias", !.pos = @ + 1, !.found = G]
  ELSE IF r.found = {} THEN [r EXCEPT !.step = "create_node"]
  ELSE IF r.found = {Least(r.found)}
       THEN [r EXCEPT !.step = "get_or_create_alias", !.pos = 1, !.cur = Least(r.found)]
  ELSE [r EXCEPT !.step = "merge"]

(* put_work after one more alias of its bundle: on to the next one, or,    *)
(* with the live guids G of the whole bundle, |G| = 0, 1 or more.          *)
Looked(r, G) ==
  IF r.pos < Len(r.args) THEN [r EXCEPT !.step = "get_alias", !.pos = @ + 1, !.found = G]
  ELSE IF G = {} THEN [r EXCEPT !.step = "create_node"]
  ELSE IF G = {Least(G)}
       THEN [r EXCEPT !.step = "get_or_create_alias", !.pos = 1, !.cur = Least(G), !.found = G]
  ELSE [r EXCEPT !.step = "merge", !.found = G]

(* put_edges once an endpoint has its node: on to dst, or write the edge. *)
Settled(r, n) ==
  IF r.pos = 1 THEN [r EXCEPT !.step = "get_alias", !.pos = 2, !.left = n]
  ELSE [r EXCEPT !.step = "put_edge", !.cur = n]

GetAlias(c) ==
  LET r == req[c]
      raw == alias[r.args[r.pos]]
  IN /\ r.step = "get_alias"
     /\ \/ /\ raw # NoId
           /\ req' = [req EXCEPT ![c] = [r EXCEPT !.step = "resolve_live", !.cur = raw]]
        \/ /\ raw = NoId /\ r.op = "put_work"
           /\ req' = [req EXCEPT ![c] = Looked(r, r.found)]
        \/ /\ raw = NoId /\ r.op = "put_edges"
           /\ req' = [req EXCEPT ![c] = [r EXCEPT !.step = "create_node"]]
        \/ /\ raw = NoId /\ r.op \in {"get_work", "delete_work"}
           /\ Return(c)
     /\ UNCHANGED <<tables, issued, calls, failures, history>>

(* The walk, its path compression, and what each use case does with the    *)
(* live id.  A walk that leaves the node table ends the call: NotFound.    *)
ResolveLive(c) ==
  LET r == req[c]
      live == Root(merged_into, r.cur)
  IN /\ r.step = "resolve_live"
     /\ IF Resolves(r.cur)
        THEN /\ merged_into' = Compressed(merged_into, r.cur)
             /\ req' = [req EXCEPT ![c] =
                  CASE r.op = "put_work"  -> Looked(r, r.found \union {live})
                    [] r.op = "put_edges" -> Settled(r, live)
                    [] r.op = "get_work"  -> [r EXCEPT !.step = "read_node", !.cur = live]
                    [] OTHER -> [r EXCEPT !.step = "delete_network", !.cur = live]]
        ELSE Return(c) /\ UNCHANGED merged_into
     /\ UNCHANGED <<nodes, alias, node_assertion, edge, edge_assertion,
                    issued, calls, failures, history>>

(* Mutant: a guid that is not fresh, and a row that replaces the old one. *)
CreateNodeAgain(c) ==
  LET r == req[c] IN
  /\ r.step = "create_node"
  /\ \E n \in Ids :
       /\ nodes' = nodes \union {n}
       /\ merged_into' = [merged_into EXCEPT ![n] = NoId]
       /\ req' = [req EXCEPT ![c] =
            [r EXCEPT !.step = "get_or_create_alias", !.cur = n,
                      !.pos = IF r.op = "put_work" THEN 1 ELSE @]]
       /\ issued' = issued
  /\ UNCHANGED <<alias, node_assertion, edge, edge_assertion, calls, failures, history>>

(* new_guid and create_node, in put_work's |G| = 0 case and for a stub. *)
CreateNode(c) ==
  LET r == req[c] IN
  /\ r.step = "create_node"
  /\ \E n \in Ids \ issued :
       /\ issued' = issued \union {n}
       /\ nodes' = nodes \union {n}
       /\ req' = [req EXCEPT ![c] =
            [r EXCEPT !.step = "get_or_create_alias", !.cur = n,
                      !.pos = IF r.op = "put_work" THEN 1 ELSE @]]
  /\ UNCHANGED <<merged_into, alias, node_assertion, edge, edge_assertion,
                 calls, failures, history>>

(* Mutant: a merge that deletes the loser's row instead of redirecting it. *)
MergeDeleting(c) ==
  LET r == req[c]
      survivor == Least(r.found)
      loser == Least(r.found \ {survivor})
  IN /\ r.step = "merge"
     /\ nodes' = nodes \ {loser}
     /\ alias' = [a \in Aliases |-> Renamed(alias[a], loser, survivor)]
     /\ node_assertion' = NodeFolded(loser, survivor)
     /\ req' = [req EXCEPT ![c] = [r EXCEPT !.step = "get_or_create_alias", !.pos = 1,
                                            !.cur = survivor, !.found = {survivor}]]
     /\ UNCHANGED <<merged_into, edge, edge_assertion, issued, calls, failures, history>>

(* One merge(survivor, loser) transaction: the loser redirects to the      *)
(* survivor, and every row it owned is repointed, collisions folded.       *)
Merge(c) ==
  LET r == req[c]
      survivor == Least(r.found)
      loser == Least(r.found \ {survivor})
  IN /\ r.step = "merge"
     /\ merged_into' = [merged_into EXCEPT ![loser] =
                          IF loser \in nodes THEN survivor ELSE @]
     /\ alias' = [a \in Aliases |-> Renamed(alias[a], loser, survivor)]
     /\ node_assertion' = NodeFolded(loser, survivor)
     /\ edge' = {<<Renamed(e[1], loser, survivor), Renamed(e[2], loser, survivor)>> : e \in edge}
     /\ edge_assertion' = EdgeFolded(loser, survivor)
     /\ req' = [req EXCEPT ![c] =
          IF r.found = {survivor, loser}
          THEN [r EXCEPT !.step = "get_or_create_alias", !.pos = 1, !.cur = survivor,
                         !.found = {survivor}]
          ELSE [r EXCEPT !.found = @ \ {loser}]]
     /\ UNCHANGED <<nodes, issued, calls, failures, history>>

(* Mutant: only the first alias of the bundle is attached. *)
AttachFirst(c) ==
  LET r == req[c] IN
  /\ r.step = "get_or_create_alias"
  /\ alias' = AliasTaken(r.args[r.pos], r.cur)
  /\ req' = [req EXCEPT ![c] = [r EXCEPT !.step = "upsert_node_assertion"]]
  /\ UNCHANGED <<nodes, merged_into, node_assertion, edge, edge_assertion,
                 issued, calls, failures, history>>

(* get_or_create_alias for one alias; the winner it returns is dropped. *)
AttachAlias(c) ==
  LET r == req[c]
      a == r.args[r.pos]
  IN /\ r.step = "get_or_create_alias"
     /\ alias' = AliasTaken(a, r.cur)
     /\ req' = [req EXCEPT ![c] =
          IF r.op = "put_edges" THEN Settled(r, r.cur)
          ELSE IF r.pos < Len(r.args) THEN [r EXCEPT !.pos = @ + 1]
          ELSE [r EXCEPT !.step = "upsert_node_assertion"]]
     /\ UNCHANGED <<nodes, merged_into, node_assertion, edge, edge_assertion,
                    issued, calls, failures, history>>

(* The last call of put_work, which then returns the canonical id. *)
UpsertNodeAssertion(c) ==
  LET r == req[c] IN
  /\ r.step = "upsert_node_assertion"
  /\ node_assertion' = NodeUpsert(r.cur, r.source, r.at)
  /\ acked' = acked \union {[bundle |-> r.args, id |-> r.cur]}
  /\ Return(c)
  /\ UNCHANGED <<nodes, merged_into, alias, edge, edge_assertion,
                 issued, calls, failures, witnessed, solo, raced, clashed>>

PutEdge(c) ==
  LET r == req[c] IN
  /\ r.step = "put_edge"
  /\ edge' = edge \union {<<r.left, r.cur>>}
  /\ edge_assertion' = EdgeUpsert(r.left, r.cur, r.source, r.at)
  /\ Return(c)
  /\ UNCHANGED <<nodes, merged_into, alias, node_assertion,
                 issued, calls, failures, history>>

(* put_edge is two statements outside a transaction: the first alone. *)
TornPutEdge(c) ==
  LET r == req[c] IN
  /\ r.step = "put_edge" /\ failures < MaxFailures
  /\ failures' = failures + 1
  /\ edge' = edge \union {<<r.left, r.cur>>}
  /\ Return(c)
  /\ UNCHANGED <<nodes, merged_into, alias, node_assertion, edge_assertion,
                 issued, calls, history>>

(* read_node answers None for a redirect and for a missing node. *)
ReadNode(c) ==
  /\ req[c].step = "read_node"
  /\ Return(c)
  /\ UNCHANGED <<tables, issued, calls, failures, history>>

(* delete_work_network: the whole redirect network of an id that was live  *)
(* when it was resolved, and every row that names a node of it.            *)
DeleteNetwork(c) ==
  LET net == NetworkOf(merged_into, nodes, req[c].cur)
      gone == {a \in Aliases : alias[a] \in net}
  IN /\ req[c].step = "delete_network"
     /\ nodes' = nodes \ net
     /\ merged_into' = [n \in Ids |-> IF n \in net THEN NoId ELSE merged_into[n]]
     /\ alias' = [a \in Aliases |-> IF a \in gone THEN NoId ELSE alias[a]]
     /\ node_assertion' = {r \in node_assertion : r.node \notin net}
     /\ edge' = {e \in edge : e[1] \notin net /\ e[2] \notin net}
     /\ edge_assertion' = {r \in edge_assertion : r.src \notin net /\ r.dst \notin net}
     /\ acked' = {k \in acked : \A i \in DOMAIN k.bundle : k.bundle[i] \notin gone}
     /\ Return(c)
     /\ UNCHANGED <<issued, calls, failures, witnessed, solo, raced, clashed>>

(* A backend error, or the end of the process, between two backend calls.  *)
Fail(c) ==
  /\ req[c].step # "idle" /\ failures < MaxFailures
  /\ failures' = failures + 1
  /\ Return(c)
  /\ UNCHANGED <<tables, issued, calls, history>>

(* No request in flight and none to come. *)
Quiet ==
  /\ calls = MaxCalls /\ \A c \in Callers : req[c].step = "idle"
  /\ UNCHANGED vars
------------------------------------------------------------------------------
Init ==
  /\ nodes = {}
  /\ merged_into = [n \in Ids |-> NoId]
  /\ alias = [a \in Aliases |-> NoId]
  /\ node_assertion = {} /\ edge = {} /\ edge_assertion = {}
  /\ issued = {}
  /\ req = [c \in Callers |-> Idle]
  /\ calls = 0 /\ failures = 0
  /\ acked = {} /\ witnessed = {} /\ solo = {}
  /\ raced = FALSE /\ clashed = FALSE

Next ==
  \/ \E c \in Callers :
       \/ CallPutWork(c) \/ CallPutEdges(c) \/ CallGetWork(c) \/ CallDeleteWork(c)
       \/ GetAlias(c) \/ ResolveLive(c) \/ CreateNode(c) \/ Merge(c)
       \/ AttachAlias(c) \/ UpsertNodeAssertion(c)
       \/ PutEdge(c) \/ TornPutEdge(c) \/ ReadNode(c) \/ DeleteNetwork(c)
       \/ Fail(c)
  \/ Quiet

Spec == Init /\ [][Next]_vars
------------------------------------------------------------------------------
TypeOK ==
  /\ nodes \subseteq issued /\ issued \subseteq Ids
  /\ merged_into \in Redirection
  /\ alias \in [Aliases -> Ids \union {NoId}]
  /\ node_assertion \subseteq NodeRows
  /\ edge \subseteq Ids \X Ids
  /\ edge_assertion \subseteq EdgeRows
  /\ req \in [Callers -> Requests]
  /\ calls \in 0 .. MaxCalls /\ failures \in 0 .. MaxFailures
  /\ acked \subseteq [bundle : Bundles, id : Ids]
  /\ witnessed \subseteq Bundles /\ solo \subseteq Callers
  /\ raced \in BOOLEAN /\ clashed \in BOOLEAN

(* "Cycles cannot happen" (resolve_live): however requests interleave, a   *)
(* merge or a path compression only ever points a node at a smaller guid,  *)
(* so every walk along merged_into ends.                                   *)
RedirectsDecrease ==
  \A n \in Ids : merged_into[n] # NoId => merged_into[n] < n

(* The REFERENCES of 0002_graph.sql, which SQLite does not enforce here.   *)
ForeignKeys ==
  /\ \A n \in nodes : merged_into[n] # NoId => merged_into[n] \in nodes
  /\ \A a \in Aliases : alias[a] # NoId => alias[a] \in nodes
  /\ \A r \in node_assertion : r.node \in nodes
  /\ \A e \in edge : e[1] \in nodes /\ e[2] \in nodes
  /\ \A r \in edge_assertion : <<r.src, r.dst>> \in edge

(* Unless a delete overlapped another request, every id a row names is a   *)
(* row of node, and every edge assertion has its edge.                     *)
ForeignKeysHold == ~clashed => ForeignKeys

(* What a merge repoints stays repointed: no alias, assertion or edge is   *)
(* left on a redirect, where get_work and read_edges would not find it.    *)
RowsOnLiveNodes ==
  /\ \A a \in Aliases : alias[a] # NoId => Live(alias[a])
  /\ \A r \in node_assertion : Live(r.node)
  /\ \A e \in edge : Live(e[1]) /\ Live(e[2])

(* The live node an alias leads to. *)
Home(a) == Root(merged_into, alias[a])

(* No fork survives a bridging record: the aliases of every bundle that    *)
(* put_work returned from, and the id it returned, lead to one live node.  *)
BundlesConverge ==
  \A k \in acked : \A i \in DOMAIN k.bundle :
    /\ alias[k.bundle[i]] # NoId
    /\ Home(k.bundle[i]) = Root(merged_into, k.id)

(* No bundle handed to put_work links an alias of S to one outside it.     *)
Unlinked(S) ==
  \A w \in witnessed : (\E i \in DOMAIN w : w[i] \in S) => \A i \in DOMAIN w : w[i] \in S

(* Merging never goes too far: two aliases lead to one node only if a      *)
(* chain of co-asserting bundles links them, so those of a set that no     *)
(* bundle links to the rest share no node with the rest.                   *)
NoFalseMerge ==
  \A S \in SUBSET Aliases : Unlinked(S) =>
    \A a \in S, b \in Aliases \ S :
      /\ alias[a] # NoId /\ Resolves(alias[a])
      /\ alias[b] # NoId /\ Resolves(alias[b])
      => Home(a) # Home(b)

(* No unreachable work: with every request answered and none cut short,    *)
(* every live node has an alias.                                           *)
NoOrphans ==
  (failures = 0 /\ \A c \in Callers : req[c].step = "idle")
    => \A n \in nodes : Live(n) => \E a \in Aliases : alias[a] = n

(* What requests one at a time keep: a bundle that was acknowledged has one *)
(* live node, that node has every row of the nodes it absorbed, and no live *)
(* node is left without an alias.                                          *)
SerialBundlesConverge == ~raced => BundlesConverge /\ RowsOnLiveNodes /\ NoOrphans

AcksBound == \A k \in acked : \A i \in DOMAIN k.bundle : alias[k.bundle[i]] # NoId

(* put_work never drops an alias it acknowledged, whatever ran beside it,  *)
(* if only no delete did.                                                  *)
AckedAliasesBound == ~clashed => AcksBound

(* Two classes once united stay united: consumers that hold an old guid    *)
(* keep arriving where its work is.                                        *)
MergesArePermanent ==
  [][\A m, n \in nodes :
       /\ m \in nodes' /\ n \in nodes'
       /\ Resolves(m) /\ Resolves(n)
       /\ Root(merged_into, m) = Root(merged_into, n)
       => Root(merged_into', m) = Root(merged_into', n)]_vars

(* A redirect is never undone: once a guid forwards, it never answers for  *)
(* itself again.                                                           *)
RedirectsStay ==
  [][\A n \in nodes : merged_into[n] # NoId /\ n \in nodes' => merged_into'[n] # NoId]_vars

(* Healing: a put_work that nothing overlapped leaves its whole bundle on  *)
(* the live node it returns, whatever forks races had left before.         *)
SoloPutHeals ==
  [][\A c \in solo :
       /\ req[c].step = "upsert_node_assertion" /\ req'[c].step = "idle"
       /\ failures' = failures
       => /\ req[c].cur \in nodes /\ merged_into[req[c].cur] = NoId
          /\ \A i \in DOMAIN req[c].args :
               Home(req[c].args[i]) = req[c].cur]_vars

(* A merge keeps, for every source, the newest record of the two works,    *)
(* and for every pair of works the newest record of their edge.            *)
MergeKeepsNewest ==
  [][\A l, s \in nodes :
       merged_into[l] = NoId /\ merged_into'[l] = s
       => /\ \A r \in node_assertion : r.node \in {l, s} =>
               \E q \in node_assertion' : q.node = s /\ q.source = r.source /\ q.at >= r.at
          /\ \A r \in edge_assertion : \E q \in edge_assertion' :
               /\ q.src = Renamed(r.src, l, s) /\ q.dst = Renamed(r.dst, l, s)
               /\ q.source = r.source /\ q.at >= r.at]_vars
==============================================================================
