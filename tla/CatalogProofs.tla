---------------------------- MODULE CatalogProofs ----------------------------
(***************************************************************************)
(* Theorems about Catalog, for any number of callers, ids, aliases and     *)
(* inputs.  Under every interleaving of the use cases: type correctness,   *)
(* redirects that are acyclic and never undone, merges that never go too   *)
(* far and keep the newest records.  As long as certain requests do not    *)
(* overlap: no row dangles, no acknowledged alias is lost, forks heal and  *)
(* bundles converge.                                                       *)
(***************************************************************************)
EXTENDS Catalog, RedirectsProofs

(* What a use case relies on at each step: it holds an id where it is about *)
(* to write one, its position is inside its input, and the merge loop has  *)
(* at least two ids left.                                                  *)
Shape(r) ==
  r.step # "idle" =>
    /\ r.pos \in 1 .. Len(r.args)
    /\ r.op = "put_work" => r.args \in Bundles
    /\ r.op = "put_edges" => Len(r.args) = 2 /\ (r.pos = 2 => r.left \in Ids)
    /\ r.step \in {"merge", "upsert_node_assertion"} => r.op = "put_work"
    /\ r.step \in {"create_node", "get_or_create_alias"} => r.op \in {"put_work", "put_edges"}
    /\ r.step = "put_edge" => r.op = "put_edges" /\ r.pos = 2
    /\ r.step \notin {"get_alias", "create_node", "merge"} => r.cur \in Ids
    /\ r.step = "merge" => \E m, n \in r.found : m # n

IInv ==
  /\ TypeOK
  /\ RedirectsDecrease
  /\ \A c \in Callers : Shape(req[c])

LEMMA IdleRequest == Idle \in Requests /\ Shape(Idle)
BY CatalogAssumption DEF Idle, Requests, Shape, Ops, Steps

LEMMA RequestUpdate ==
  ASSUME NEW r \in Requests, Shape(r), NEW c \in Callers,
         req \in [Callers -> Requests], \A d \in Callers : Shape(req[d]),
         req' = [req EXCEPT ![c] = r]
  PROVE  req' \in [Callers -> Requests] /\ \A d \in Callers : Shape(req'[d])
<1>1. req' \in [Callers -> Requests]
  OBVIOUS
<1>2. ASSUME NEW d \in Callers PROVE Shape(req'[d])
  <2>1. CASE d = c
    <3>1. req'[d] = r BY <2>1
    <3>2. QED BY <3>1
  <2>2. CASE d # c
    <3>1. req'[d] = req[d] BY <2>2
    <3>2. QED BY <3>1
  <2>3. QED BY <2>1, <2>2
<1>3. QED BY <1>1, <1>2

LEMMA StepNames ==
  /\ "idle" \in Steps /\ "get_alias" \in Steps /\ "resolve_live" \in Steps
  /\ "create_node" \in Steps /\ "merge" \in Steps /\ "get_or_create_alias" \in Steps
  /\ "upsert_node_assertion" \in Steps /\ "put_edge" \in Steps
  /\ "read_node" \in Steps /\ "delete_network" \in Steps
BY DEF Steps

LEMMA RequestFields ==
  ASSUME NEW r \in Requests
  PROVE  /\ r.op \in Ops /\ r.args \in Seq(Aliases) /\ r.pos \in Nat /\ r.pos > 0
         /\ Len(r.args) \in Nat /\ r.found \in SUBSET Ids
         /\ r.source \in Sources /\ r.at \in Stamps
BY DEF Requests

(* put_work's next request after a lookup is well formed. *)
LEMMA LookedRequest ==
  ASSUME NEW r \in Requests, Shape(r), r.step \in {"get_alias", "resolve_live"},
         r.op = "put_work", NEW G \in SUBSET Ids
  PROVE  Looked(r, G) \in Requests /\ Shape(Looked(r, G))
<1>0. /\ r.pos \in Nat /\ Len(r.args) \in Nat /\ r.pos \in 1 .. Len(r.args)
      /\ r.args \in Bundles
  BY RequestFields DEF Shape
<1>1. CASE r.pos < Len(r.args)
  <2> DEFINE q == [r EXCEPT !.step = "get_alias", !.pos = @ + 1, !.found = G]
  <2>1. Looked(r, G) = q
    BY <1>1 DEF Looked
  <2>2. r.pos + 1 \in Nat \ {0} /\ r.pos + 1 \in 1 .. Len(r.args)
    BY <1>0, <1>1
  <2>3. q \in Requests
    BY <2>2, StepNames DEF Requests
  <2>4. /\ q.step = "get_alias" /\ q.pos = r.pos + 1 /\ q.op = r.op /\ q.args = r.args
    BY DEF Requests
  <2>5. Shape(q)
    <3> HIDE DEF q
    <3> QED BY <1>0, <2>2, <2>4 DEF Shape
  <2>6. QED BY <2>1, <2>3, <2>5
<1>2. CASE ~(r.pos < Len(r.args)) /\ G = {}
  <2> DEFINE q == [r EXCEPT !.step = "create_node"]
  <2>1. Looked(r, G) = q
    BY <1>2 DEF Looked
  <2>2. q \in Requests
    BY StepNames DEF Requests
  <2>3. q.step = "create_node" /\ q.pos = r.pos /\ q.op = r.op /\ q.args = r.args
    BY DEF Requests
  <2>4. Shape(q)
    <3> HIDE DEF q
    <3> QED BY <1>0, <2>3 DEF Shape
  <2>5. QED BY <2>1, <2>2, <2>4
<1>3. CASE ~(r.pos < Len(r.args)) /\ G # {} /\ G = {Least(G)}
  <2> DEFINE q == [r EXCEPT !.step = "get_or_create_alias", !.pos = 1,
                            !.cur = Least(G), !.found = G]
  <2>1. Looked(r, G) = q
    BY <1>3 DEF Looked
  <2>2. Least(G) \in Ids /\ 1 \in Nat \ {0}
    BY <1>3
  <2>3. q \in Requests
    BY <2>2, StepNames DEF Requests
  <2>4. /\ q.step = "get_or_create_alias" /\ q.pos = 1 /\ q.op = r.op
        /\ q.args = r.args /\ q.cur = Least(G)
    BY DEF Requests
  <2>5. Shape(q)
    <3> HIDE DEF q
    <3> QED BY <1>0, <2>2, <2>4 DEF Shape
  <2>6. QED BY <2>1, <2>3, <2>5
<1>4. CASE ~(r.pos < Len(r.args)) /\ G # {} /\ G # {Least(G)}
  <2> DEFINE q == [r EXCEPT !.step = "merge", !.found = G]
  <2>1. Looked(r, G) = q
    BY <1>4 DEF Looked
  <2>2. \E m, n \in G : m # n
    <3>1. Least(G) \in G
      BY <1>4, LeastProperty, IdsAssumption
    <3>2. QED BY <1>4, <3>1
  <2>3. q \in Requests
    BY StepNames DEF Requests
  <2>4. /\ q.step = "merge" /\ q.pos = r.pos /\ q.op = r.op
        /\ q.args = r.args /\ q.found = G
    BY DEF Requests
  <2>5. Shape(q)
    <3> HIDE DEF q
    <3> QED BY <1>0, <2>2, <2>4 DEF Shape
  <2>6. QED BY <2>1, <2>3, <2>5
<1>5. QED BY <1>1, <1>2, <1>3, <1>4

(* put_edges' next request once an endpoint has its node is well formed. *)
LEMMA SettledRequest ==
  ASSUME NEW r \in Requests, Shape(r), r.step # "idle", r.op = "put_edges", NEW n \in Ids
  PROVE  Settled(r, n) \in Requests /\ Shape(Settled(r, n))
<1>0. r.pos \in 1 .. 2 /\ Len(r.args) = 2 /\ (r.pos = 2 => r.left \in Ids)
  BY DEF Shape
<1>1. CASE r.pos = 1
  <2> DEFINE q == [r EXCEPT !.step = "get_alias", !.pos = 2, !.left = n]
  <2>1. Settled(r, n) = q
    BY <1>1 DEF Settled
  <2>2. q \in Requests
    <3>1. 2 \in Nat \ {0}
      OBVIOUS
    <3>2. QED BY <3>1, StepNames DEF Requests
  <2>3. /\ q.step = "get_alias" /\ q.pos = 2 /\ q.op = r.op
        /\ q.args = r.args /\ q.left = n
    BY DEF Requests
  <2>4. Shape(q)
    <3> HIDE DEF q
    <3>1. Len(q.args) = 2
      BY <1>0, <2>3
    <3>4. q.pos \in 1 .. 2
      BY <2>3
    <3>5. q.pos \in 1 .. Len(q.args)
      BY <3>1, <3>4
    <3>6. q.left \in Ids
      BY <2>3
    <3>2. q.op = "put_edges"
      BY <2>3
    <3>3. QED BY <2>3, <3>1, <3>2, <3>5, <3>6 DEF Shape
  <2>5. QED BY <2>1, <2>2, <2>4
<1>2. CASE r.pos = 2
  <2> DEFINE q == [r EXCEPT !.step = "put_edge", !.cur = n]
  <2>1. Settled(r, n) = q
    BY <1>2 DEF Settled
  <2>2. q \in Requests
    BY StepNames DEF Requests
  <2>3. /\ q.step = "put_edge" /\ q.pos = r.pos /\ q.op = r.op
        /\ q.args = r.args /\ q.left = r.left /\ q.cur = n
    BY DEF Requests
  <2>4. Shape(q)
    <3> HIDE DEF q
    <3> QED BY <1>0, <1>2, <2>3 DEF Shape
  <2>5. QED BY <2>1, <2>2, <2>4
<1>3. QED BY <1>0, <1>1, <1>2
------------------------------------------------------------------------------
(* One lemma per action: from IInv it leads to a state of IInv.            *)

LEMMA ReturnStep ==
  ASSUME IInv, NEW c \in Callers, Return(c)
  PROVE  req' \in [Callers -> Requests] /\ \A d \in Callers : Shape(req'[d])
BY IdleRequest, RequestUpdate DEF IInv, TypeOK, Return

(* Only the request, and the counters of the bounds, change. *)
LEMMA TablesSame ==
  ASSUME IInv, UNCHANGED <<tables, issued>>,
         req' \in [Callers -> Requests], \A d \in Callers : Shape(req'[d]),
         calls' \in 0 .. MaxCalls, failures' \in 0 .. MaxFailures,
         acked' \subseteq [bundle : Bundles, id : Ids],
         witnessed' \subseteq Bundles, solo' \subseteq Callers,
         raced' \in BOOLEAN /\ clashed' \in BOOLEAN
  PROVE  IInv'
BY DEF IInv, TypeOK, RedirectsDecrease, tables

LEMMA CallStep ==
  ASSUME IInv, NEW c \in Callers, NEW op \in Ops, NEW input \in Seq(Aliases),
         Len(input) > 0, op = "put_work" => input \in Bundles,
         op = "put_edges" => Len(input) = 2,
         NEW s \in Sources, NEW t \in Stamps, Call(c, op, input, s, t)
  PROVE  IInv'
<1> DEFINE q == [Idle EXCEPT !.op = op, !.step = "get_alias",
                             !.args = input, !.source = s, !.at = t]
<1>1. Idle \in Requests /\ Idle.pos = 1
  BY IdleRequest DEF Idle
<1>2. q \in Requests
  BY <1>1, StepNames DEF Requests
<1>3. /\ q.op = op /\ q.step = "get_alias" /\ q.args = input /\ q.pos = 1
  BY <1>1 DEF Requests
<1>4. Shape(q)
  <2> HIDE DEF q
  <2>1. Len(q.args) \in Nat /\ Len(q.args) > 0 /\ Len(q.args) = Len(input)
    BY <1>3
  <2>2. q.pos \in 1 .. Len(q.args)
    BY <1>3, <2>1
  <2>3. QED BY <1>3, <2>1, <2>2 DEF Shape
<1>5. req' = [req EXCEPT ![c] = q]
  BY DEF Call
<1>6. req' \in [Callers -> Requests] /\ \A d \in Callers : Shape(req'[d])
  <2> HIDE DEF q
  <2> QED BY <1>2, <1>4, <1>5, RequestUpdate DEF IInv, TypeOK
<1>7. calls' \in 0 .. MaxCalls
  BY CatalogAssumption DEF Call, IInv, TypeOK
<1>8. witnessed' \subseteq Bundles
  BY DEF Call, IInv, TypeOK
<1>9. solo' \subseteq Callers /\ raced' \in BOOLEAN /\ clashed' \in BOOLEAN
  BY DEF Call, IInv, TypeOK
<1>10. UNCHANGED <<tables, issued, failures, acked>>
  BY DEF Call
<1>11. QED BY <1>6, <1>7, <1>8, <1>9, <1>10, TablesSame DEF IInv, TypeOK

LEMMA CallsStep ==
  ASSUME IInv, NEW c \in Callers,
         CallPutWork(c) \/ CallPutEdges(c) \/ CallGetWork(c) \/ CallDeleteWork(c)
  PROVE  IInv'
<1>0. Idle.source \in Sources /\ Idle.at \in Stamps
  BY IdleRequest, RequestFields
<1>1. CASE CallPutWork(c)
  <2>1. PICK b \in Bundles, s \in Sources, t \in Stamps : Call(c, "put_work", b, s, t)
    BY <1>1 DEF CallPutWork
  <2>2. b \in Seq(Aliases) /\ Len(b) > 0
    BY CatalogAssumption
  <2>3. QED BY <2>1, <2>2, CallStep DEF Ops
<1>2. CASE CallPutEdges(c)
  <2>1. PICK e \in Links, s \in Sources, t \in Stamps : Call(c, "put_edges", e, s, t)
    BY <1>2 DEF CallPutEdges
  <2>2. e \in Seq(Aliases) /\ Len(e) = 2
    BY CatalogAssumption
  <2>3. Len(e) > 0
    BY <2>2
  <2>4. QED BY <2>1, <2>2, <2>3, CallStep DEF Ops
<1>3. CASE CallGetWork(c)
  <2>1. PICK a \in Wanted : Call(c, "get_work", <<a>>, Idle.source, Idle.at)
    BY <1>3 DEF CallGetWork
  <2>2. <<a>> \in Seq(Aliases) /\ Len(<<a>>) > 0
    BY CatalogAssumption
  <2>3. QED BY <1>0, <2>1, <2>2, CallStep DEF Ops
<1>4. CASE CallDeleteWork(c)
  <2>1. PICK a \in Doomed : Call(c, "delete_work", <<a>>, Idle.source, Idle.at)
    BY <1>4 DEF CallDeleteWork
  <2>2. <<a>> \in Seq(Aliases) /\ Len(<<a>>) > 0
    BY CatalogAssumption
  <2>3. QED BY <1>0, <2>1, <2>2, CallStep DEF Ops
<1>5. QED BY <1>1, <1>2, <1>3, <1>4

LEMMA GetAliasStep ==
  ASSUME IInv, NEW c \in Callers, GetAlias(c)
  PROVE  IInv'
<1> DEFINE r == req[c]
           raw == alias[r.args[r.pos]]
<1>1. r \in Requests /\ Shape(r) /\ r.step = "get_alias"
  BY DEF IInv, TypeOK, GetAlias
<1>2. r.args[r.pos] \in Aliases
  <2>1. r.args \in Seq(Aliases) /\ r.pos \in 1 .. Len(r.args)
    BY <1>1, RequestFields DEF Shape
  <2>2. QED BY <2>1
<1>3. raw \in Ids \union {NoId}
  BY <1>2 DEF IInv, TypeOK
<1>4. req' \in [Callers -> Requests] /\ \A d \in Callers : Shape(req'[d])
  <2>1. CASE raw # NoId /\ req' = [req EXCEPT ![c] = [r EXCEPT !.step = "resolve_live", !.cur = raw]]
    <3> DEFINE q == [r EXCEPT !.step = "resolve_live", !.cur = raw]
    <3>1. q \in Requests
      BY <1>1, <1>3, StepNames DEF Requests
    <3>2. /\ q.step = "resolve_live" /\ q.cur = raw /\ q.op = r.op /\ q.pos = r.pos
          /\ q.args = r.args /\ q.left = r.left
      BY <1>1 DEF Requests
    <3>3. Shape(q)
      <4> HIDE DEF q, raw
      <4> QED BY <1>1, <1>3, <2>1, <3>2 DEF Shape
    <3>4. req' = [req EXCEPT ![c] = q]
      BY <2>1
    <3> HIDE DEF q
    <3>5. QED BY <3>1, <3>3, <3>4, RequestUpdate DEF IInv, TypeOK
  <2>2. CASE r.op = "put_work" /\ req' = [req EXCEPT ![c] = Looked(r, r.found)]
    BY <1>1, <2>2, RequestFields, LookedRequest, RequestUpdate DEF IInv, TypeOK
  <2>3. CASE r.op = "put_edges" /\ req' = [req EXCEPT ![c] = [r EXCEPT !.step = "create_node"]]
    <3> DEFINE q == [r EXCEPT !.step = "create_node"]
    <3>1. q \in Requests
      BY <1>1, StepNames DEF Requests
    <3>2. /\ q.step = "create_node" /\ q.op = r.op /\ q.pos = r.pos
          /\ q.args = r.args /\ q.left = r.left
      BY <1>1 DEF Requests
    <3>3. Shape(q)
      <4> HIDE DEF q
      <4> QED BY <1>1, <2>3, <3>2 DEF Shape
    <3>4. req' = [req EXCEPT ![c] = q]
      BY <2>3
    <3> HIDE DEF q
    <3>5. QED BY <3>1, <3>3, <3>4, RequestUpdate DEF IInv, TypeOK
  <2>4. CASE Return(c)
    BY <2>4, ReturnStep
  <2>5. QED BY <2>1, <2>2, <2>3, <2>4 DEF GetAlias
<1>5. UNCHANGED <<tables, issued, calls, failures, history>>
  BY DEF GetAlias
<1>6. QED BY <1>4, <1>5, TablesSame DEF IInv, TypeOK, history

LEMMA ResolveLiveStep ==
  ASSUME IInv, NEW c \in Callers, ResolveLive(c)
  PROVE  IInv'
<1> DEFINE r == req[c]
           live == Root(merged_into, r.cur)
<1>1. r \in Requests /\ Shape(r) /\ r.step = "resolve_live" /\ r.cur \in Ids
  BY DEF IInv, TypeOK, ResolveLive, Shape
<1>2. merged_into \in Redirection /\ Decreasing(merged_into)
  BY DEF IInv, TypeOK, RedirectsDecrease, Decreasing
<1>3. UNCHANGED <<nodes, alias, node_assertion, edge, edge_assertion,
                  issued, calls, failures, acked, witnessed, solo, raced, clashed>>
  BY DEF ResolveLive, history
<1>4. CASE Resolves(r.cur)
  <2>1. live \in Ids
    BY <1>1, <1>2, RootProperty, ChainStarts
  <2>2. merged_into' = Compressed(merged_into, r.cur)
    BY <1>4 DEF ResolveLive
  <2>3. merged_into' \in Redirection /\ RedirectsDecrease'
    BY <1>1, <1>2, <2>2, CompressedDecreases DEF RedirectsDecrease, Decreasing
  <2>4. req' \in [Callers -> Requests] /\ \A d \in Callers : Shape(req'[d])
    <3>1. CASE r.op = "put_work"
      <4>1. req' = [req EXCEPT ![c] = Looked(r, r.found \union {live})]
        BY <1>4, <3>1 DEF ResolveLive
      <4>2. r.found \union {live} \in SUBSET Ids
        BY <1>1, <2>1, RequestFields
      <4>3. QED BY <1>1, <3>1, <4>1, <4>2, LookedRequest, RequestUpdate DEF IInv, TypeOK
    <3>2. CASE r.op = "put_edges"
      <4>1. req' = [req EXCEPT ![c] = Settled(r, live)]
        BY <1>4, <3>2 DEF ResolveLive
      <4>2. QED BY <1>1, <2>1, <3>2, <4>1, SettledRequest, RequestUpdate DEF IInv, TypeOK
    <3>3. CASE r.op \notin {"put_work", "put_edges"}
      <4>1. PICK s \in {"read_node", "delete_network"} :
              req' = [req EXCEPT ![c] = [r EXCEPT !.step = s, !.cur = live]]
        BY <1>4, <3>3 DEF ResolveLive
      <4> DEFINE q == [r EXCEPT !.step = s, !.cur = live]
      <4>2. q \in Requests
        BY <1>1, <2>1, StepNames DEF Requests
      <4>3. /\ q.step = s /\ q.cur = live /\ q.op = r.op /\ q.pos = r.pos
            /\ q.args = r.args /\ q.left = r.left
        BY <1>1 DEF Requests
      <4>4. Shape(q)
        <5> HIDE DEF q, live
        <5> QED BY <1>1, <2>1, <3>3, <4>3 DEF Shape
      <4>5. req' = [req EXCEPT ![c] = q]
        BY <4>1
      <4> HIDE DEF q
      <4>6. QED BY <4>2, <4>4, <4>5, RequestUpdate DEF IInv, TypeOK
    <3>4. QED BY <3>1, <3>2, <3>3
  <2>5. QED BY <1>3, <2>3, <2>4 DEF IInv, TypeOK
<1>5. CASE ~Resolves(r.cur)
  <2>1. Return(c) /\ UNCHANGED merged_into
    BY <1>5 DEF ResolveLive
  <2>2. QED BY <1>3, <2>1, ReturnStep DEF IInv, TypeOK, RedirectsDecrease
<1>6. QED BY <1>4, <1>5

LEMMA CreateNodeStep ==
  ASSUME IInv, NEW c \in Callers, CreateNode(c)
  PROVE  IInv'
<1> DEFINE r == req[c]
<1>1. r \in Requests /\ Shape(r) /\ r.step = "create_node"
  BY DEF IInv, TypeOK, CreateNode
<1>2. PICK n \in Ids \ issued :
        /\ issued' = issued \union {n}
        /\ nodes' = nodes \union {n}
        /\ req' = [req EXCEPT ![c] =
             [r EXCEPT !.step = "get_or_create_alias", !.cur = n,
                       !.pos = IF r.op = "put_work" THEN 1 ELSE @]]
  BY DEF CreateNode
<1> DEFINE p == IF r.op = "put_work" THEN 1 ELSE r.pos
           q == [r EXCEPT !.step = "get_or_create_alias", !.cur = n, !.pos = p]
<1>3. p \in Nat \ {0} /\ p \in 1 .. Len(r.args) /\ (r.op = "put_edges" => p = r.pos)
  BY <1>1, RequestFields DEF Shape
<1>4. q \in Requests
  <2> HIDE DEF p
  <2> QED BY <1>1, <1>3, StepNames DEF Requests
<1>5. /\ q.step = "get_or_create_alias" /\ q.cur = n /\ q.op = r.op /\ q.pos = p
      /\ q.args = r.args /\ q.left = r.left
  BY <1>1 DEF Requests
<1>6. Shape(q)
  <2> HIDE DEF q, p
  <2> QED BY <1>1, <1>3, <1>5 DEF Shape
<1>7. req' = [req EXCEPT ![c] = q]
  BY <1>2
<1>8. req' \in [Callers -> Requests] /\ \A d \in Callers : Shape(req'[d])
  <2> HIDE DEF q
  <2> QED BY <1>4, <1>6, <1>7, RequestUpdate DEF IInv, TypeOK
<1>9. UNCHANGED <<merged_into, alias, node_assertion, edge, edge_assertion,
                  calls, failures, acked, witnessed, solo, raced, clashed>>
  BY DEF CreateNode, history
<1>10. QED BY <1>2, <1>8, <1>9 DEF IInv, TypeOK, RedirectsDecrease

(* What the four table rewrites of a merge keep: the kinds of their rows.  *)
LEMMA MergeRows ==
  ASSUME TypeOK, NEW l \in Ids, NEW s \in Ids
  PROVE  /\ [a \in Aliases |-> Renamed(alias[a], l, s)] \in [Aliases -> Ids \union {NoId}]
         /\ NodeFolded(l, s) \subseteq NodeRows
         /\ {<<Renamed(e[1], l, s), Renamed(e[2], l, s)>> : e \in edge} \subseteq Ids \X Ids
         /\ EdgeFolded(l, s) \subseteq EdgeRows
<1>1. \A x \in Ids : Renamed(x, l, s) \in Ids
  BY DEF Renamed
<1>2. [a \in Aliases |-> Renamed(alias[a], l, s)] \in [Aliases -> Ids \union {NoId}]
  BY DEF Renamed, TypeOK
<1>3. \A r \in node_assertion : [r EXCEPT !.node = Renamed(@, l, s)] \in NodeRows
  BY <1>1 DEF TypeOK, NodeRows
<1>4. NodeFolded(l, s) \subseteq NodeRows
  BY <1>3 DEF NodeFolded
<1>5. {<<Renamed(e[1], l, s), Renamed(e[2], l, s)>> : e \in edge} \subseteq Ids \X Ids
  BY <1>1 DEF TypeOK
<1>6. \A r \in edge_assertion :
        [r EXCEPT !.src = Renamed(@, l, s), !.dst = Renamed(@, l, s)] \in EdgeRows
  BY <1>1 DEF TypeOK, EdgeRows
<1>7. EdgeFolded(l, s) \subseteq EdgeRows
  BY <1>6 DEF EdgeFolded
<1>8. QED BY <1>2, <1>4, <1>5, <1>7

(* put_work's merge loop picks two distinct ids, the survivor the lesser.  *)
LEMMA MergePair ==
  ASSUME NEW G \in SUBSET Ids, \E m, n \in G : m # n
  PROVE  /\ Least(G) \in G /\ Least(G \ {Least(G)}) \in G
         /\ Least(G) < Least(G \ {Least(G)})
<1>1. G \in SUBSET Nat /\ G # {}
  BY IdsAssumption
<1>2. Least(G) \in G /\ \A y \in G : Least(G) <= y
  BY <1>1, LeastProperty
<1> DEFINE H == G \ {Least(G)}
<1>3. H \in SUBSET Nat /\ H # {}
  <2>1. \E m \in G : m # Least(G)
    OBVIOUS
  <2>2. QED BY <1>1, <2>1
<1>4. Least(H) \in H
  <2> HIDE DEF H
  <2> QED BY <1>3, LeastProperty
<1>5. Least(H) \in G /\ Least(H) # Least(G)
  BY <1>4
<1>6. Least(G) \in Nat /\ Least(H) \in Nat /\ Least(G) <= Least(H)
  BY <1>1, <1>2, <1>5
<1>7. QED BY <1>2, <1>5, <1>6

LEMMA MergeStep ==
  ASSUME IInv, NEW c \in Callers, Merge(c)
  PROVE  IInv'
<1> DEFINE r == req[c]
           survivor == Least(r.found)
           loser == Least(r.found \ {survivor})
<1>1. r \in Requests /\ Shape(r) /\ r.step = "merge" /\ r.op = "put_work" /\ r.found \in SUBSET Ids
  BY RequestFields DEF IInv, TypeOK, Merge, Shape
<1>2. survivor \in r.found /\ loser \in r.found /\ survivor < loser
  <2>1. \E m, n \in r.found : m # n
    BY <1>1 DEF Shape
  <2>2. QED BY <1>1, <2>1, MergePair
<1>3. survivor \in Ids /\ loser \in Ids /\ survivor # loser
  <2> HIDE DEF survivor, loser
  <2>1. survivor \in Ids /\ loser \in Ids /\ survivor \in Nat
    BY <1>1, <1>2, IdsAssumption
  <2>2. QED BY <1>2, <2>1
<1>4. merged_into' \in Redirection /\ RedirectsDecrease'
  <2>1. merged_into' = [merged_into EXCEPT ![loser] = IF loser \in nodes THEN survivor ELSE @]
    BY DEF Merge
  <2> HIDE DEF survivor, loser
  <2>2. merged_into' \in Redirection
    BY <1>3, <2>1 DEF IInv, TypeOK, Redirection
  <2>3. ASSUME NEW n \in Ids, merged_into'[n] # NoId PROVE merged_into'[n] < n
    BY <1>2, <1>3, <2>1, <2>3 DEF IInv, TypeOK, Redirection, RedirectsDecrease
  <2>4. QED BY <2>2, <2>3 DEF RedirectsDecrease
<1>5. /\ alias' = [a \in Aliases |-> Renamed(alias[a], loser, survivor)]
      /\ node_assertion' = NodeFolded(loser, survivor)
      /\ edge' = {<<Renamed(e[1], loser, survivor), Renamed(e[2], loser, survivor)>> : e \in edge}
      /\ edge_assertion' = EdgeFolded(loser, survivor)
      /\ UNCHANGED <<nodes, issued, calls, failures, acked, witnessed, solo, raced, clashed>>
  BY DEF Merge, history
<1>6. req' \in [Callers -> Requests] /\ \A d \in Callers : Shape(req'[d])
  <2>1. CASE r.found = {survivor, loser}
    <3> DEFINE q == [r EXCEPT !.step = "get_or_create_alias", !.pos = 1, !.cur = survivor,
                              !.found = {survivor}]
    <3>1. q \in Requests
      <4>1. 1 \in Nat \ {0} /\ {survivor} \in SUBSET Ids
        BY <1>3
      <4> HIDE DEF survivor
      <4>2. QED BY <1>1, <1>3, <4>1, StepNames DEF Requests
    <3>2. /\ q.step = "get_or_create_alias" /\ q.cur = survivor /\ q.op = r.op
          /\ q.pos = 1 /\ q.args = r.args
      BY <1>1 DEF Requests
    <3>3. req' = [req EXCEPT ![c] = q]
      BY <2>1 DEF Merge
    <3>4. Shape(q)
      <4>1. 1 \in 1 .. Len(r.args)
        BY <1>1, RequestFields DEF Shape
      <4> HIDE DEF q, survivor
      <4>2. QED BY <1>1, <1>3, <3>2, <4>1 DEF Shape
    <3> HIDE DEF q
    <3>5. QED BY <3>1, <3>3, <3>4, RequestUpdate DEF IInv, TypeOK
  <2>2. CASE r.found # {survivor, loser}
    <3> DEFINE q == [r EXCEPT !.found = @ \ {loser}]
    <3>1. q \in Requests
      BY <1>1 DEF Requests
    <3>2. /\ q.step = "merge" /\ q.op = r.op /\ q.pos = r.pos /\ q.args = r.args
          /\ q.found = r.found \ {loser}
      BY <1>1 DEF Requests
    <3>3. \E m, n \in q.found : m # n
      <4> HIDE DEF q, survivor, loser
      <4>1. PICK d \in r.found : d # survivor /\ d # loser
        BY <1>2, <2>2
      <4>2. QED BY <1>2, <1>3, <3>2, <4>1
    <3>4. req' = [req EXCEPT ![c] = q]
      BY <2>2 DEF Merge
    <3>5. Shape(q)
      <4> HIDE DEF q
      <4> QED BY <1>1, <3>2, <3>3 DEF Shape
    <3> HIDE DEF q
    <3>6. QED BY <3>1, <3>4, <3>5, RequestUpdate DEF IInv, TypeOK
  <2>3. QED BY <2>1, <2>2
<1>7. QED
  <2> HIDE DEF survivor, loser
  <2> QED BY <1>3, <1>4, <1>5, <1>6, MergeRows DEF IInv, TypeOK

LEMMA AttachAliasStep ==
  ASSUME IInv, NEW c \in Callers, AttachAlias(c)
  PROVE  IInv'
<1> DEFINE r == req[c]
<1>1. r \in Requests /\ Shape(r) /\ r.step = "get_or_create_alias" /\ r.cur \in Ids
  BY DEF IInv, TypeOK, AttachAlias, Shape
<1>2. alias' \in [Aliases -> Ids \union {NoId}]
  BY <1>1 DEF IInv, TypeOK, AttachAlias, AliasTaken
<1>3. req' \in [Callers -> Requests] /\ \A d \in Callers : Shape(req'[d])
  <2>1. CASE r.op = "put_edges"
    <3>1. req' = [req EXCEPT ![c] = Settled(r, r.cur)]
      BY <2>1 DEF AttachAlias
    <3>2. QED BY <1>1, <2>1, <3>1, SettledRequest, RequestUpdate DEF IInv, TypeOK
  <2>2. CASE r.op # "put_edges" /\ r.pos < Len(r.args)
    <3> DEFINE q == [r EXCEPT !.pos = @ + 1]
    <3>1. r.pos + 1 \in Nat \ {0} /\ r.pos + 1 \in 1 .. Len(r.args)
      BY <1>1, <2>2, RequestFields
    <3>2. q \in Requests
      BY <1>1, <3>1 DEF Requests
    <3>3. /\ q.step = r.step /\ q.op = r.op /\ q.pos = r.pos + 1 /\ q.args = r.args
          /\ q.cur = r.cur
      BY <1>1 DEF Requests
    <3>4. Shape(q)
      <4> HIDE DEF q
      <4> QED BY <1>1, <2>2, <3>1, <3>3 DEF Shape
    <3>5. req' = [req EXCEPT ![c] = q]
      BY <2>2 DEF AttachAlias
    <3> HIDE DEF q
    <3>6. QED BY <3>2, <3>4, <3>5, RequestUpdate DEF IInv, TypeOK
  <2>3. CASE r.op # "put_edges" /\ ~(r.pos < Len(r.args))
    <3> DEFINE q == [r EXCEPT !.step = "upsert_node_assertion"]
    <3>1. q \in Requests
      BY <1>1, StepNames DEF Requests
    <3>2. /\ q.step = "upsert_node_assertion" /\ q.op = r.op /\ q.pos = r.pos
          /\ q.args = r.args /\ q.cur = r.cur
      BY <1>1 DEF Requests
    <3>3. Shape(q)
      <4>1. r.op = "put_work"
        BY <1>1, <2>3 DEF Shape
      <4> HIDE DEF q
      <4> QED BY <1>1, <3>2, <4>1 DEF Shape
    <3>4. req' = [req EXCEPT ![c] = q]
      BY <2>3 DEF AttachAlias
    <3> HIDE DEF q
    <3>5. QED BY <3>1, <3>3, <3>4, RequestUpdate DEF IInv, TypeOK
  <2>4. QED BY <2>1, <2>2, <2>3
<1>4. UNCHANGED <<nodes, merged_into, node_assertion, edge, edge_assertion,
                  issued, calls, failures, acked, witnessed, solo, raced, clashed>>
  BY DEF AttachAlias, history
<1>5. QED BY <1>2, <1>3, <1>4 DEF IInv, TypeOK, RedirectsDecrease

LEMMA UpsertNodeAssertionStep ==
  ASSUME IInv, NEW c \in Callers, UpsertNodeAssertion(c)
  PROVE  IInv'
<1> DEFINE r == req[c]
<1>1. /\ r \in Requests /\ r.cur \in Ids /\ r.args \in Bundles
      /\ r.source \in Sources /\ r.at \in Stamps
  BY RequestFields DEF IInv, TypeOK, UpsertNodeAssertion, Shape
<1>2. node_assertion' \subseteq NodeRows
  <2>1. [node |-> r.cur, source |-> r.source, at |-> r.at] \in NodeRows
    BY <1>1 DEF NodeRows
  <2>2. QED BY <2>1 DEF IInv, TypeOK, UpsertNodeAssertion, NodeUpsert
<1>3. acked' \subseteq [bundle : Bundles, id : Ids]
  <2>1. [bundle |-> r.args, id |-> r.cur] \in [bundle : Bundles, id : Ids]
    BY <1>1
  <2>2. QED BY <2>1 DEF IInv, TypeOK, UpsertNodeAssertion
<1>4. req' \in [Callers -> Requests] /\ \A d \in Callers : Shape(req'[d])
  BY ReturnStep DEF UpsertNodeAssertion
<1>5. UNCHANGED <<nodes, merged_into, alias, edge, edge_assertion,
                  issued, calls, failures, witnessed, solo, raced, clashed>>
  BY DEF UpsertNodeAssertion
<1>6. QED BY <1>2, <1>3, <1>4, <1>5 DEF IInv, TypeOK, RedirectsDecrease

LEMMA PutEdgeStep ==
  ASSUME IInv, NEW c \in Callers, PutEdge(c) \/ TornPutEdge(c)
  PROVE  IInv'
<1> DEFINE r == req[c]
<1>1. /\ r \in Requests /\ r.cur \in Ids /\ r.left \in Ids
      /\ r.source \in Sources /\ r.at \in Stamps
  BY RequestFields DEF IInv, TypeOK, PutEdge, TornPutEdge, Shape
<1>2. edge' \subseteq Ids \X Ids
  BY <1>1 DEF IInv, TypeOK, PutEdge, TornPutEdge
<1>3. edge_assertion' \subseteq EdgeRows
  <2>1. [src |-> r.left, dst |-> r.cur, source |-> r.source, at |-> r.at] \in EdgeRows
    BY <1>1 DEF EdgeRows
  <2>2. QED BY <2>1 DEF IInv, TypeOK, PutEdge, TornPutEdge, EdgeUpsert
<1>4. failures' \in 0 .. MaxFailures
  BY CatalogAssumption DEF IInv, TypeOK, PutEdge, TornPutEdge
<1>5. req' \in [Callers -> Requests] /\ \A d \in Callers : Shape(req'[d])
  BY ReturnStep DEF PutEdge, TornPutEdge
<1>6. UNCHANGED <<nodes, merged_into, alias, node_assertion, issued, calls,
                  acked, witnessed, solo, raced, clashed>>
  BY DEF PutEdge, TornPutEdge, history
<1>7. QED BY <1>2, <1>3, <1>4, <1>5, <1>6 DEF IInv, TypeOK, RedirectsDecrease

LEMMA DeleteNetworkStep ==
  ASSUME IInv, NEW c \in Callers, DeleteNetwork(c)
  PROVE  IInv'
<1> DEFINE net == NetworkOf(merged_into, nodes, req[c].cur)
<1>1. /\ nodes' = nodes \ net
      /\ merged_into' = [n \in Ids |-> IF n \in net THEN NoId ELSE merged_into[n]]
      /\ node_assertion' \subseteq node_assertion
      /\ edge' \subseteq edge /\ edge_assertion' \subseteq edge_assertion
      /\ acked' \subseteq acked
      /\ UNCHANGED <<issued, calls, failures, witnessed, solo, raced, clashed>>
  BY DEF DeleteNetwork
<1>2. alias' \in [Aliases -> Ids \union {NoId}]
  BY DEF DeleteNetwork, IInv, TypeOK
<1>3. merged_into' \in Redirection /\ RedirectsDecrease'
  <2> HIDE DEF net
  <2> QED BY <1>1 DEF IInv, TypeOK, Redirection, RedirectsDecrease
<1>4. req' \in [Callers -> Requests] /\ \A d \in Callers : Shape(req'[d])
  BY ReturnStep DEF DeleteNetwork
<1>5. QED
  <2> HIDE DEF net
  <2> QED BY <1>1, <1>2, <1>3, <1>4 DEF IInv, TypeOK

LEMMA EndStep ==
  ASSUME IInv, NEW c \in Callers, ReadNode(c) \/ Fail(c)
  PROVE  IInv'
<1>1. req' \in [Callers -> Requests] /\ \A d \in Callers : Shape(req'[d])
  BY ReturnStep DEF ReadNode, Fail
<1>2. failures' \in 0 .. MaxFailures
  BY CatalogAssumption DEF IInv, TypeOK, ReadNode, Fail
<1>3. UNCHANGED <<tables, issued, calls, acked, witnessed, solo, raced, clashed>>
  BY DEF ReadNode, Fail, history
<1>4. QED BY <1>1, <1>2, <1>3, TablesSame DEF IInv, TypeOK
------------------------------------------------------------------------------
LEMMA Initial == Init => IInv
<1> SUFFICES ASSUME Init PROVE IInv
  OBVIOUS
<1>1. 0 \in 0 .. MaxCalls /\ 0 \in 0 .. MaxFailures
  BY CatalogAssumption
<1>2. req \in [Callers -> Requests] /\ \A c \in Callers : Shape(req[c])
  BY IdleRequest DEF Init
<1>3. merged_into \in Redirection /\ RedirectsDecrease
  BY DEF Init, Redirection, RedirectsDecrease
<1>4. QED BY <1>1, <1>2, <1>3 DEF Init, IInv, TypeOK

LEMMA Inductive == IInv /\ [Next]_vars => IInv'
<1> SUFFICES ASSUME IInv, [Next]_vars PROVE IInv'
  OBVIOUS
<1>1. ASSUME NEW c \in Callers,
             CallPutWork(c) \/ CallPutEdges(c) \/ CallGetWork(c) \/ CallDeleteWork(c)
      PROVE  IInv'
  BY <1>1, CallsStep
<1>2. ASSUME NEW c \in Callers, GetAlias(c) PROVE IInv'
  BY <1>2, GetAliasStep
<1>3. ASSUME NEW c \in Callers, ResolveLive(c) PROVE IInv'
  BY <1>3, ResolveLiveStep
<1>4. ASSUME NEW c \in Callers, CreateNode(c) PROVE IInv'
  BY <1>4, CreateNodeStep
<1>5. ASSUME NEW c \in Callers, Merge(c) PROVE IInv'
  BY <1>5, MergeStep
<1>6. ASSUME NEW c \in Callers, AttachAlias(c) PROVE IInv'
  BY <1>6, AttachAliasStep
<1>7. ASSUME NEW c \in Callers, UpsertNodeAssertion(c) PROVE IInv'
  BY <1>7, UpsertNodeAssertionStep
<1>8. ASSUME NEW c \in Callers, PutEdge(c) \/ TornPutEdge(c) PROVE IInv'
  BY <1>8, PutEdgeStep
<1>9. ASSUME NEW c \in Callers, DeleteNetwork(c) PROVE IInv'
  BY <1>9, DeleteNetworkStep
<1>10. ASSUME NEW c \in Callers, ReadNode(c) \/ Fail(c) PROVE IInv'
  BY <1>10, EndStep
<1>11. CASE UNCHANGED vars
  BY <1>11, TablesSame DEF IInv, TypeOK, vars, tables
<1>12. QED
  BY <1>1, <1>2, <1>3, <1>4, <1>5, <1>6, <1>7, <1>8, <1>9, <1>10, <1>11
     DEF Next, Quiet

LEMMA Invariant == Spec => []IInv
BY Initial, Inductive, PTL DEF Spec

(* Every step of every use case stores rows of the right kinds and has in  *)
(* hand what it is about to write.                                         *)
THEOREM TypeCorrect == Spec => []TypeOK
<1>1. IInv => TypeOK
  BY DEF IInv
<1>2. QED BY <1>1, Invariant, PTL

(* However put_work, put_edges and delete_work interleave and fail, every  *)
(* redirect points to a smaller guid: resolve_live's walk cannot cycle.    *)
THEOREM RedirectsAcyclic == Spec => []RedirectsDecrease
<1>1. IInv => RedirectsDecrease
  BY DEF IInv
<1>2. QED BY <1>1, Invariant, PTL

(* Hence resolve_live's walk, wherever it starts and whatever interleaving *)
(* led there, ends at one id, which is live or unknown to the node table.  *)
THEOREM WalkEnds ==
  Spec => [](\A n \in Ids : \E r \in Chain(merged_into, n) :
               merged_into[r] = NoId /\ \A q \in Chain(merged_into, n) : merged_into[q] = NoId => q = r)
<1>1. ASSUME IInv
      PROVE  \A n \in Ids : \E r \in Chain(merged_into, n) :
               merged_into[r] = NoId /\ \A q \in Chain(merged_into, n) : merged_into[q] = NoId => q = r
  <2>1. merged_into \in Redirection /\ Decreasing(merged_into)
    BY <1>1 DEF IInv, TypeOK, RedirectsDecrease, Decreasing
  <2>2. QED BY <2>1, RootProperty, OneLiveId
<1>2. QED BY <1>1, Invariant, PTL

(* A guid that forwards never answers for itself again: compression and    *)
(* merges replace a redirect by a redirect, and only a delete, with the    *)
(* node itself, removes one.                                               *)
LEMMA RedirectKept ==
  ASSUME IInv, [Next]_vars, NEW n \in nodes, merged_into[n] # NoId, n \in nodes'
  PROVE  merged_into'[n] # NoId
<1>0. merged_into \in Redirection /\ Decreasing(merged_into) /\ n \in Ids
  BY DEF IInv, TypeOK, RedirectsDecrease, Decreasing
<1>1. CASE UNCHANGED merged_into
  BY <1>1
<1>2. ASSUME NEW c \in Callers, ResolveLive(c), ~UNCHANGED merged_into
      PROVE  merged_into'[n] # NoId
  <2>1. req[c].cur \in Ids
    BY <1>2 DEF IInv, ResolveLive, Shape
  <2>2. merged_into' = Compressed(merged_into, req[c].cur)
    BY <1>2 DEF ResolveLive
  <2>3. Root(merged_into, req[c].cur) \in Ids
    BY <1>0, <2>1, RootProperty, ChainStarts
  <2>4. QED BY <1>0, <2>2, <2>3, IdsAssumption DEF Compressed
<1>3. ASSUME NEW c \in Callers, Merge(c)
      PROVE  merged_into'[n] # NoId
  <2> DEFINE survivor == Least(req[c].found)
             loser == Least(req[c].found \ {survivor})
  <2>1. survivor \in Ids
    <3>1. req[c] \in Requests /\ Shape(req[c]) /\ req[c].step = "merge"
      BY <1>3 DEF IInv, TypeOK, Merge
    <3>2. \E l, m \in req[c].found : l # m
      BY <3>1 DEF Shape
    <3>3. QED BY <3>1, <3>2, RequestFields, MergePair
  <2>2. merged_into' = [merged_into EXCEPT ![loser] = IF loser \in nodes THEN survivor ELSE @]
    BY <1>3 DEF Merge
  <2> HIDE DEF survivor, loser
  <2>3. QED BY <1>0, <2>1, <2>2, IdsAssumption DEF Redirection
<1>4. ASSUME NEW c \in Callers, DeleteNetwork(c)
      PROVE  merged_into'[n] # NoId
  BY <1>0, <1>4 DEF DeleteNetwork
<1>5. QED
  BY <1>1, <1>2, <1>3, <1>4
     DEF Next, Call, CallPutWork, CallPutEdges, CallGetWork, CallDeleteWork, GetAlias,
         CreateNode, AttachAlias, UpsertNodeAssertion, PutEdge, TornPutEdge, ReadNode,
         Fail, Quiet, tables, vars

THEOREM RedirectsNeverUndone == Spec => RedirectsStay
<1>1. IInv /\ [Next]_vars =>
        [\A n \in nodes : merged_into[n] # NoId /\ n \in nodes' => merged_into'[n] # NoId]_vars
  BY RedirectKept
<1>2. QED BY <1>1, Invariant, PTL DEF Spec, RedirectsStay
------------------------------------------------------------------------------
(* Merges, under every interleaving: they never go too far, and keep the   *)
(* newest records.                                                         *)

(* The fields that put_work's next request has after a lookup. *)
LEMMA LookedFields ==
  ASSUME NEW r \in Requests, NEW G \in SUBSET Ids
  PROVE  LET q == Looked(r, G) IN
         /\ q.op = r.op /\ q.args = r.args /\ q.left = r.left
         /\ \/ /\ r.pos < Len(r.args) /\ q.step = "get_alias" /\ q.pos = r.pos + 1
               /\ q.found = G /\ q.cur = r.cur
            \/ /\ ~(r.pos < Len(r.args)) /\ q.step = "create_node" /\ q.pos = r.pos
               /\ G = {} /\ q.found = r.found /\ q.cur = r.cur
            \/ /\ ~(r.pos < Len(r.args)) /\ q.step = "get_or_create_alias" /\ q.pos = 1
               /\ q.found = G /\ G = {q.cur}
            \/ /\ ~(r.pos < Len(r.args)) /\ q.step = "merge" /\ q.pos = r.pos
               /\ q.found = G /\ q.cur = r.cur /\ G # {}
<1>1. CASE r.pos < Len(r.args)
  BY <1>1 DEF Looked, Requests
<1>2. CASE ~(r.pos < Len(r.args)) /\ G = {}
  BY <1>2 DEF Looked, Requests
<1>3. CASE ~(r.pos < Len(r.args)) /\ G # {} /\ G = {Least(G)}
  <2> DEFINE l == Least(G)
             q == [r EXCEPT !.step = "get_or_create_alias", !.pos = 1, !.cur = l, !.found = G]
  <2>1. Looked(r, G) = q
    BY <1>3 DEF Looked
  <2>2. G = {l}
    BY <1>3
  <2> HIDE DEF l
  <2>3. QED BY <1>3, <2>1, <2>2 DEF Requests
<1>4. CASE ~(r.pos < Len(r.args)) /\ G # {} /\ G # {Least(G)}
  BY <1>4 DEF Looked, Requests
<1>5. QED BY <1>1, <1>2, <1>3, <1>4

LEMMA SettledFields ==
  ASSUME NEW r \in Requests, NEW n \in Ids
  PROVE  LET q == Settled(r, n) IN
         /\ q.op = r.op /\ q.args = r.args /\ q.found = r.found
         /\ \/ r.pos = 1 /\ q.step = "get_alias" /\ q.pos = 2 /\ q.left = n /\ q.cur = r.cur
            \/ r.pos # 1 /\ q.step = "put_edge" /\ q.pos = r.pos /\ q.left = r.left /\ q.cur = n
BY DEF Settled, Requests

(* A step of one caller leaves the others' requests alone. *)
LEMMA OneRequest ==
  ASSUME IInv, NEW c \in Callers, NEW q, req' = [req EXCEPT ![c] = q]
  PROVE  req'[c] = q /\ \A d \in Callers : d # c => req'[d] = req[d]
BY DEF IInv, TypeOK

LEMMA IdleFields ==
  /\ Idle.step = "idle" /\ Idle.found = {} /\ Idle.cur = NoId /\ Idle.left = NoId
BY DEF Idle

(* A call's first request: nothing found yet. *)
LEMMA CallFields ==
  ASSUME IInv, NEW c \in Callers,
         CallPutWork(c) \/ CallPutEdges(c) \/ CallGetWork(c) \/ CallDeleteWork(c)
  PROVE  /\ req[c].step = "idle" /\ UNCHANGED <<tables, issued, failures, acked>>
         /\ req'[c].step = "get_alias" /\ req'[c].pos = 1
         /\ req'[c].found = {} /\ req'[c].cur = NoId /\ req'[c].left = NoId
         /\ \A d \in Callers : d # c => req'[d] = req[d]
         /\ IF req'[c].op = "put_work" THEN witnessed' = witnessed \union {req'[c].args}
            ELSE witnessed' = witnessed
         /\ LET others == {d \in Callers \ {c} : req[d].step # "idle"}
                deletes == req'[c].op = "delete_work" \/ \E d \in others : req[d].op = "delete_work"
            IN  /\ solo' = IF others = {} THEN {c} ELSE {}
                /\ raced' = (raced \/ others # {})
                /\ clashed' = (clashed \/ (others # {} /\ deletes))
<1>1. PICK op, input, s, t : Call(c, op, input, s, t)
  <2>1. CASE CallPutWork(c)
    BY <2>1 DEF CallPutWork
  <2>2. CASE CallPutEdges(c)
    BY <2>2 DEF CallPutEdges
  <2>3. CASE CallGetWork(c)
    BY <2>3 DEF CallGetWork
  <2>4. CASE CallDeleteWork(c)
    BY <2>4 DEF CallDeleteWork
  <2>5. QED BY <2>1, <2>2, <2>3, <2>4
<1> DEFINE q == [Idle EXCEPT !.op = op, !.step = "get_alias",
                             !.args = input, !.source = s, !.at = t]
<1>2. /\ q.op = op /\ q.step = "get_alias" /\ q.args = input /\ q.pos = 1
      /\ q.found = {} /\ q.cur = NoId /\ q.left = NoId
  BY DEF Idle
<1>3. req' = [req EXCEPT ![c] = q]
  BY <1>1 DEF Call
<1>4. req'[c] = q /\ \A d \in Callers : d # c => req'[d] = req[d]
  <2> HIDE DEF q
  <2> QED BY <1>3, OneRequest
<1> HIDE DEF q
<1>5. req[c].step = "idle" /\ UNCHANGED <<tables, issued, failures, acked>>
  BY <1>1 DEF Call
<1>6. IF op = "put_work" THEN witnessed' = witnessed \union {input} ELSE witnessed' = witnessed
  BY <1>1 DEF Call
<1>7. LET others == {d \in Callers \ {c} : req[d].step # "idle"}
          deletes == op = "delete_work" \/ \E d \in others : req[d].op = "delete_work"
      IN  /\ solo' = IF others = {} THEN {c} ELSE {}
          /\ raced' = (raced \/ others # {})
          /\ clashed' = (clashed \/ (others # {} /\ deletes))
  BY <1>1 DEF Call
<1>8. QED BY <1>1, <1>2, <1>4, <1>5, <1>6, <1>7
(* The loser and the survivor of a merge are two ids of the request.       *)
LEMMA MergeTwo ==
  ASSUME IInv, NEW c \in Callers, Merge(c)
  PROVE  LET survivor == Least(req[c].found)
             loser == Least(req[c].found \ {survivor})
         IN  /\ survivor \in req[c].found /\ loser \in req[c].found
             /\ survivor \in Ids /\ loser \in Ids /\ survivor < loser /\ survivor # loser
             /\ req[c].op = "put_work" /\ req[c].found \subseteq Ids
<1>1. /\ req[c].op = "put_work" /\ req[c].found \subseteq Ids
      /\ \E m, n \in req[c].found : m # n
  BY RequestFields DEF IInv, TypeOK, Merge, Shape
<1> DEFINE s == Least(req[c].found)
           l == Least(req[c].found \ {s})
<1>2. s \in req[c].found /\ l \in req[c].found /\ s < l
  BY <1>1, MergePair
<1> HIDE DEF s, l
<1>3. s \in Nat /\ l \in Nat
  BY <1>1, <1>2, IdsAssumption
<1>4. QED BY <1>1, <1>2, <1>3 DEF s, l

(* What the caller's request is after a merge, for survivor s and loser l. *)
LEMMA MergeFields ==
  ASSUME IInv, NEW c \in Callers, Merge(c)
  PROVE  LET s == Least(req[c].found)
             l == Least(req[c].found \ {s})
             q == req'[c]
         IN  /\ q.op = "put_work" /\ q.args = req[c].args /\ q.left = req[c].left
             /\ \/ /\ req[c].found = {s, l} /\ q.step = "get_or_create_alias" /\ q.pos = 1
                   /\ q.cur = s /\ q.found = {s}
                \/ /\ q.step = "merge" /\ q.pos = req[c].pos /\ q.cur = req[c].cur
                   /\ q.found = req[c].found \ {l}
             /\ \A d \in Callers : d # c => req'[d] = req[d]
<1> DEFINE s == Least(req[c].found)
           l == Least(req[c].found \ {s})
           r == req[c]
<1>1. r \in Requests /\ r.op = "put_work" /\ r.step = "merge"
  BY MergeTwo DEF IInv, TypeOK, Merge
<1>2. req' = [req EXCEPT ![c] =
          IF r.found = {s, l}
          THEN [r EXCEPT !.step = "get_or_create_alias", !.pos = 1, !.cur = s, !.found = {s}]
          ELSE [r EXCEPT !.found = @ \ {l}]]
  BY DEF Merge
<1> HIDE DEF s, l
<1>3. /\ \A d \in Callers : d # c => req'[d] = req[d]
      /\ req'[c] = IF r.found = {s, l}
          THEN [r EXCEPT !.step = "get_or_create_alias", !.pos = 1, !.cur = s, !.found = {s}]
          ELSE [r EXCEPT !.found = @ \ {l}]
  BY <1>2 DEF IInv, TypeOK
<1>4. CASE r.found = {s, l}
  <2>1. req'[c] = [r EXCEPT !.step = "get_or_create_alias", !.pos = 1, !.cur = s, !.found = {s}]
    BY <1>3, <1>4
  <2>2. QED BY <1>1, <1>3, <1>4, <2>1 DEF Requests, s, l
<1>5. CASE r.found # {s, l}
  <2>1. req'[c] = [r EXCEPT !.found = @ \ {l}]
    BY <1>3, <1>5
  <2>2. QED BY <1>1, <1>3, <2>1 DEF Requests, s, l
<1>6. QED BY <1>4, <1>5

(* What the caller's request is after a lookup, ... *)
LEMMA GetAliasFields ==
  ASSUME IInv, NEW c \in Callers, GetAlias(c)
  PROVE  LET r == req[c]
             q == req'[c]
             raw == alias[r.args[r.pos]]
         IN  /\ r.step = "get_alias" /\ r.args[r.pos] \in Aliases
             /\ UNCHANGED <<tables, issued, calls, failures, history>>
             /\ \A d \in Callers : d # c => req'[d] = req[d]
             /\ \/ /\ raw # NoId /\ raw \in Ids /\ q.step = "resolve_live" /\ q.cur = raw
                   /\ q.op = r.op /\ q.args = r.args /\ q.pos = r.pos
                   /\ q.found = r.found /\ q.left = r.left
                \/ raw = NoId /\ r.op = "put_work" /\ q = Looked(r, r.found)
                \/ /\ raw = NoId /\ r.op = "put_edges" /\ q.step = "create_node"
                   /\ q.op = r.op /\ q.args = r.args /\ q.pos = r.pos
                   /\ q.found = r.found /\ q.left = r.left /\ q.cur = r.cur
                \/ raw = NoId /\ q = Idle /\ r.op \in {"get_work", "delete_work"}
<1> DEFINE r == req[c]
           raw == alias[r.args[r.pos]]
<1>1. r \in Requests /\ Shape(r) /\ r.step = "get_alias"
  BY DEF IInv, TypeOK, GetAlias
<1>2. r.args[r.pos] \in Aliases
  <2>1. r.args \in Seq(Aliases) /\ r.pos \in 1 .. Len(r.args)
    BY <1>1, RequestFields DEF Shape
  <2>2. QED BY <2>1
<1>3. raw \in Ids \union {NoId}
  BY <1>2 DEF IInv, TypeOK
<1>4. UNCHANGED <<tables, issued, calls, failures, history>>
  BY DEF GetAlias
<1>5. PICK q : /\ req' = [req EXCEPT ![c] = q]
               /\ \/ raw # NoId /\ q = [r EXCEPT !.step = "resolve_live", !.cur = raw]
                  \/ raw = NoId /\ r.op = "put_work" /\ q = Looked(r, r.found)
                  \/ raw = NoId /\ r.op = "put_edges" /\ q = [r EXCEPT !.step = "create_node"]
                  \/ raw = NoId /\ r.op \in {"get_work", "delete_work"} /\ q = Idle
  BY DEF GetAlias, Return
<1>6. req'[c] = q /\ \A d \in Callers : d # c => req'[d] = req[d]
  BY <1>5, OneRequest
<1>7. /\ raw # NoId => raw \in Ids
      /\ q = [r EXCEPT !.step = "resolve_live", !.cur = raw] =>
           /\ q.step = "resolve_live" /\ q.cur = raw
           /\ q.op = r.op /\ q.args = r.args /\ q.pos = r.pos
           /\ q.found = r.found /\ q.left = r.left
      /\ q = [r EXCEPT !.step = "create_node"] =>
           /\ q.step = "create_node"
           /\ q.op = r.op /\ q.args = r.args /\ q.pos = r.pos
           /\ q.found = r.found /\ q.left = r.left /\ q.cur = r.cur
  <2> HIDE DEF raw
  <2> QED BY <1>1, <1>3 DEF Requests
<1>8. QED BY <1>1, <1>2, <1>3, <1>4, <1>5, <1>6, <1>7

LEMMA ResolveLiveFields ==
  ASSUME IInv, NEW c \in Callers, ResolveLive(c)
  PROVE  LET r == req[c]
             q == req'[c]
             live == Root(merged_into, r.cur)
         IN  /\ r.step = "resolve_live" /\ r.cur \in Ids /\ live \in Ids
             /\ UNCHANGED <<nodes, alias, node_assertion, edge, edge_assertion,
                            issued, calls, failures, history>>
             /\ \A d \in Callers : d # c => req'[d] = req[d]
             /\ \/ /\ Resolves(r.cur) /\ merged_into' = Compressed(merged_into, r.cur)
                   /\ \/ r.op = "put_work" /\ q = Looked(r, r.found \union {live})
                      \/ r.op = "put_edges" /\ q = Settled(r, live)
                      \/ /\ r.op \notin {"put_work", "put_edges"} /\ q.op = r.op
                         /\ q.step \in {"read_node", "delete_network"}
                         /\ q.step = "delete_network" => q.op = "delete_work"
                         /\ q.cur = live /\ q.found = r.found /\ q.args = r.args
                         /\ q.left = r.left
                \/ ~Resolves(r.cur) /\ q = Idle /\ UNCHANGED merged_into
<1> DEFINE r == req[c]
           live == Root(merged_into, r.cur)
<1>1. r \in Requests /\ Shape(r) /\ r.step = "resolve_live" /\ r.cur \in Ids /\ r.op \in Ops
  BY RequestFields DEF IInv, TypeOK, ResolveLive, Shape
<1>2. live \in Ids
  BY <1>1, RootLive DEF IInv, TypeOK, RedirectsDecrease, Decreasing
<1>3. UNCHANGED <<nodes, alias, node_assertion, edge, edge_assertion,
                  issued, calls, failures, history>>
  BY DEF ResolveLive
<1>4. CASE ~Resolves(r.cur)
  <2>1. req' = [req EXCEPT ![c] = Idle] /\ UNCHANGED merged_into
    BY <1>4 DEF ResolveLive, Return
  <2>2. QED BY <1>1, <1>2, <1>3, <1>4, <2>1, OneRequest
<1>5. CASE Resolves(r.cur)
  <2>1. PICK q : /\ req' = [req EXCEPT ![c] = q]
                 /\ \/ r.op = "put_work" /\ q = Looked(r, r.found \union {live})
                    \/ r.op = "put_edges" /\ q = Settled(r, live)
                    \/ r.op = "get_work" /\ q = [r EXCEPT !.step = "read_node", !.cur = live]
                    \/ r.op = "delete_work" /\ q = [r EXCEPT !.step = "delete_network", !.cur = live]
    BY <1>1, <1>5 DEF ResolveLive, Ops
  <2>2. merged_into' = Compressed(merged_into, r.cur)
    BY <1>5 DEF ResolveLive
  <2>3. req'[c] = q /\ \A d \in Callers : d # c => req'[d] = req[d]
    BY <2>1, OneRequest
  <2> HIDE DEF live
  <2>4. \A s : LET w == [r EXCEPT !.step = s, !.cur = live]
              IN  /\ w.step = s /\ w.cur = live
                  /\ w.op = r.op /\ w.found = r.found /\ w.args = r.args
                  /\ w.left = r.left
    BY <1>1 DEF Requests
  <2>5. \/ r.op = "put_work" /\ q = Looked(r, r.found \union {live})
        \/ r.op = "put_edges" /\ q = Settled(r, live)
        \/ /\ r.op \notin {"put_work", "put_edges"} /\ q.op = r.op
           /\ q.step \in {"read_node", "delete_network"}
           /\ q.step = "delete_network" => q.op = "delete_work"
           /\ q.cur = live /\ q.found = r.found /\ q.args = r.args /\ q.left = r.left
    <3>1. CASE r.op = "get_work" /\ q = [r EXCEPT !.step = "read_node", !.cur = live]
      <4>1. /\ q.step = "read_node" /\ q.cur = live
            /\ q.op = r.op /\ q.found = r.found /\ q.args = r.args /\ q.left = r.left
        BY <2>4, <3>1
      <4>2. QED BY <3>1, <4>1
    <3>2. CASE r.op = "delete_work" /\ q = [r EXCEPT !.step = "delete_network", !.cur = live]
      <4>1. /\ q.step = "delete_network" /\ q.cur = live
            /\ q.op = r.op /\ q.found = r.found /\ q.args = r.args /\ q.left = r.left
        BY <2>4, <3>2
      <4>2. QED BY <3>2, <4>1
    <3>3. QED BY <2>1, <3>1, <3>2
  <2>6. QED BY <1>1, <1>2, <1>3, <1>5, <2>2, <2>3, <2>5 DEF live
<1>6. QED BY <1>4, <1>5

LEMMA CreateNodeFields ==
  ASSUME IInv, NEW c \in Callers, CreateNode(c)
  PROVE  LET r == req[c]
             q == req'[c]
         IN  /\ r.step = "create_node" /\ r.op \in {"put_work", "put_edges"}
             /\ UNCHANGED <<merged_into, alias, node_assertion, edge, edge_assertion,
                            calls, failures, history>>
             /\ \A d \in Callers : d # c => req'[d] = req[d]
             /\ q.cur \in Ids \ issued /\ issued' = issued \union {q.cur}
             /\ nodes' = nodes \union {q.cur}
             /\ q.step = "get_or_create_alias" /\ q.op = r.op /\ q.args = r.args
             /\ q.found = r.found /\ q.left = r.left
             /\ q.pos = IF r.op = "put_work" THEN 1 ELSE r.pos
<1> DEFINE r == req[c]
<1>1. r \in Requests /\ r.step = "create_node" /\ r.op \in {"put_work", "put_edges"}
  BY DEF IInv, TypeOK, CreateNode, Shape
<1>2. PICK n \in Ids \ issued :
        /\ issued' = issued \union {n}
        /\ nodes' = nodes \union {n}
        /\ req' = [req EXCEPT ![c] =
             [r EXCEPT !.step = "get_or_create_alias", !.cur = n,
                       !.pos = IF r.op = "put_work" THEN 1 ELSE @]]
  BY DEF CreateNode
<1> DEFINE q == [r EXCEPT !.step = "get_or_create_alias", !.cur = n,
                          !.pos = IF r.op = "put_work" THEN 1 ELSE @]
<1>3. req'[c] = q /\ \A d \in Callers : d # c => req'[d] = req[d]
  <2>1. req' = [req EXCEPT ![c] = q]
    BY <1>2
  <2> HIDE DEF q
  <2>2. QED BY <2>1, OneRequest
<1>4. /\ q.step = "get_or_create_alias" /\ q.cur = n /\ q.op = r.op /\ q.args = r.args
      /\ q.found = r.found /\ q.left = r.left
      /\ q.pos = IF r.op = "put_work" THEN 1 ELSE r.pos
  BY <1>1 DEF Requests
<1>5. UNCHANGED <<merged_into, alias, node_assertion, edge, edge_assertion,
                  calls, failures, history>>
  BY DEF CreateNode
<1> HIDE DEF q
<1>6. QED BY <1>1, <1>2, <1>3, <1>4, <1>5

LEMMA AttachAliasFields ==
  ASSUME IInv, NEW c \in Callers, AttachAlias(c)
  PROVE  LET r == req[c]
             q == req'[c]
             a == r.args[r.pos]
         IN  /\ r.step = "get_or_create_alias" /\ r.op \in {"put_work", "put_edges"}
             /\ r.cur \in Ids /\ a \in Aliases
             /\ alias' = IF alias[a] = NoId THEN [alias EXCEPT ![a] = r.cur] ELSE alias
             /\ UNCHANGED <<nodes, merged_into, node_assertion, edge, edge_assertion,
                            issued, calls, failures, history>>
             /\ \A d \in Callers : d # c => req'[d] = req[d]
             /\ \/ r.op = "put_edges" /\ q = Settled(r, r.cur)
                \/ /\ r.op = "put_work" /\ q.op = r.op /\ q.args = r.args
                   /\ q.found = r.found /\ q.cur = r.cur /\ q.left = r.left
                   /\ \/ r.pos < Len(r.args) /\ q.step = r.step /\ q.pos = r.pos + 1
                      \/ /\ r.pos = Len(r.args) /\ q.step = "upsert_node_assertion"
                         /\ q.pos = r.pos
<1> DEFINE r == req[c]
<1>1. /\ r \in Requests /\ Shape(r) /\ r.step = "get_or_create_alias" /\ r.cur \in Ids
      /\ r.op \in {"put_work", "put_edges"}
  BY DEF IInv, TypeOK, AttachAlias, Shape
<1>2. r.args \in Seq(Aliases) /\ r.pos \in 1 .. Len(r.args) /\ Len(r.args) \in Nat
  BY <1>1, RequestFields DEF Shape
<1>3. r.args[r.pos] \in Aliases
  BY <1>2
<1>4. /\ alias' = IF alias[r.args[r.pos]] = NoId
                  THEN [alias EXCEPT ![r.args[r.pos]] = r.cur] ELSE alias
      /\ UNCHANGED <<nodes, merged_into, node_assertion, edge, edge_assertion,
                     issued, calls, failures, history>>
  BY DEF AttachAlias, AliasTaken
<1>5. PICK q : /\ req' = [req EXCEPT ![c] = q]
               /\ \/ r.op = "put_edges" /\ q = Settled(r, r.cur)
                  \/ r.op = "put_work" /\ r.pos < Len(r.args) /\ q = [r EXCEPT !.pos = @ + 1]
                  \/ /\ r.op = "put_work" /\ ~(r.pos < Len(r.args))
                     /\ q = [r EXCEPT !.step = "upsert_node_assertion"]
  BY <1>1 DEF AttachAlias
<1>6. req'[c] = q /\ \A d \in Callers : d # c => req'[d] = req[d]
  BY <1>5, OneRequest
<1>7. r.pos < Len(r.args) \/ r.pos = Len(r.args)
  BY <1>2
<1>8. QED BY <1>1, <1>2, <1>3, <1>4, <1>5, <1>6, <1>7 DEF Requests

(* The steps that end a call. *)
Ends(c) ==
  UpsertNodeAssertion(c) \/ PutEdge(c) \/ TornPutEdge(c) \/ ReadNode(c) \/ DeleteNetwork(c) \/ Fail(c)

LEMMA EndFields ==
  ASSUME IInv, NEW c \in Callers, Ends(c)
  PROVE  /\ req'[c] = Idle /\ \A d \in Callers : d # c => req'[d] = req[d]
         /\ UNCHANGED <<issued, witnessed, solo, raced, clashed, calls>>
<1>1. req' = [req EXCEPT ![c] = Idle]
  BY DEF Ends, Return, UpsertNodeAssertion, PutEdge, TornPutEdge, ReadNode, DeleteNetwork, Fail
<1>2. UNCHANGED <<issued, witnessed, solo, raced, clashed, calls>>
  BY DEF Ends, UpsertNodeAssertion, PutEdge, TornPutEdge, ReadNode, DeleteNetwork, Fail, history
<1>3. QED BY <1>1, <1>2, OneRequest

(* Every step is one of these. *)
LEMMA StepCases ==
  ASSUME [Next]_vars
  PROVE  \/ UNCHANGED vars
         \/ \E c \in Callers :
              \/ CallPutWork(c) \/ CallPutEdges(c) \/ CallGetWork(c) \/ CallDeleteWork(c)
              \/ GetAlias(c) \/ ResolveLive(c) \/ CreateNode(c) \/ Merge(c) \/ AttachAlias(c)
              \/ Ends(c)
BY DEF Next, Quiet, Ends
------------------------------------------------------------------------------
(* Merging never goes too far.  Of any aliases S that no bundle links to   *)
(* the rest, the invariant says that the guids fall into two sides, T and  *)
(* the rest, which neither an alias, a redirect nor a request in flight    *)
(* crosses.  CreateNode puts the new guid on the side of its alias, which  *)
(* it may because nothing yet refers to a guid that was never issued.      *)

Referenced ==
  /\ \A n \in Ids : merged_into[n] # NoId => n \in issued /\ merged_into[n] \in issued
  /\ \A a \in Aliases : alias[a] # NoId => alias[a] \in issued
  /\ \A c \in Callers : req[c].found \subseteq issued /\ req[c].cur \in issued \union {NoId}

Submitted ==
  \A c \in Callers : req[c].step # "idle" /\ req[c].op = "put_work" => req[c].args \in witnessed

OneSide(r, S, T) ==
  r.step # "idle" =>
    /\ r.op = "put_work" => \A n \in r.found : n \in T <=> r.args[1] \in S
    /\ r.step \in {"resolve_live", "get_or_create_alias"} => (r.cur \in T <=> r.args[r.pos] \in S)

Sides(S, T) ==
  /\ \A a \in Aliases : alias[a] # NoId => (alias[a] \in T <=> a \in S)
  /\ \A n \in Ids : merged_into[n] # NoId => (merged_into[n] \in T <=> n \in T)
  /\ \A c \in Callers : OneSide(req[c], S, T)

SInv ==
  /\ Referenced /\ Submitted
  /\ \A S \in SUBSET Aliases : Unlinked(S) => \E T \in SUBSET Ids : Sides(S, T)

LEMMA BundleOneSide ==
  ASSUME IInv, Submitted, NEW S, Unlinked(S), NEW c \in Callers,
         req[c].step # "idle", req[c].op = "put_work"
  PROVE  /\ req[c].args \in Seq(Aliases) /\ req[c].pos \in 1 .. Len(req[c].args)
         /\ \A i, j \in 1 .. Len(req[c].args) : req[c].args[i] \in S <=> req[c].args[j] \in S
<1>1. /\ req[c].args \in Seq(Aliases) /\ req[c].pos \in 1 .. Len(req[c].args)
      /\ req[c].args \in witnessed
  BY RequestFields DEF IInv, TypeOK, Shape, Submitted
<1>2. DOMAIN req[c].args = 1 .. Len(req[c].args)
  BY <1>1
<1>3. QED BY <1>1, <1>2 DEF Unlinked

(* A walk keeps to its side, and visits issued guids only. *)
LEMMA WalkKeeps ==
  ASSUME IInv, NEW n \in Ids, NEW T \in SUBSET Ids,
         \A x \in Ids : merged_into[x] # NoId => (merged_into[x] \in T <=> x \in T)
  PROVE  \A x \in Chain(merged_into, n) : x \in T <=> n \in T
<1> DEFINE U == {x \in Ids : x \in T <=> n \in T}
<1>1. ClosedUnder(merged_into, U) /\ n \in U /\ U \in SUBSET Ids
  BY DEF ClosedUnder, IInv, TypeOK, Redirection
<1>2. Chain(merged_into, n) \subseteq U
  <2> HIDE DEF U
  <2> QED BY <1>1, ChainMinimal DEF IInv, TypeOK
<1>3. QED BY <1>2

LEMMA WalkIssued ==
  ASSUME IInv, Referenced, NEW n \in issued
  PROVE  n \in Ids /\ Chain(merged_into, n) \subseteq issued
<1>1. ClosedUnder(merged_into, issued) /\ issued \in SUBSET Ids
  BY DEF ClosedUnder, Referenced, IInv, TypeOK
<1>2. QED BY <1>1, ChainMinimal DEF IInv, TypeOK

LEMMA RootIssued ==
  ASSUME IInv, Referenced, NEW n \in issued
  PROVE  Root(merged_into, n) \in issued
<1>1. merged_into \in Redirection /\ Decreasing(merged_into)
  BY DEF IInv, TypeOK, RedirectsDecrease, Decreasing
<1>2. QED BY <1>1, WalkIssued, RootProperty

LEMMA SidesInitial == Init => SInv
<1> SUFFICES ASSUME Init PROVE SInv
  OBVIOUS
<1>1. Referenced /\ Submitted
  BY IdleFields DEF Init, Referenced, Submitted
<1>2. ASSUME NEW S \in SUBSET Aliases PROVE Sides(S, {})
  BY IdleFields DEF Init, Sides, OneSide
<1>3. QED BY <1>1, <1>2 DEF SInv

(* The aliases that nothing links in the next state nothing links in this. *)
LEMMA UnlinkedBefore ==
  ASSUME witnessed \subseteq witnessed', NEW S, Unlinked(S)'
  PROVE  Unlinked(S)
BY DEF Unlinked

(* U is a pair of sides for S after a step of c. *)
SidesNext(c, S, U) ==
  /\ \A d \in Callers \ {c} : OneSide(req[d], S, U)
  /\ OneSide(req'[c], S, U)
  /\ \A a \in Aliases : alias'[a] # NoId => (alias'[a] \in U <=> a \in S)
  /\ \A n \in Ids : merged_into'[n] # NoId => (merged_into'[n] \in U <=> n \in U)

(* A step of one caller keeps the invariant if its new request refers to   *)
(* issued guids and every pair of sides has one in the next state.         *)
LEMMA SidesStep ==
  ASSUME IInv, SInv, witnessed \subseteq witnessed', issued \subseteq issued', NEW c \in Callers,
         \A d \in Callers : d # c => req'[d] = req[d],
         req'[c].found \subseteq issued', req'[c].cur \in issued' \union {NoId},
         req'[c].step # "idle" /\ req'[c].op = "put_work" => req'[c].args \in witnessed',
         \A n \in Ids : merged_into'[n] # NoId => n \in issued' /\ merged_into'[n] \in issued',
         \A a \in Aliases : alias'[a] # NoId => alias'[a] \in issued',
         \A S \in SUBSET Aliases, T \in SUBSET Ids :
           Unlinked(S) /\ Sides(S, T) =>
             \E U \in SUBSET Ids : SidesNext(c, S, U)
  PROVE  SInv'
<1>1. Referenced'
  <2>1. ASSUME NEW d \in Callers, d # c
        PROVE  req'[d].found \subseteq issued' /\ req'[d].cur \in issued' \union {NoId}
    <3>1. req'[d] = req[d]
      BY <2>1
    <3>2. req[d].found \subseteq issued /\ req[d].cur \in issued \union {NoId}
      BY DEF SInv, Referenced
    <3>3. QED BY <3>1, <3>2
  <2>2. QED BY <2>1 DEF Referenced
<1>2. Submitted'
  <2>1. ASSUME NEW d \in Callers, d # c, req'[d].step # "idle", req'[d].op = "put_work"
        PROVE  req'[d].args \in witnessed'
    <3>1. req'[d] = req[d]
      BY <2>1
    <3>2. req[d].args \in witnessed
      BY <2>1, <3>1 DEF SInv, Submitted
    <3>3. QED BY <3>1, <3>2
  <2>2. QED BY <2>1 DEF Submitted
<1>3. ASSUME NEW S \in SUBSET Aliases, Unlinked(S)' PROVE \E T \in SUBSET Ids : Sides(S, T)'
  <2>1. Unlinked(S)
    BY <1>3, UnlinkedBefore
  <2>2. PICK T \in SUBSET Ids : Sides(S, T)
    BY <2>1 DEF SInv
  <2>3. PICK U \in SUBSET Ids : SidesNext(c, S, U)
    BY <2>1, <2>2
  <2>4. \A d \in Callers : OneSide(req'[d], S, U)
    <3> SUFFICES ASSUME NEW d \in Callers PROVE OneSide(req'[d], S, U)
      OBVIOUS
    <3>1. CASE d = c
      BY <2>3, <3>1 DEF SidesNext
    <3>2. CASE d # c
      <4>1. req'[d] = req[d] /\ OneSide(req[d], S, U)
        BY <2>3, <3>2 DEF SidesNext
      <4>2. QED BY <4>1
    <3>3. QED BY <3>1, <3>2
  <2>5. QED BY <2>3, <2>4 DEF Sides, SidesNext, OneSide
<1>4. QED BY <1>1, <1>2, <1>3 DEF SInv

LEMMA SidesCall ==
  ASSUME IInv, SInv, NEW c \in Callers,
         CallPutWork(c) \/ CallPutEdges(c) \/ CallGetWork(c) \/ CallDeleteWork(c)
  PROVE  SInv'
<1>1. /\ req'[c].step = "get_alias" /\ req'[c].found = {} /\ req'[c].cur = NoId
      /\ UNCHANGED <<merged_into, alias, issued>>
      /\ \A d \in Callers : d # c => req'[d] = req[d]
      /\ IF req'[c].op = "put_work" THEN witnessed' = witnessed \union {req'[c].args}
         ELSE witnessed' = witnessed
  BY CallFields DEF tables
<1>2. witnessed \subseteq witnessed'
  BY <1>1
<1>3. ASSUME NEW S \in SUBSET Aliases, NEW T \in SUBSET Ids, Sides(S, T)
      PROVE  OneSide(req'[c], S, T)
  BY <1>1 DEF OneSide
<1>4. QED
  <2>1. /\ req'[c].found \subseteq issued' /\ req'[c].cur \in issued' \union {NoId}
        /\ req'[c].step # "idle" /\ req'[c].op = "put_work" => req'[c].args \in witnessed'
    BY <1>1
  <2>2. /\ \A n \in Ids : merged_into'[n] # NoId => n \in issued' /\ merged_into'[n] \in issued'
        /\ \A a \in Aliases : alias'[a] # NoId => alias'[a] \in issued'
    BY <1>1 DEF SInv, Referenced
  <2>3. ASSUME NEW S \in SUBSET Aliases, NEW T \in SUBSET Ids, Sides(S, T)
        PROVE  SidesNext(c, S, T)
    BY <1>1, <1>3, <2>3 DEF Sides, SidesNext
  <2>4. QED BY <1>1, <1>2, <2>1, <2>2, <2>3, SidesStep

(* Of put_work's request after a lookup with the ids G in hand.            *)
LEMMA SidesLooked ==
  ASSUME NEW r \in Requests, r.step # "idle", r.op = "put_work", NEW G \in SUBSET Ids,
         Len(r.args) > 0, NEW S, NEW T, \A n \in G : n \in T <=> r.args[1] \in S, r.found \subseteq G
  PROVE  OneSide(Looked(r, G), S, T)
<1> DEFINE q == Looked(r, G)
<1>1. /\ q.op = r.op /\ q.args = r.args
      /\ q.found \subseteq G
      /\ q.step = "get_or_create_alias" => q.pos = 1 /\ q.cur \in G
      /\ q.step # "resolve_live"
  BY LookedFields
<1> HIDE DEF q
<1>2. OneSide(q, S, T)
  BY <1>1 DEF OneSide
<1>3. QED BY <1>2 DEF q

LEMMA SidesGetAlias ==
  ASSUME IInv, SInv, NEW c \in Callers, GetAlias(c)
  PROVE  SInv'
<1> DEFINE r == req[c]
           q == req'[c]
           raw == alias[r.args[r.pos]]
<1>1. /\ r.step = "get_alias" /\ r.args[r.pos] \in Aliases
      /\ UNCHANGED <<merged_into, alias, issued, witnessed>>
      /\ \A d \in Callers : d # c => req'[d] = req[d]
      /\ \/ /\ raw # NoId /\ raw \in Ids /\ q.step = "resolve_live" /\ q.cur = raw
            /\ q.op = r.op /\ q.args = r.args /\ q.pos = r.pos
            /\ q.found = r.found /\ q.left = r.left
         \/ raw = NoId /\ r.op = "put_work" /\ q = Looked(r, r.found)
         \/ /\ raw = NoId /\ r.op = "put_edges" /\ q.step = "create_node"
            /\ q.op = r.op /\ q.args = r.args /\ q.pos = r.pos
            /\ q.found = r.found /\ q.left = r.left /\ q.cur = r.cur
         \/ raw = NoId /\ q = Idle /\ r.op \in {"get_work", "delete_work"}
  BY GetAliasFields DEF tables, history
<1>2. /\ r \in Requests /\ r.found \in SUBSET Ids /\ Len(r.args) > 0
      /\ r.found \subseteq issued /\ r.cur \in issued \union {NoId}
      /\ r.op = "put_work" => r.args \in witnessed
      /\ raw # NoId => raw \in issued
  BY <1>1, RequestFields DEF IInv, TypeOK, Shape, SInv, Referenced, Submitted
<1> HIDE DEF r, raw
<1>3. /\ q.found \subseteq issued /\ q.cur \in issued \union {NoId}
      /\ q.step # "idle" /\ q.op = "put_work" => q.args \in witnessed
  <2>1. CASE r.op = "put_work" /\ q = Looked(r, r.found)
    BY <1>2, <2>1, LookedFields
  <2>2. CASE q = Idle
    BY <2>2, IdleFields
  <2>3. QED BY <1>1, <1>2, <2>1, <2>2
<1>4. ASSUME NEW S \in SUBSET Aliases, NEW T \in SUBSET Ids, Unlinked(S), Sides(S, T)
      PROVE  SidesNext(c, S, T)
  <2>1. OneSide(r, S, T) /\ (raw # NoId => (raw \in T <=> r.args[r.pos] \in S))
    BY <1>1, <1>4 DEF Sides, r, raw
  <2>2. OneSide(q, S, T)
    <3>1. CASE r.op = "put_work" /\ q = Looked(r, r.found)
      BY <1>1, <1>2, <2>1, <3>1, SidesLooked DEF OneSide
    <3>2. CASE q = Idle
      BY <3>2, IdleFields DEF OneSide
    <3>3. CASE q.op = r.op /\ q.found = r.found /\ q.args = r.args /\ q.pos = r.pos
               /\ (q.step = "create_node" \/ (q.step = "resolve_live" /\ q.cur = raw /\ raw # NoId))
      BY <1>1, <2>1, <3>3 DEF OneSide
    <3> HIDE DEF q
    <3>4. QED BY <1>1, <3>1, <3>2, <3>3
  <2>3. QED BY <1>1, <1>4, <2>2 DEF Sides, SidesNext
<1>5. /\ \A n \in Ids : merged_into'[n] # NoId => n \in issued' /\ merged_into'[n] \in issued'
      /\ \A a \in Aliases : alias'[a] # NoId => alias'[a] \in issued'
  BY <1>1 DEF SInv, Referenced
<1>6. QED BY <1>1, <1>3, <1>4, <1>5, SidesStep

LEMMA SidesResolveLive ==
  ASSUME IInv, SInv, NEW c \in Callers, ResolveLive(c)
  PROVE  SInv'
<1> DEFINE r == req[c]
           q == req'[c]
           live == Root(merged_into, r.cur)
<1>1. /\ r.step = "resolve_live" /\ r.cur \in Ids /\ live \in Ids
      /\ UNCHANGED <<alias, issued, witnessed>>
      /\ \A d \in Callers : d # c => req'[d] = req[d]
      /\ \/ /\ merged_into' = Compressed(merged_into, r.cur)
            /\ \/ r.op = "put_work" /\ q = Looked(r, r.found \union {live})
               \/ r.op = "put_edges" /\ q = Settled(r, live)
               \/ /\ r.op \notin {"put_work", "put_edges"} /\ q.op = r.op
                  /\ q.step \in {"read_node", "delete_network"}
                  /\ q.cur = live /\ q.found = r.found
         \/ q = Idle /\ UNCHANGED merged_into
  BY ResolveLiveFields DEF history
<1>2. /\ r \in Requests /\ Shape(r) /\ r.found \in SUBSET Ids /\ Len(r.args) > 0
      /\ r.found \subseteq issued /\ r.cur \in issued
      /\ r.op = "put_work" => r.args \in witnessed
  BY <1>1, RequestFields, IdsAssumption DEF IInv, TypeOK, Shape, SInv, Referenced, Submitted
<1>3. live \in issued /\ Chain(merged_into, r.cur) \subseteq issued
  BY <1>2, RootIssued, WalkIssued DEF SInv
<1>4. merged_into \in Redirection /\ Decreasing(merged_into)
  BY DEF IInv, TypeOK, RedirectsDecrease, Decreasing
<1>5. ASSUME NEW n \in Ids, merged_into'[n] # NoId
      PROVE  /\ n \in issued /\ merged_into'[n] \in issued /\ merged_into[n] # NoId
             /\ \/ merged_into'[n] = merged_into[n]
                \/ n \in Chain(merged_into, r.cur) /\ merged_into'[n] = live
  BY <1>1, <1>3, <1>5 DEF Compressed, SInv, Referenced
<1>6. /\ q.found \subseteq issued /\ q.cur \in issued \union {NoId}
      /\ q.step # "idle" /\ q.op = "put_work" => q.args \in witnessed
  <2>1. CASE r.op = "put_work" /\ q = Looked(r, r.found \union {live})
    <3>1. r.found \union {live} \in SUBSET Ids
      BY <1>1, <1>2
    <3> HIDE DEF live, r
    <3>2. QED BY <1>2, <1>3, <2>1, <3>1, LookedFields
  <2>2. CASE r.op = "put_edges" /\ q = Settled(r, live)
    BY <1>1, <1>2, <1>3, <2>2, SettledFields
  <2>3. CASE q = Idle
    BY <2>3, IdleFields
  <2>4. QED BY <1>1, <1>2, <1>3, <2>1, <2>2, <2>3
<1>7. ASSUME NEW S \in SUBSET Aliases, NEW T \in SUBSET Ids, Unlinked(S), Sides(S, T)
      PROVE  SidesNext(c, S, T)
  <2>1. OneSide(r, S, T) /\ (r.cur \in T <=> r.args[r.pos] \in S)
    BY <1>1, <1>7 DEF Sides, OneSide
  <2>2. \A x \in Chain(merged_into, r.cur) : x \in T <=> r.cur \in T
    BY <1>1, <1>7, WalkKeeps DEF Sides
  <2>3. live \in T <=> r.cur \in T
    BY <1>1, <1>4, <2>2, RootProperty
  <2>4. ASSUME NEW n \in Ids, merged_into'[n] # NoId PROVE merged_into'[n] \in T <=> n \in T
    BY <1>5, <1>7, <2>2, <2>3, <2>4 DEF Sides
  <2>5. OneSide(q, S, T)
    <3>1. CASE r.op = "put_work" /\ q = Looked(r, r.found \union {live})
      <4>1. r.args[r.pos] \in S <=> r.args[1] \in S
        <5>1. r.args \in Seq(Aliases) /\ r.pos \in 1 .. Len(r.args) /\ 1 \in 1 .. Len(r.args)
          BY <1>1, <1>2, RequestFields DEF Shape
        <5>2. QED BY <1>1, <1>7, <3>1, <5>1, BundleOneSide DEF SInv
      <4>2. \A n \in r.found \union {live} : n \in T <=> r.args[1] \in S
        BY <1>1, <2>1, <2>3, <3>1, <4>1 DEF OneSide
      <4>3. r.found \union {live} \in SUBSET Ids /\ r.step # "idle"
        BY <1>1, <1>2
      <4> HIDE DEF live, r
      <4>4. QED BY <1>2, <3>1, <4>2, <4>3, SidesLooked
    <3>2. CASE r.op = "put_edges" /\ q = Settled(r, live)
      BY <1>1, <1>2, <3>2, SettledFields DEF OneSide
    <3>3. CASE q = Idle
      BY <3>3, IdleFields DEF OneSide
    <3>4. QED BY <1>1, <3>1, <3>2, <3>3 DEF OneSide
  <2>6. QED BY <1>1, <1>7, <2>4, <2>5 DEF Sides, SidesNext
<1>8. /\ \A n \in Ids : merged_into'[n] # NoId => n \in issued' /\ merged_into'[n] \in issued'
      /\ \A a \in Aliases : alias'[a] # NoId => alias'[a] \in issued'
  BY <1>1, <1>5 DEF SInv, Referenced
<1>9. QED BY <1>1, <1>6, <1>7, <1>8, SidesStep

LEMMA SidesCreateNode ==
  ASSUME IInv, SInv, NEW c \in Callers, CreateNode(c)
  PROVE  SInv'
<1> DEFINE r == req[c]
           q == req'[c]
           n == q.cur
<1>1. /\ r.step = "create_node" /\ r.op \in {"put_work", "put_edges"}
      /\ UNCHANGED <<merged_into, alias, witnessed>>
      /\ \A d \in Callers : d # c => req'[d] = req[d]
      /\ n \in Ids \ issued /\ issued' = issued \union {n}
      /\ q.step = "get_or_create_alias" /\ q.op = r.op /\ q.args = r.args
      /\ q.found = r.found
      /\ q.pos = IF r.op = "put_work" THEN 1 ELSE r.pos
  BY CreateNodeFields DEF history
<1>2. /\ r.found \subseteq issued
      /\ r.op = "put_work" => r.args \in witnessed
      /\ \A x \in Ids : merged_into[x] # NoId => x \in issued /\ merged_into[x] \in issued
      /\ \A a \in Aliases : alias[a] # NoId => alias[a] \in issued
  BY <1>1 DEF SInv, Referenced, Submitted
<1>3. ASSUME NEW S \in SUBSET Aliases, NEW T \in SUBSET Ids, Unlinked(S), Sides(S, T)
      PROVE  \E U \in SUBSET Ids : SidesNext(c, S, U)
  <2> DEFINE U == IF q.args[q.pos] \in S THEN T \union {n} ELSE T \ {n}
  <2>1. U \in SUBSET Ids /\ (n \in U <=> q.args[q.pos] \in S) /\ \A x \in issued : x \in U <=> x \in T
    BY <1>1
  <2> HIDE DEF U, n
  <2>2. /\ \A a \in Aliases : alias'[a] # NoId => (alias'[a] \in U <=> a \in S)
        /\ \A x \in Ids : merged_into'[x] # NoId => (merged_into'[x] \in U <=> x \in U)
    BY <1>1, <1>2, <1>3, <2>1 DEF Sides
  <2>3. ASSUME NEW d \in Callers, d # c PROVE OneSide(req[d], S, U)
    <3>1. OneSide(req[d], S, T)
      BY <1>3 DEF Sides
    <3>2. req[d].found \subseteq issued
      BY DEF SInv, Referenced
    <3>3. req[d].step \in {"resolve_live", "get_or_create_alias"} => req[d].cur \in issued
      BY IdsAssumption DEF SInv, Referenced, IInv, Shape
    <3>4. QED BY <2>1, <3>1, <3>2, <3>3 DEF OneSide
  <2>4. OneSide(q, S, U)
    <3>1. OneSide(r, S, T)
      BY <1>3 DEF Sides
    <3>2. \A x \in q.found : x \in U <=> x \in T
      BY <1>1, <1>2, <2>1
    <3>3. q.cur \in U <=> q.args[q.pos] \in S
      BY <2>1 DEF n
    <3>4. QED BY <1>1, <3>1, <3>2, <3>3 DEF OneSide
  <2>5. SidesNext(c, S, U)
    BY <2>2, <2>3, <2>4 DEF SidesNext
  <2>6. QED BY <2>1, <2>5
<1>4. /\ q.found \subseteq issued' /\ q.cur \in issued' \union {NoId}
      /\ q.step # "idle" /\ q.op = "put_work" => q.args \in witnessed'
  BY <1>1, <1>2
<1>5. /\ \A x \in Ids : merged_into'[x] # NoId => x \in issued' /\ merged_into'[x] \in issued'
      /\ \A a \in Aliases : alias'[a] # NoId => alias'[a] \in issued'
  BY <1>1, <1>2
<1>6. witnessed \subseteq witnessed' /\ issued \subseteq issued'
  BY <1>1
<1>7. QED BY <1>1, <1>3, <1>4, <1>5, <1>6, SidesStep

LEMMA SidesMerge ==
  ASSUME IInv, SInv, NEW c \in Callers, Merge(c)
  PROVE  SInv'
<1> DEFINE r == req[c]
           q == req'[c]
           s == Least(r.found)
           l == Least(r.found \ {s})
<1>1. /\ s \in r.found /\ l \in r.found /\ s \in Ids /\ l \in Ids
      /\ r.op = "put_work" /\ r.step = "merge"
  BY MergeTwo DEF Merge
<1>2. /\ q.op = "put_work" /\ q.args = r.args
      /\ \/ q.step = "get_or_create_alias" /\ q.pos = 1 /\ q.cur = s /\ q.found = {s}
         \/ q.step = "merge" /\ q.cur = r.cur /\ q.found = r.found \ {l}
      /\ \A d \in Callers : d # c => req'[d] = req[d]
  BY MergeFields
<1>3. /\ merged_into' = [merged_into EXCEPT ![l] = IF l \in nodes THEN s ELSE @]
      /\ alias' = [a \in Aliases |-> Renamed(alias[a], l, s)]
      /\ UNCHANGED <<issued, witnessed>>
  BY DEF Merge, history
<1> HIDE DEF s, l
<1>4. /\ r.found \subseteq issued /\ r.cur \in issued \union {NoId} /\ r.args \in witnessed
      /\ \A x \in Ids : merged_into[x] # NoId => x \in issued /\ merged_into[x] \in issued
      /\ \A a \in Aliases : alias[a] # NoId => alias[a] \in issued
  BY <1>1 DEF SInv, Referenced, Submitted
<1>5. ASSUME NEW x \in Ids, merged_into'[x] # NoId
      PROVE  \/ merged_into[x] # NoId /\ merged_into'[x] = merged_into[x]
             \/ x = l /\ merged_into'[x] = s
  BY <1>1, <1>3, <1>5 DEF IInv, TypeOK, Redirection
<1>6. ASSUME NEW a \in Aliases, alias'[a] # NoId
      PROVE  /\ alias[a] # NoId
             /\ alias'[a] = alias[a] \/ (alias[a] = l /\ alias'[a] = s)
  BY <1>1, <1>3, <1>6, IdsAssumption DEF Renamed
<1>7. /\ \A x \in Ids : merged_into'[x] # NoId => x \in issued' /\ merged_into'[x] \in issued'
      /\ \A a \in Aliases : alias'[a] # NoId => alias'[a] \in issued'
  BY <1>1, <1>3, <1>4, <1>5, <1>6
<1>8. /\ q.found \subseteq issued' /\ q.cur \in issued' \union {NoId}
      /\ q.step # "idle" /\ q.op = "put_work" => q.args \in witnessed'
  BY <1>1, <1>2, <1>3, <1>4
<1>9. ASSUME NEW S \in SUBSET Aliases, NEW T \in SUBSET Ids, Unlinked(S), Sides(S, T)
      PROVE  SidesNext(c, S, T)
  <2>1. \A x \in r.found : x \in T <=> r.args[1] \in S
    BY <1>1, <1>9 DEF Sides, OneSide
  <2>2. s \in T <=> l \in T
    BY <1>1, <2>1
  <2>3. ASSUME NEW x \in Ids, merged_into'[x] # NoId PROVE merged_into'[x] \in T <=> x \in T
    BY <1>5, <1>9, <2>2, <2>3 DEF Sides
  <2>4. ASSUME NEW a \in Aliases, alias'[a] # NoId PROVE alias'[a] \in T <=> a \in S
    BY <1>6, <1>9, <2>2, <2>4 DEF Sides
  <2>5. OneSide(q, S, T)
    BY <1>1, <1>2, <2>1 DEF OneSide
  <2>6. QED BY <1>9, <2>3, <2>4, <2>5 DEF Sides, SidesNext
<1>10. QED BY <1>2, <1>3, <1>7, <1>8, <1>9, SidesStep

LEMMA SidesAttachAlias ==
  ASSUME IInv, SInv, NEW c \in Callers, AttachAlias(c)
  PROVE  SInv'
<1> DEFINE r == req[c]
           q == req'[c]
           a == r.args[r.pos]
<1>1. /\ r.step = "get_or_create_alias" /\ r.op \in {"put_work", "put_edges"}
      /\ r.cur \in Ids /\ a \in Aliases
      /\ alias' = IF alias[a] = NoId THEN [alias EXCEPT ![a] = r.cur] ELSE alias
      /\ UNCHANGED <<merged_into, issued, witnessed>>
      /\ \A d \in Callers : d # c => req'[d] = req[d]
      /\ \/ r.op = "put_edges" /\ q = Settled(r, r.cur)
         \/ /\ r.op = "put_work" /\ q.op = r.op /\ q.args = r.args
            /\ q.found = r.found /\ q.cur = r.cur /\ q.left = r.left
            /\ \/ r.pos < Len(r.args) /\ q.step = r.step /\ q.pos = r.pos + 1
               \/ /\ r.pos = Len(r.args) /\ q.step = "upsert_node_assertion"
                  /\ q.pos = r.pos
  BY AttachAliasFields DEF history
<1>2. /\ r \in Requests /\ Shape(r) /\ r.found \subseteq issued /\ r.cur \in issued
      /\ r.op = "put_work" => r.args \in witnessed
  BY <1>1, IdsAssumption DEF IInv, TypeOK, SInv, Referenced, Submitted
<1>3. /\ q.found \subseteq issued' /\ q.cur \in issued' \union {NoId}
      /\ q.step # "idle" /\ q.op = "put_work" => q.args \in witnessed'
  <2>1. CASE r.op = "put_edges" /\ q = Settled(r, r.cur)
    BY <1>1, <1>2, <2>1, SettledFields
  <2>2. QED BY <1>1, <1>2, <2>1
<1> HIDE DEF a
<1>4. ASSUME NEW b \in Aliases, alias'[b] # NoId
      PROVE  alias'[b] = alias[b] \/ (b = a /\ alias'[b] = r.cur)
  BY <1>1, <1>4 DEF IInv, TypeOK
<1>5. /\ \A n \in Ids : merged_into'[n] # NoId => n \in issued' /\ merged_into'[n] \in issued'
      /\ \A b \in Aliases : alias'[b] # NoId => alias'[b] \in issued'
  BY <1>1, <1>2, <1>4 DEF SInv, Referenced
<1>6. ASSUME NEW S \in SUBSET Aliases, NEW T \in SUBSET Ids, Unlinked(S), Sides(S, T)
      PROVE  SidesNext(c, S, T)
  <2>1. OneSide(r, S, T) /\ (r.cur \in T <=> a \in S)
    BY <1>1, <1>6 DEF Sides, OneSide, a
  <2>2. ASSUME NEW b \in Aliases, alias'[b] # NoId PROVE alias'[b] \in T <=> b \in S
    BY <1>4, <1>6, <2>1, <2>2 DEF Sides
  <2>3. OneSide(q, S, T)
    <3>1. CASE r.op = "put_edges" /\ q = Settled(r, r.cur)
      BY <1>1, <1>2, <3>1, SettledFields DEF OneSide
    <3>2. CASE r.op = "put_work"
      <4>1. /\ r.args \in Seq(Aliases) /\ r.pos \in 1 .. Len(r.args)
            /\ \A i, j \in 1 .. Len(r.args) : r.args[i] \in S <=> r.args[j] \in S
        BY <1>1, <1>6, <3>2, BundleOneSide DEF SInv
      <4>2. q.step = "get_or_create_alias" => q.pos \in 1 .. Len(r.args)
        BY <1>1, <1>2, <3>2, <4>1, RequestFields
      <4>3. q.step = "get_or_create_alias" => (r.args[q.pos] \in S <=> r.args[r.pos] \in S)
        BY <4>1, <4>2
      <4>4. QED BY <1>1, <2>1, <3>2, <4>3 DEF OneSide, a
    <3>3. QED BY <1>1, <3>1, <3>2
  <2>4. QED BY <1>1, <1>6, <2>2, <2>3 DEF Sides, SidesNext
<1>7. QED BY <1>1, <1>3, <1>5, <1>6, SidesStep

LEMMA SidesEnd ==
  ASSUME IInv, SInv, NEW c \in Callers, Ends(c)
  PROVE  SInv'
<1>1. /\ req'[c] = Idle /\ \A d \in Callers : d # c => req'[d] = req[d]
      /\ UNCHANGED <<issued, witnessed>>
  BY EndFields
<1>2. /\ \A n \in Ids : merged_into'[n] # NoId => merged_into'[n] = merged_into[n]
      /\ \A a \in Aliases : alias'[a] # NoId => alias'[a] = alias[a]
  <2>1. CASE DeleteNetwork(c)
    <3>1. PICK net, gone :
            /\ merged_into' = [n \in Ids |-> IF n \in net THEN NoId ELSE merged_into[n]]
            /\ alias' = [a \in Aliases |-> IF a \in gone THEN NoId ELSE alias[a]]
      BY <2>1 DEF DeleteNetwork
    <3>2. QED BY <3>1
  <2>2. CASE ~DeleteNetwork(c)
    BY <2>2 DEF Ends, UpsertNodeAssertion, PutEdge, TornPutEdge, ReadNode, Fail, tables
  <2>3. QED BY <2>1, <2>2
<1>3. ASSUME NEW S \in SUBSET Aliases, NEW T \in SUBSET Ids, Sides(S, T)
      PROVE  SidesNext(c, S, T)
  <2>1. OneSide(Idle, S, T)
    BY IdleFields DEF OneSide
  <2>2. QED BY <1>1, <1>2, <1>3, <2>1 DEF Sides, SidesNext
<1>4. /\ \A n \in Ids : merged_into'[n] # NoId => n \in issued' /\ merged_into'[n] \in issued'
      /\ \A a \in Aliases : alias'[a] # NoId => alias'[a] \in issued'
  BY <1>1, <1>2 DEF SInv, Referenced
<1>5. /\ req'[c].found \subseteq issued' /\ req'[c].cur \in issued' \union {NoId}
      /\ req'[c].step # "idle" /\ req'[c].op = "put_work" => req'[c].args \in witnessed'
  BY <1>1, IdleFields
<1>6. QED BY <1>1, <1>3, <1>4, <1>5, SidesStep

LEMMA SidesInductive == IInv /\ SInv /\ [Next]_vars => SInv'
<1> SUFFICES ASSUME IInv, SInv, [Next]_vars PROVE SInv'
  OBVIOUS
<1>1. CASE UNCHANGED vars
  BY <1>1 DEF vars, SInv, Referenced, Submitted, Unlinked, Sides, OneSide
<1>2. QED BY <1>1, StepCases, SidesCall, SidesGetAlias, SidesResolveLive, SidesCreateNode,
             SidesMerge, SidesAttachAlias, SidesEnd

(* The two ends of a walk are on one side, so aliases of different sides   *)
(* have different homes.                                                   *)
LEMMA SidesSuffice ==
  ASSUME IInv, SInv
  PROVE  NoFalseMerge
<1> SUFFICES ASSUME NEW S \in SUBSET Aliases, Unlinked(S), NEW a \in S, NEW b \in Aliases \ S,
                    alias[a] # NoId, alias[b] # NoId
             PROVE  Home(a) # Home(b)
  BY DEF NoFalseMerge
<1>1. PICK T \in SUBSET Ids : Sides(S, T)
  BY DEF SInv
<1>2. ASSUME NEW x \in Aliases, alias[x] # NoId PROVE Home(x) \in T <=> x \in S
  <2>1. alias[x] \in Ids /\ merged_into \in Redirection /\ Decreasing(merged_into)
    BY <1>2 DEF IInv, TypeOK, RedirectsDecrease, Decreasing
  <2>2. Home(x) \in Chain(merged_into, alias[x])
    BY <2>1, RootProperty DEF Home
  <2>3. Home(x) \in T <=> alias[x] \in T
    BY <1>1, <2>1, <2>2, WalkKeeps DEF Sides
  <2>4. QED BY <1>1, <1>2, <2>3 DEF Sides
<1>3. QED BY <1>2

(* No interleaving of put_work, put_edges and delete_work, nor a failure   *)
(* of any, ever makes one work of two that no chain of bundles links.      *)
THEOREM NeverMergedTooFar == Spec => []NoFalseMerge
<1>1. Init => SInv
  BY SidesInitial
<1>2. IInv /\ SInv /\ [Next]_vars => SInv'
  BY SidesInductive
<1>3. IInv /\ SInv => NoFalseMerge
  BY SidesSuffice
<1>4. QED BY <1>1, <1>2, <1>3, Invariant, PTL DEF Spec
------------------------------------------------------------------------------
(* A merge keeps the newest records.  Of the records that fold into one    *)
(* row there is a newest, because the times in the tables are bounded.     *)

Bounded ==
  \E u \in Nat : /\ \A r \in node_assertion : r.at <= u
                 /\ \A r \in edge_assertion : r.at <= u

(* Of some naturals below a bound one is the greatest. *)
LEMMA NewestTime ==
  ASSUME NEW S \in SUBSET Nat, S # {}, NEW u \in Nat, \A x \in S : x <= u
  PROVE  \E x \in S : \A y \in S : y <= x
<1> DEFINE U == {v \in Nat : \A x \in S : x <= v}
           m == Least(U)
<1>1. m \in U /\ \A v \in U : m <= v
  <2>1. U \in SUBSET Nat /\ U # {}
    OBVIOUS
  <2> HIDE DEF U
  <2>2. QED BY <2>1, LeastProperty
<1>2. m \in Nat /\ \A x \in S : x <= m
  BY <1>1
<1> HIDE DEF m
<1>3. m \in S
  <2> SUFFICES ASSUME m \notin S PROVE FALSE
    OBVIOUS
  <2>1. \A x \in S : x < m
    BY <1>2
  <2>2. m - 1 \in Nat /\ \A x \in S : x <= m - 1
    <3>1. \A x \in S : x \in Nat /\ x < m
      BY <2>1
    <3>2. PICK y \in S : y \in Nat /\ y < m
      BY <3>1
    <3>3. m - 1 \in Nat
      BY <1>2, <3>2
    <3>4. \A x \in S : x <= m - 1
      <4>1. \A x \in Nat : x < m => x <= m - 1
        BY <1>2
      <4>2. QED BY <3>1, <4>1
    <3>5. QED BY <3>3, <3>4
  <2>3. m - 1 \in U
    BY <2>2
  <2>4. m <= m - 1
    BY <1>1, <2>3
  <2>5. QED BY <1>2, <2>4
<1>4. QED BY <1>2, <1>3

LEMMA RowTimes ==
  ASSUME IInv
  PROVE  /\ \A r \in node_assertion : r.at \in Nat /\ r.node \in Ids /\ r \in NodeRows
         /\ \A r \in edge_assertion : r.at \in Nat /\ r.src \in Ids /\ r.dst \in Ids /\ r \in EdgeRows
BY CatalogAssumption DEF IInv, TypeOK, NodeRows, EdgeRows

LEMMA NodeNewest ==
  ASSUME IInv, Bounded, NEW l \in Ids, NEW s \in Ids, NEW r \in node_assertion
  PROVE  \E q \in NodeFolded(l, s) :
           q.node = Renamed(r.node, l, s) /\ q.source = r.source /\ q.at >= r.at
<1> DEFINE T == {o \in node_assertion :
                   Renamed(o.node, l, s) = Renamed(r.node, l, s) /\ o.source = r.source}
           Moved(o) == [o EXCEPT !.node = Renamed(@, l, s)]
           times == {o.at : o \in T}
<1>1. PICK x \in times : \A y \in times : y <= x
  <2>1. PICK u \in Nat : \A o \in node_assertion : o.at <= u
    BY DEF Bounded
  <2>2. times \in SUBSET Nat /\ r.at \in times /\ \A y \in times : y <= u
    BY <2>1, RowTimes
  <2> HIDE DEF times
  <2>3. QED BY <2>2, NewestTime
<1>2. PICK o \in T : o.at = x
  OBVIOUS
<1>3. ASSUME NEW p \in node_assertion
      PROVE  /\ Moved(p).node = Renamed(p.node, l, s)
             /\ Moved(p).source = p.source /\ Moved(p).at = p.at
  BY RowTimes DEF NodeRows
<1>4. \A p \in T : p.at <= o.at
  BY <1>1, <1>2
<1>5. Moved(o) \in NodeFolded(l, s)
  <2>1. \A p \in node_assertion :
          Moved(p).node = Moved(o).node /\ Moved(p).source = Moved(o).source => Moved(p).at <= Moved(o).at
    <3> SUFFICES ASSUME NEW p \in node_assertion,
                        Moved(p).node = Moved(o).node, Moved(p).source = Moved(o).source
                 PROVE  Moved(p).at <= Moved(o).at
      OBVIOUS
    <3>1. p \in T
      BY <1>2, <1>3
    <3>2. QED BY <1>2, <1>3, <1>4, <3>1
  <2>2. QED BY <2>1 DEF NodeFolded
<1>6. /\ Moved(o).node = Renamed(r.node, l, s) /\ Moved(o).source = r.source
      /\ Moved(o).at >= r.at
  <2>1. r \in T /\ r.at \in Nat /\ o.at \in Nat
    BY RowTimes
  <2>2. QED BY <1>2, <1>3, <1>4, <2>1
<1>7. QED BY <1>5, <1>6

LEMMA EdgeNewest ==
  ASSUME IInv, Bounded, NEW l \in Ids, NEW s \in Ids, NEW r \in edge_assertion
  PROVE  \E q \in EdgeFolded(l, s) :
           /\ q.src = Renamed(r.src, l, s) /\ q.dst = Renamed(r.dst, l, s)
           /\ q.source = r.source /\ q.at >= r.at
<1> DEFINE T == {o \in edge_assertion :
                   /\ Renamed(o.src, l, s) = Renamed(r.src, l, s)
                   /\ Renamed(o.dst, l, s) = Renamed(r.dst, l, s) /\ o.source = r.source}
           Moved(o) == [o EXCEPT !.src = Renamed(@, l, s), !.dst = Renamed(@, l, s)]
           times == {o.at : o \in T}
<1>1. PICK x \in times : \A y \in times : y <= x
  <2>1. PICK u \in Nat : \A o \in edge_assertion : o.at <= u
    BY DEF Bounded
  <2>2. times \in SUBSET Nat /\ r.at \in times /\ \A y \in times : y <= u
    BY <2>1, RowTimes
  <2> HIDE DEF times
  <2>3. QED BY <2>2, NewestTime
<1>2. PICK o \in T : o.at = x
  OBVIOUS
<1>3. ASSUME NEW p \in edge_assertion
      PROVE  /\ Moved(p).src = Renamed(p.src, l, s) /\ Moved(p).dst = Renamed(p.dst, l, s)
             /\ Moved(p).source = p.source /\ Moved(p).at = p.at
  BY RowTimes DEF EdgeRows
<1>4. \A p \in T : p.at <= o.at
  BY <1>1, <1>2
<1>5. Moved(o) \in EdgeFolded(l, s)
  <2>1. \A p \in edge_assertion :
          /\ Moved(p).src = Moved(o).src /\ Moved(p).dst = Moved(o).dst
          /\ Moved(p).source = Moved(o).source
          => Moved(p).at <= Moved(o).at
    <3> SUFFICES ASSUME NEW p \in edge_assertion,
                        Moved(p).src = Moved(o).src, Moved(p).dst = Moved(o).dst,
                        Moved(p).source = Moved(o).source
                 PROVE  Moved(p).at <= Moved(o).at
      OBVIOUS
    <3>1. p \in T
      BY <1>2, <1>3
    <3>2. QED BY <1>2, <1>3, <1>4, <3>1
  <2>2. QED BY <2>1 DEF EdgeFolded
<1>6. /\ Moved(o).src = Renamed(r.src, l, s) /\ Moved(o).dst = Renamed(r.dst, l, s)
      /\ Moved(o).source = r.source /\ Moved(o).at >= r.at
  <2>1. r \in T /\ r.at \in Nat /\ o.at \in Nat
    BY RowTimes
  <2>2. QED BY <1>2, <1>3, <1>4, <2>1
<1>7. QED BY <1>5, <1>6

LEMMA BoundedStep ==
  ASSUME IInv, Bounded, [Next]_vars
  PROVE  Bounded'
<1>1. PICK u \in Nat : /\ \A r \in node_assertion : r.at <= u
                       /\ \A r \in edge_assertion : r.at <= u
  BY DEF Bounded
<1>2. ASSUME NEW v \in Nat, u <= v,
             \A r \in node_assertion' : (\E o \in node_assertion : r.at = o.at) \/ r.at = v,
             \A r \in edge_assertion' : (\E o \in edge_assertion : r.at = o.at) \/ r.at = v
      PROVE  Bounded'
  <2>1. /\ \A r \in node_assertion' : r.at <= v
        /\ \A r \in edge_assertion' : r.at <= v
    BY <1>1, <1>2, RowTimes
  <2>2. QED BY <2>1 DEF Bounded
<1>3. ASSUME NEW c \in Callers, Merge(c) PROVE Bounded'
  <2> DEFINE s == Least(req[c].found)
             l == Least(req[c].found \ {s})
  <2>1. node_assertion' = NodeFolded(l, s) /\ edge_assertion' = EdgeFolded(l, s)
    BY <1>3 DEF Merge
  <2> HIDE DEF s, l
  <2>2. ASSUME NEW r \in node_assertion' PROVE \E o \in node_assertion : r.at = o.at
    <3>1. PICK o \in node_assertion : r = [o EXCEPT !.node = Renamed(@, l, s)]
      BY <2>1 DEF NodeFolded
    <3>2. QED BY <3>1, RowTimes DEF NodeRows
  <2>3. ASSUME NEW r \in edge_assertion' PROVE \E o \in edge_assertion : r.at = o.at
    <3>1. PICK o \in edge_assertion :
            r = [o EXCEPT !.src = Renamed(@, l, s), !.dst = Renamed(@, l, s)]
      BY <2>1 DEF EdgeFolded
    <3>2. QED BY <3>1, RowTimes DEF EdgeRows
  <2>4. QED BY <1>2, <2>2, <2>3
<1>4. ASSUME NEW c \in Callers, UpsertNodeAssertion(c) \/ PutEdge(c) PROVE Bounded'
  <2> DEFINE t == req[c].at
             v == IF u <= t THEN t ELSE u
  <2>1. t \in Nat
    BY RequestFields, CatalogAssumption DEF IInv, TypeOK
  <2>2. v \in Nat /\ u <= v /\ t <= v
    BY <2>1
  <2> HIDE DEF t, v
  <2>3. /\ \A r \in node_assertion' : r \in node_assertion \/ r.at = t
        /\ \A r \in edge_assertion' : r \in edge_assertion \/ r.at = t
    BY <1>4 DEF UpsertNodeAssertion, PutEdge, NodeUpsert, EdgeUpsert, t
  <2>4. /\ \A r \in node_assertion' : r.at <= v
        /\ \A r \in edge_assertion' : r.at <= v
    BY <1>1, <2>1, <2>2, <2>3, RowTimes
  <2>5. QED BY <2>2, <2>4 DEF Bounded
<1>5. ASSUME node_assertion' \subseteq node_assertion, edge_assertion' \subseteq edge_assertion
      PROVE  Bounded'
  BY <1>1, <1>5 DEF Bounded
<1>6. ASSUME NEW c \in Callers, Ends(c), ~(UpsertNodeAssertion(c) \/ PutEdge(c))
      PROVE  Bounded'
  <2>1. node_assertion' \subseteq node_assertion /\ edge_assertion' \subseteq edge_assertion
    BY <1>6 DEF Ends, TornPutEdge, ReadNode, DeleteNetwork, Fail, tables
  <2>2. QED BY <1>5, <2>1
<1>7. ASSUME NEW c \in Callers,
             \/ CallPutWork(c) \/ CallPutEdges(c) \/ CallGetWork(c) \/ CallDeleteWork(c)
             \/ GetAlias(c) \/ ResolveLive(c) \/ CreateNode(c) \/ AttachAlias(c)
      PROVE  UNCHANGED <<node_assertion, edge_assertion>>
  BY <1>7, CallFields, GetAliasFields, ResolveLiveFields, CreateNodeFields, AttachAliasFields DEF tables
<1>8. CASE UNCHANGED vars
  BY <1>5, <1>8 DEF vars
<1>9. QED BY <1>3, <1>4, <1>5, <1>6, <1>7, <1>8, StepCases

(* Only a merge redirects a live node, to the other node it is given.      *)
LEMMA MergeNewestStep ==
  ASSUME IInv, Bounded, [Next]_vars, NEW l \in nodes, NEW s \in nodes,
         merged_into[l] = NoId, merged_into'[l] = s
  PROVE  /\ \A r \in node_assertion : r.node \in {l, s} =>
              \E q \in node_assertion' : q.node = s /\ q.source = r.source /\ q.at >= r.at
         /\ \A r \in edge_assertion : \E q \in edge_assertion' :
              /\ q.src = Renamed(r.src, l, s) /\ q.dst = Renamed(r.dst, l, s)
              /\ q.source = r.source /\ q.at >= r.at
<1>1. l \in Ids /\ s \in Ids /\ s # NoId /\ merged_into \in Redirection
      /\ Decreasing(merged_into)
  BY IdsAssumption DEF IInv, TypeOK, RedirectsDecrease, Decreasing
<1>2. PICK c \in Callers : Merge(c)
  <2>1. ASSUME UNCHANGED merged_into PROVE FALSE
    BY <1>1, <2>1
  <2>2. ASSUME NEW c \in Callers, ResolveLive(c) PROVE FALSE
    <3>1. \A n \in Ids : Compressed(merged_into, n)[l] = NoId
      BY <1>1 DEF Compressed
    <3>2. UNCHANGED merged_into \/ \E n \in Ids : merged_into' = Compressed(merged_into, n)
      BY <2>2, ResolveLiveFields DEF ResolveLive
    <3>3. QED BY <1>1, <2>1, <3>1, <3>2
  <2>3. ASSUME NEW c \in Callers, Ends(c) PROVE FALSE
    <3>1. CASE DeleteNetwork(c)
      <4>1. PICK net : merged_into' = [n \in Ids |-> IF n \in net THEN NoId ELSE merged_into[n]]
        BY <3>1 DEF DeleteNetwork
      <4>2. QED BY <1>1, <4>1
    <3>2. CASE ~DeleteNetwork(c)
      BY <2>1, <2>3, <3>2 DEF Ends, UpsertNodeAssertion, PutEdge, TornPutEdge, ReadNode, Fail, tables
    <3>3. QED BY <3>1, <3>2
  <2>4. ASSUME NEW c \in Callers,
               \/ CallPutWork(c) \/ CallPutEdges(c) \/ CallGetWork(c) \/ CallDeleteWork(c)
               \/ GetAlias(c) \/ CreateNode(c) \/ AttachAlias(c)
        PROVE  FALSE
    BY <2>1, <2>4 DEF CallPutWork, CallPutEdges, CallGetWork, CallDeleteWork, Call, tables,
                      GetAlias, CreateNode, AttachAlias
  <2>5. CASE UNCHANGED vars
    BY <2>1, <2>5 DEF vars
  <2>6. QED BY <2>2, <2>3, <2>4, <2>5, StepCases
<1> DEFINE a == Least(req[c].found)
           b == Least(req[c].found \ {a})
<1>3. /\ a \in Ids /\ b \in Ids
      /\ merged_into' = [merged_into EXCEPT ![b] = IF b \in nodes THEN a ELSE @]
      /\ node_assertion' = NodeFolded(b, a)
      /\ edge_assertion' = EdgeFolded(b, a)
  BY <1>2, MergeTwo DEF Merge
<1> HIDE DEF a, b
<1>4. l = b /\ s = a
  BY <1>1, <1>3 DEF Redirection
<1>5. ASSUME NEW r \in node_assertion, r.node \in {l, s}
      PROVE  \E q \in node_assertion' : q.node = s /\ q.source = r.source /\ q.at >= r.at
  <2>1. Renamed(r.node, l, s) = s
    BY <1>5 DEF Renamed
  <2>2. QED BY <1>1, <1>3, <1>4, <2>1, NodeNewest
<1>6. ASSUME NEW r \in edge_assertion
      PROVE  \E q \in edge_assertion' :
               /\ q.src = Renamed(r.src, l, s) /\ q.dst = Renamed(r.dst, l, s)
               /\ q.source = r.source /\ q.at >= r.at
  BY <1>1, <1>3, <1>4, EdgeNewest
<1>7. QED BY <1>5, <1>6

KeepsNewest ==
  \A l, s \in nodes :
    merged_into[l] = NoId /\ merged_into'[l] = s
    => /\ \A r \in node_assertion : r.node \in {l, s} =>
            \E q \in node_assertion' : q.node = s /\ q.source = r.source /\ q.at >= r.at
       /\ \A r \in edge_assertion : \E q \in edge_assertion' :
            /\ q.src = Renamed(r.src, l, s) /\ q.dst = Renamed(r.dst, l, s)
            /\ q.source = r.source /\ q.at >= r.at

(* A merge keeps, for every source, the newest record of the two works it  *)
(* unites, and of every edge it repoints the newest record.                *)
THEOREM MergesKeepNewest == Spec => MergeKeepsNewest
<1>1. Init => Bounded
  <2>1. ASSUME Init PROVE \A r \in node_assertion \union edge_assertion : r.at <= 0
    BY <2>1 DEF Init
  <2>2. QED BY <2>1 DEF Bounded
<1>2. IInv /\ Bounded /\ [Next]_vars => Bounded'
  BY BoundedStep
<1>3. IInv /\ Bounded /\ [Next]_vars => [KeepsNewest]_vars
  BY MergeNewestStep DEF KeepsNewest
<1>4. QED BY <1>1, <1>2, <1>3, Invariant, PTL DEF Spec, MergeKeepsNewest, KeepsNewest
------------------------------------------------------------------------------
(* What holds as long as certain requests do not overlap.  While no delete *)
(* overlaps another request, no row dangles and no acknowledged alias is   *)
(* lost.  A put_work that nothing overlaps repairs every fork it meets.    *)
(* While no request overlaps another, every bundle has one live node, with *)
(* all its rows, and no node is out of reach.                              *)

(* A caller that is solo has the catalog for itself while its request      *)
(* runs; as long as nothing has raced every request is such a one, and as  *)
(* long as no delete has clashed with another request every delete is.     *)
Alone ==
  /\ \A c \in Callers : c \in solo /\ req[c].step # "idle" =>
       \A d \in Callers : d # c => req[d].step = "idle"
  /\ ~raced => \A c \in Callers : req[c].step # "idle" => c \in solo
  /\ ~clashed => \A c \in Callers : req[c].step # "idle" /\ req[c].op = "delete_work" =>
       \A d \in Callers : d # c => req[d].step = "idle"

(* Only delete_work deletes. *)
DeletesMeant ==
  \A c \in Callers : req[c].step = "delete_network" => req[c].op = "delete_work"

LEMMA AloneInitial == Init => Alone /\ DeletesMeant
BY IdleFields DEF Init, Alone, DeletesMeant

LEMMA OpKept ==
  ASSUME IInv, NEW c \in Callers,
         \/ GetAlias(c) \/ ResolveLive(c) \/ CreateNode(c) \/ Merge(c) \/ AttachAlias(c) \/ Ends(c)
  PROVE  /\ req[c].step # "idle" /\ UNCHANGED <<witnessed, solo, raced, clashed>>
         /\ \A d \in Callers : d # c => req'[d] = req[d]
         /\ \/ req'[c] = Idle
            \/ /\ req'[c].op = req[c].op /\ req'[c].args = req[c].args
               /\ req'[c].step = "delete_network" => req[c].op = "delete_work"
<1>0. req[c] \in Requests
  BY DEF IInv, TypeOK
<1>1. CASE GetAlias(c)
  <2>1. req[c].found \in SUBSET Ids
    BY <1>0, RequestFields
  <2>2. QED BY <1>0, <1>1, <2>1, GetAliasFields, LookedFields DEF history
<1>2. CASE ResolveLive(c)
  <2> DEFINE r == req[c]
             live == Root(merged_into, r.cur)
  <2>1. live \in Ids /\ r.found \union {live} \in SUBSET Ids
    BY <1>0, <1>2, ResolveLiveFields, RequestFields
  <2>2. /\ r.step # "idle" /\ UNCHANGED <<witnessed, solo, raced, clashed>>
        /\ \A d \in Callers : d # c => req'[d] = req[d]
    BY <1>2, ResolveLiveFields DEF history
  <2>3. \/ req'[c] = Idle
        \/ req'[c] = Looked(r, r.found \union {live})
        \/ req'[c] = Settled(r, live)
        \/ /\ req'[c].step \in {"read_node", "delete_network"}
           /\ req'[c].op = r.op /\ req'[c].args = r.args
           /\ req'[c].step = "delete_network" => req'[c].op = "delete_work"
    BY <1>2, ResolveLiveFields
  <2> HIDE DEF live
  <2>4. CASE req'[c] = Looked(r, r.found \union {live})
    BY <1>0, <2>1, <2>2, <2>4, LookedFields
  <2>5. CASE req'[c] = Settled(r, live)
    BY <1>0, <2>1, <2>2, <2>5, SettledFields
  <2>6. CASE /\ req'[c].step \in {"read_node", "delete_network"}
             /\ req'[c].op = r.op /\ req'[c].args = r.args
             /\ req'[c].step = "delete_network" => req'[c].op = "delete_work"
    BY <2>2, <2>6
  <2>7. QED BY <2>2, <2>3, <2>4, <2>5, <2>6
<1>3. CASE CreateNode(c)
  BY <1>3, CreateNodeFields DEF history
<1>4. CASE Merge(c)
  <2>1. req[c].step # "idle" /\ UNCHANGED <<witnessed, solo, raced, clashed>>
    BY <1>4 DEF Merge, history
  <2>2. QED BY <1>4, <2>1, MergeFields, MergeTwo
<1>5. CASE AttachAlias(c)
  BY <1>0, <1>5, AttachAliasFields, SettledFields DEF history
<1>6. CASE Ends(c)
  <2>1. req[c].step # "idle"
    BY <1>6 DEF Ends, UpsertNodeAssertion, PutEdge, TornPutEdge, ReadNode, DeleteNetwork, Fail
  <2>2. QED BY <1>6, <2>1, EndFields
<1>7. QED BY <1>1, <1>2, <1>3, <1>4, <1>5, <1>6

LEMMA AloneStep ==
  ASSUME IInv, Alone, DeletesMeant, [Next]_vars
  PROVE  Alone' /\ DeletesMeant'
<1>1. CASE UNCHANGED vars
  BY <1>1 DEF Alone, DeletesMeant, vars
<1>2. ASSUME NEW c \in Callers,
             CallPutWork(c) \/ CallPutEdges(c) \/ CallGetWork(c) \/ CallDeleteWork(c)
      PROVE  Alone' /\ DeletesMeant'
  <2> DEFINE others == {d \in Callers \ {c} : req[d].step # "idle"}
             deletes == req'[c].op = "delete_work" \/ \E d \in others : req[d].op = "delete_work"
  <2>1. /\ req[c].step = "idle" /\ req'[c].step = "get_alias"
        /\ \A d \in Callers : d # c => req'[d] = req[d]
        /\ solo' = IF others = {} THEN {c} ELSE {}
        /\ raced' = (raced \/ others # {})
        /\ clashed' = (clashed \/ (others # {} /\ deletes))
    BY <1>2, CallFields
  <2>2. DeletesMeant'
    BY <2>1 DEF DeletesMeant
  <2>3. CASE others = {}
    <3>1. solo' = {c} /\ \A d \in Callers : d # c => req'[d].step = "idle"
      BY <2>1, <2>3
    <3>2. QED BY <2>2, <3>1 DEF Alone
  <2>4. CASE others # {}
    <3>1. solo' = {} /\ raced'
      BY <2>1, <2>4
    <3>2. ASSUME ~clashed', NEW e \in Callers, req'[e].step # "idle", req'[e].op = "delete_work"
          PROVE  FALSE
      <4>1. ~clashed /\ ~deletes
        BY <2>1, <2>4, <3>2
      <4>2. e # c /\ e \in others /\ req[e].op = "delete_work"
        BY <2>1, <3>2, <4>1
      <4>3. QED BY <4>1, <4>2
    <3>3. QED BY <2>2, <3>1, <3>2 DEF Alone
  <2>5. QED BY <2>3, <2>4
<1>3. ASSUME NEW c \in Callers,
             \/ GetAlias(c) \/ ResolveLive(c) \/ CreateNode(c) \/ Merge(c) \/ AttachAlias(c) \/ Ends(c)
      PROVE  Alone' /\ DeletesMeant'
  <2>1. /\ req[c].step # "idle" /\ UNCHANGED <<solo, raced, clashed>>
        /\ \A d \in Callers : d # c => req'[d] = req[d]
        /\ \/ req'[c].step = "idle"
           \/ /\ req'[c].op = req[c].op
              /\ req'[c].step = "delete_network" => req[c].op = "delete_work"
    BY <1>3, OpKept, IdleFields
  <2>2. \A d \in Callers : req'[d].step # "idle" => req[d].step # "idle"
    BY <2>1
  <2>3. Alone'
    BY <2>1, <2>2 DEF Alone
  <2>4. DeletesMeant'
    BY <2>1, <2>2 DEF DeletesMeant
  <2>5. QED BY <2>3, <2>4
<1>4. QED BY <1>1, <1>2, <1>3, StepCases
------------------------------------------------------------------------------
(* Foreign keys, and the aliases of acknowledged bundles.  Only a delete   *)
(* that another request overlaps can leave a row of a node that is gone:   *)
(* any other step adds nodes and keeps every alias bound, so that what a   *)
(* request holds stays in the node table until it writes it.               *)

(* The ids a request holds. *)
InHand(r) ==
  r.step # "idle" =>
    r.found \subseteq nodes /\ r.cur \in nodes \union {NoId} /\ r.left \in nodes \union {NoId}

(* The aliases put_work has attached so far. *)
Attached(r) ==
  r.op = "put_work" =>
    /\ r.step = "get_or_create_alias" => \A j \in 1 .. (r.pos - 1) : alias[r.args[j]] # NoId
    /\ r.step = "upsert_node_assertion" => \A j \in 1 .. Len(r.args) : alias[r.args[j]] # NoId

KeysHold ==
  /\ \A n \in Ids : merged_into[n] # NoId => n \in nodes /\ merged_into[n] \in nodes
  /\ ForeignKeys /\ AcksBound
  /\ \A c \in Callers : InHand(req[c]) /\ Attached(req[c])

KInv == ~clashed => KeysHold

LEMMA KeysInitial == Init => KeysHold
<1> SUFFICES ASSUME Init PROVE KeysHold
  OBVIOUS
<1>1. InHand(Idle) /\ Attached(Idle)
  BY IdleFields DEF InHand, Attached
<1>2. \A c \in Callers : req[c] = Idle
  BY DEF Init
<1>3. QED BY <1>1, <1>2 DEF Init, KeysHold, ForeignKeys, AcksBound

(* A step that removes no node and frees no alias keeps what the other     *)
(* requests hold.                                                          *)
LEMMA OthersKeep ==
  ASSUME IInv, KeysHold, NEW c \in Callers, \A d \in Callers : d # c => req'[d] = req[d],
         nodes \subseteq nodes', \A a \in Aliases : alias[a] # NoId => alias'[a] # NoId,
         InHand(req[c])', Attached(req[c])'
  PROVE  \A d \in Callers : InHand(req[d])' /\ Attached(req[d])'
<1> SUFFICES ASSUME NEW d \in Callers, d # c PROVE InHand(req[d])' /\ Attached(req[d])'
  OBVIOUS
<1>1. req'[d] = req[d] /\ InHand(req[d]) /\ Attached(req[d])
  BY DEF KeysHold
<1>2. InHand(req[d])'
  BY <1>1 DEF InHand
<1>3. req[d].args \in Seq(Aliases) /\ Shape(req[d]) /\ req[d].pos \in Nat
  BY RequestFields DEF IInv, TypeOK
<1>4. req[d].step # "idle" => \A j \in 1 .. (req[d].pos - 1) : j \in 1 .. Len(req[d].args)
  BY <1>3 DEF Shape
<1>5. \A j \in 1 .. Len(req[d].args) : req[d].args[j] \in Aliases
  BY <1>3
<1>6. Attached(req[d])'
  BY <1>1, <1>4, <1>5 DEF Attached
<1>7. QED BY <1>2, <1>6

LEMMA KeysLooked ==
  ASSUME NEW r \in Requests, r.step # "idle", r.op = "put_work", InHand(r), NEW G \in SUBSET nodes, G \in SUBSET Ids
  PROVE  InHand(Looked(r, G)) /\ Attached(Looked(r, G))
<1> DEFINE q == Looked(r, G)
<1>1. /\ q.op = r.op /\ q.args = r.args /\ q.left = r.left
      /\ q.found \subseteq nodes /\ q.cur \in nodes \union {NoId}
      /\ q.step = "get_or_create_alias" => q.pos = 1
      /\ q.step # "upsert_node_assertion"
  BY LookedFields DEF InHand
<1> HIDE DEF q
<1>2. InHand(q) /\ Attached(q)
  BY <1>1 DEF InHand, Attached
<1>3. QED BY <1>2 DEF q

LEMMA KeysSettled ==
  ASSUME NEW r \in Requests, r.step # "idle", r.op = "put_edges", InHand(r), NEW n \in nodes, n \in Ids
  PROVE  InHand(Settled(r, n)) /\ Attached(Settled(r, n))
<1> DEFINE q == Settled(r, n)
<1>1. /\ q.op = r.op /\ q.found = r.found /\ r.left \in nodes \union {NoId}
      /\ q.left \in nodes \union {NoId} /\ q.cur \in nodes \union {NoId}
  <2>1. /\ r.left \in nodes \union {NoId} /\ r.cur \in nodes \union {NoId}
    BY DEF InHand
  <2>2. /\ q.op = r.op /\ q.args = r.args /\ q.found = r.found
        /\ \/ q.left = n /\ q.cur = r.cur
           \/ r.pos # 1 /\ q.cur = n
    BY SettledFields
  <2>3. q.left = n \/ q.left = r.left
    BY DEF Settled, Requests
  <2>4. QED BY <2>1, <2>2, <2>3
<1> HIDE DEF q
<1>2. InHand(q) /\ Attached(q)
  BY <1>1 DEF InHand, Attached
<1>3. QED BY <1>2 DEF q

LEMMA KeysCall ==
  ASSUME IInv, KeysHold, NEW c \in Callers,
         CallPutWork(c) \/ CallPutEdges(c) \/ CallGetWork(c) \/ CallDeleteWork(c)
  PROVE  KeysHold'
<1>1. /\ UNCHANGED <<nodes, merged_into, alias, node_assertion, edge, edge_assertion, acked>>
      /\ req'[c].step = "get_alias" /\ req'[c].found = {}
      /\ req'[c].cur = NoId /\ req'[c].left = NoId
      /\ \A d \in Callers : d # c => req'[d] = req[d]
  BY CallFields DEF tables
<1>2. InHand(req[c])' /\ Attached(req[c])'
  BY <1>1 DEF InHand, Attached
<1>3. \A d \in Callers : InHand(req[d])' /\ Attached(req[d])'
  BY <1>1, <1>2, OthersKeep
<1>4. QED BY <1>1, <1>3 DEF KeysHold, ForeignKeys, AcksBound

LEMMA KeysGetAlias ==
  ASSUME IInv, KeysHold, NEW c \in Callers, GetAlias(c)
  PROVE  KeysHold'
<1> DEFINE r == req[c]
           q == req'[c]
           raw == alias[r.args[r.pos]]
<1>1. /\ r.step = "get_alias" /\ r.args[r.pos] \in Aliases
      /\ UNCHANGED <<nodes, merged_into, alias, node_assertion, edge, edge_assertion, acked>>
      /\ \A d \in Callers : d # c => req'[d] = req[d]
      /\ \/ /\ raw # NoId /\ raw \in Ids /\ q.step = "resolve_live" /\ q.cur = raw
            /\ q.op = r.op /\ q.args = r.args /\ q.pos = r.pos
            /\ q.found = r.found /\ q.left = r.left
         \/ raw = NoId /\ r.op = "put_work" /\ q = Looked(r, r.found)
         \/ /\ raw = NoId /\ r.op = "put_edges" /\ q.step = "create_node"
            /\ q.op = r.op /\ q.args = r.args /\ q.pos = r.pos
            /\ q.found = r.found /\ q.left = r.left /\ q.cur = r.cur
         \/ raw = NoId /\ q = Idle /\ r.op \in {"get_work", "delete_work"}
  BY GetAliasFields DEF tables, history
<1>2. /\ r \in Requests /\ r.found \in SUBSET Ids /\ InHand(r) /\ r.found \in SUBSET nodes
      /\ raw # NoId => raw \in nodes
  BY <1>1, RequestFields DEF IInv, TypeOK, KeysHold, ForeignKeys, InHand
<1>3. InHand(q) /\ Attached(q)
  <2>1. CASE r.op = "put_work" /\ q = Looked(r, r.found)
    BY <1>1, <1>2, <2>1, KeysLooked
  <2>2. CASE q = Idle
    BY <2>2, IdleFields DEF InHand, Attached
  <2>3. CASE /\ q.step \in {"resolve_live", "create_node"}
             /\ q.found = r.found /\ q.left = r.left
             /\ q.cur \in nodes \union {NoId}
    BY <1>1, <1>2, <2>3 DEF InHand, Attached
  <2>4. q.step = "create_node" /\ q.cur = r.cur => q.cur \in nodes \union {NoId}
    BY <1>1, <1>2 DEF InHand
  <2>5. QED BY <1>1, <1>2, <2>1, <2>2, <2>3, <2>4
<1>4. InHand(req[c])' /\ Attached(req[c])'
  BY <1>1, <1>3 DEF InHand, Attached
<1>5. \A d \in Callers : InHand(req[d])' /\ Attached(req[d])'
  BY <1>1, <1>4, OthersKeep
<1>6. QED BY <1>1, <1>5 DEF KeysHold, ForeignKeys, AcksBound

LEMMA KeysResolveLive ==
  ASSUME IInv, KeysHold, NEW c \in Callers, ResolveLive(c)
  PROVE  KeysHold'
<1> DEFINE r == req[c]
           q == req'[c]
           live == Root(merged_into, r.cur)
<1>1. /\ r.step = "resolve_live" /\ r.cur \in Ids /\ live \in Ids
      /\ UNCHANGED <<nodes, alias, node_assertion, edge, edge_assertion, acked>>
      /\ \A d \in Callers : d # c => req'[d] = req[d]
      /\ \/ /\ Resolves(r.cur) /\ merged_into' = Compressed(merged_into, r.cur)
            /\ \/ r.op = "put_work" /\ q = Looked(r, r.found \union {live})
               \/ r.op = "put_edges" /\ q = Settled(r, live)
               \/ /\ q.step \in {"read_node", "delete_network"} /\ q.cur = live
                  /\ q.found = r.found /\ q.op = r.op /\ q.left = r.left
                  /\ r.op \notin {"put_work", "put_edges"}
         \/ q = Idle /\ UNCHANGED merged_into
  BY ResolveLiveFields DEF history
<1>2. r \in Requests /\ r.found \in SUBSET Ids /\ InHand(r) /\ r.found \in SUBSET nodes
  BY <1>1, RequestFields DEF IInv, TypeOK, KeysHold, InHand
<1>3. merged_into \in Redirection /\ Decreasing(merged_into)
  BY DEF IInv, TypeOK, RedirectsDecrease, Decreasing
<1>4. Resolves(r.cur) => live \in nodes
  BY <1>1, <1>3, RootProperty DEF Resolves
<1>5. \A n \in Ids : merged_into'[n] # NoId => n \in nodes /\ merged_into'[n] \in nodes
  BY <1>1, <1>4 DEF Compressed, KeysHold
<1>6. InHand(q) /\ Attached(q)
  <2>1. CASE Resolves(r.cur) /\ r.op = "put_work" /\ q = Looked(r, r.found \union {live})
    <3>1. r.found \union {live} \in SUBSET nodes /\ r.found \union {live} \in SUBSET Ids
      BY <1>1, <1>2, <1>4, <2>1
    <3> HIDE DEF live
    <3>2. QED BY <1>1, <1>2, <2>1, <3>1, KeysLooked
  <2>2. CASE Resolves(r.cur) /\ r.op = "put_edges" /\ q = Settled(r, live)
    BY <1>1, <1>2, <1>4, <2>2, KeysSettled
  <2>3. CASE q = Idle
    BY <2>3, IdleFields DEF InHand, Attached
  <2>4. CASE /\ Resolves(r.cur) /\ q.step \in {"read_node", "delete_network"} /\ q.cur = live
             /\ q.found = r.found /\ q.op = r.op /\ q.left = r.left
             /\ r.op \notin {"put_work", "put_edges"}
    BY <1>1, <1>2, <1>4, <2>4 DEF InHand, Attached
  <2>5. QED BY <1>1, <2>1, <2>2, <2>3, <2>4
<1>7. InHand(req[c])' /\ Attached(req[c])'
  BY <1>1, <1>6 DEF InHand, Attached
<1>8. \A d \in Callers : InHand(req[d])' /\ Attached(req[d])'
  BY <1>1, <1>7, OthersKeep
<1>9. nodes \subseteq Ids
  BY DEF IInv, TypeOK
<1>10. QED BY <1>1, <1>5, <1>8, <1>9 DEF KeysHold, ForeignKeys, AcksBound

LEMMA KeysCreateNode ==
  ASSUME IInv, KeysHold, NEW c \in Callers, CreateNode(c)
  PROVE  KeysHold'
<1> DEFINE r == req[c]
           q == req'[c]
<1>1. /\ r.step = "create_node" /\ r.op \in {"put_work", "put_edges"}
      /\ UNCHANGED <<merged_into, alias, node_assertion, edge, edge_assertion, acked>>
      /\ \A d \in Callers : d # c => req'[d] = req[d]
      /\ nodes' = nodes \union {q.cur}
      /\ q.step = "get_or_create_alias" /\ q.op = r.op
      /\ q.found = r.found /\ q.left = r.left
      /\ q.pos = IF r.op = "put_work" THEN 1 ELSE r.pos
  BY CreateNodeFields DEF history
<1>2. InHand(req[c])' /\ Attached(req[c])'
  BY <1>1 DEF KeysHold, InHand, Attached
<1>3. \A d \in Callers : InHand(req[d])' /\ Attached(req[d])'
  BY <1>1, <1>2, OthersKeep
<1>4. ASSUME NEW n \in nodes' PROVE merged_into'[n] # NoId => merged_into'[n] \in nodes'
  <2>1. n \in Ids /\ merged_into' = merged_into /\ nodes \subseteq nodes'
    BY <1>1, CreateNodeFields DEF IInv, TypeOK
  <2>2. QED BY <2>1 DEF KeysHold
<1>5. ForeignKeys'
  BY <1>1, <1>4 DEF KeysHold, ForeignKeys
<1>6. QED BY <1>1, <1>3, <1>5 DEF KeysHold, AcksBound

LEMMA KeysMerge ==
  ASSUME IInv, KeysHold, NEW c \in Callers, Merge(c)
  PROVE  KeysHold'
<1> DEFINE r == req[c]
           q == req'[c]
           s == Least(r.found)
           l == Least(r.found \ {s})
<1>1. /\ s \in nodes /\ l \in nodes /\ s \in Ids /\ l \in Ids /\ InHand(r)
  BY MergeTwo DEF Merge, KeysHold, InHand
<1>2. /\ q.op = "put_work" /\ q.left = r.left
      /\ \/ q.step = "get_or_create_alias" /\ q.pos = 1 /\ q.cur = s /\ q.found = {s}
         \/ q.step = "merge" /\ q.cur = r.cur /\ q.found = r.found \ {l}
      /\ \A d \in Callers : d # c => req'[d] = req[d]
  BY MergeFields
<1>3. /\ merged_into' = [merged_into EXCEPT ![l] = IF l \in nodes THEN s ELSE @]
      /\ alias' = [a \in Aliases |-> Renamed(alias[a], l, s)]
      /\ node_assertion' = NodeFolded(l, s)
      /\ edge' = {<<Renamed(e[1], l, s), Renamed(e[2], l, s)>> : e \in edge}
      /\ edge_assertion' = EdgeFolded(l, s)
      /\ UNCHANGED <<nodes, acked>>
  BY DEF Merge, history
<1> HIDE DEF s, l
<1>4. \A n : n \in nodes => Renamed(n, l, s) \in nodes
  BY <1>1 DEF Renamed
<1>5. \A n \in Ids : merged_into'[n] # NoId => n \in nodes' /\ merged_into'[n] \in nodes'
  BY <1>1, <1>3 DEF KeysHold, IInv, TypeOK, Redirection
<1>6. \A a \in Aliases : /\ alias'[a] # NoId => alias[a] # NoId /\ alias'[a] \in nodes'
                         /\ alias[a] # NoId => alias'[a] # NoId
  BY <1>1, <1>3, <1>4, IdsAssumption DEF Renamed, KeysHold, ForeignKeys
<1>7. \A p \in node_assertion' : p.node \in nodes'
  <2> SUFFICES ASSUME NEW p \in node_assertion' PROVE p.node \in nodes'
    OBVIOUS
  <2>1. PICK o \in node_assertion : p = [o EXCEPT !.node = Renamed(@, l, s)]
    BY <1>3 DEF NodeFolded
  <2>2. o \in NodeRows /\ o.node \in nodes
    BY DEF IInv, TypeOK, KeysHold, ForeignKeys
  <2>3. p.node = Renamed(o.node, l, s)
    BY <2>1, <2>2 DEF NodeRows
  <2>4. QED BY <1>3, <1>4, <2>2, <2>3
<1>8. \A e \in edge' : e[1] \in nodes' /\ e[2] \in nodes'
  <2> SUFFICES ASSUME NEW e \in edge' PROVE e[1] \in nodes' /\ e[2] \in nodes'
    OBVIOUS
  <2>1. PICK o \in edge : e = <<Renamed(o[1], l, s), Renamed(o[2], l, s)>>
    BY <1>3
  <2>2. o[1] \in nodes /\ o[2] \in nodes
    BY DEF KeysHold, ForeignKeys
  <2>3. QED BY <1>3, <1>4, <2>1, <2>2
<1>9. \A p \in edge_assertion' : <<p.src, p.dst>> \in edge'
  <2> SUFFICES ASSUME NEW p \in edge_assertion' PROVE <<p.src, p.dst>> \in edge'
    OBVIOUS
  <2>1. PICK o \in edge_assertion :
          p = [o EXCEPT !.src = Renamed(@, l, s), !.dst = Renamed(@, l, s)]
    BY <1>3 DEF EdgeFolded
  <2>2. o \in EdgeRows /\ <<o.src, o.dst>> \in edge
    BY DEF IInv, TypeOK, KeysHold, ForeignKeys
  <2>3. p.src = Renamed(o.src, l, s) /\ p.dst = Renamed(o.dst, l, s)
    BY <2>1, <2>2 DEF EdgeRows
  <2>4. QED BY <1>3, <2>2, <2>3
<1>10. InHand(req[c])' /\ Attached(req[c])'
  <2>1. r.found \subseteq nodes /\ r.cur \in nodes \union {NoId} /\ r.left \in nodes \union {NoId}
    BY <1>1 DEF Merge, InHand
  <2>2. InHand(req[c])'
    BY <1>1, <1>2, <1>3, <2>1 DEF InHand
  <2>3. Attached(req[c])'
    BY <1>2 DEF Attached
  <2>4. QED BY <2>2, <2>3
<1>11. \A d \in Callers : InHand(req[d])' /\ Attached(req[d])'
  BY <1>2, <1>3, <1>6, <1>10, OthersKeep
<1>12. AcksBound'
  <2> SUFFICES ASSUME NEW k \in acked, NEW i \in DOMAIN k.bundle PROVE alias'[k.bundle[i]] # NoId
    BY <1>3 DEF AcksBound
  <2>1. alias[k.bundle[i]] # NoId
    BY DEF KeysHold, AcksBound
  <2>2. k.bundle[i] \in Aliases
    BY CatalogAssumption DEF IInv, TypeOK
  <2>3. QED BY <1>6, <2>1, <2>2
<1>13. nodes' \subseteq Ids
  BY <1>3 DEF IInv, TypeOK
<1>14. ForeignKeys'
  BY <1>5, <1>6, <1>7, <1>8, <1>9, <1>13 DEF ForeignKeys
<1>15. QED BY <1>5, <1>11, <1>12, <1>14 DEF KeysHold

LEMMA KeysAttachAlias ==
  ASSUME IInv, KeysHold, NEW c \in Callers, AttachAlias(c)
  PROVE  KeysHold'
<1> DEFINE r == req[c]
           q == req'[c]
           a == r.args[r.pos]
<1>1. /\ r.step = "get_or_create_alias" /\ r.op \in {"put_work", "put_edges"}
      /\ r.cur \in Ids /\ a \in Aliases
      /\ alias' = IF alias[a] = NoId THEN [alias EXCEPT ![a] = r.cur] ELSE alias
      /\ UNCHANGED <<nodes, merged_into, node_assertion, edge, edge_assertion, acked>>
      /\ \A d \in Callers : d # c => req'[d] = req[d]
      /\ \/ r.op = "put_edges" /\ q = Settled(r, r.cur)
         \/ /\ r.op = "put_work" /\ q.op = r.op /\ q.args = r.args
            /\ q.found = r.found /\ q.cur = r.cur /\ q.left = r.left
            /\ \/ r.pos < Len(r.args) /\ q.step = r.step /\ q.pos = r.pos + 1
               \/ /\ r.pos = Len(r.args) /\ q.step = "upsert_node_assertion"
                  /\ q.pos = r.pos
  BY AttachAliasFields DEF history
<1>2. /\ r \in Requests /\ InHand(r) /\ Attached(r) /\ r.cur \in nodes
      /\ r.args \in Seq(Aliases) /\ r.pos \in 1 .. Len(r.args) /\ Len(r.args) \in Nat
  <2>1. r \in Requests /\ Shape(r)
    BY DEF IInv, TypeOK
  <2>2. InHand(r) /\ Attached(r)
    BY DEF KeysHold
  <2>3. r.cur \in nodes
    BY <1>1, <2>2, IdsAssumption DEF InHand
  <2>4. QED BY <1>1, <2>1, <2>2, <2>3, RequestFields DEF Shape
<1> HIDE DEF a
<1>3. \A b \in Aliases : /\ alias[b] # NoId => alias'[b] = alias[b]
                         /\ alias'[b] # NoId => alias'[b] \in nodes
                         /\ b = a => alias'[b] # NoId
  BY <1>1, <1>2, IdsAssumption DEF IInv, TypeOK, KeysHold, ForeignKeys
<1>4. InHand(req[c])' /\ Attached(req[c])'
  <2>1. CASE r.op = "put_edges" /\ q = Settled(r, r.cur)
    <3>1. q.op = "put_edges" /\ InHand(q)
      BY <1>1, <1>2, <2>1, KeysSettled, SettledFields
    <3>2. QED BY <1>1, <3>1 DEF InHand, Attached
  <2>2. CASE /\ r.op = "put_work" /\ q.op = r.op /\ q.args = r.args
             /\ q.found = r.found /\ q.cur = r.cur /\ q.left = r.left
    <3>1. \A j \in 1 .. (r.pos - 1) : alias[r.args[j]] # NoId
      BY <1>1, <1>2, <2>2 DEF Attached
    <3>2. ASSUME NEW j \in 1 .. r.pos PROVE alias'[r.args[j]] # NoId
      <4>1. r.args[j] \in Aliases /\ (j = r.pos \/ j \in 1 .. (r.pos - 1))
        BY <1>2
      <4>2. QED BY <1>3, <3>1, <4>1 DEF a
    <3>3. q.step = "get_or_create_alias" => q.pos - 1 = r.pos
      BY <1>1, <1>2, <2>2
    <3>4. q.step = "upsert_node_assertion" => Len(q.args) = r.pos
      BY <1>1, <1>2, <2>2
    <3>5. Attached(req[c])'
      BY <2>2, <3>2, <3>3, <3>4 DEF Attached
    <3>6. QED BY <1>1, <1>2, <2>2, <3>5 DEF InHand
  <2>3. QED BY <1>1, <2>1, <2>2
<1>5. \A d \in Callers : InHand(req[d])' /\ Attached(req[d])'
  BY <1>1, <1>3, <1>4, OthersKeep
<1>6. ForeignKeys'
  BY <1>1, <1>3 DEF KeysHold, ForeignKeys
<1>7. AcksBound'
  <2> SUFFICES ASSUME NEW k \in acked, NEW i \in DOMAIN k.bundle PROVE alias'[k.bundle[i]] # NoId
    BY <1>1 DEF AcksBound
  <2>1. alias[k.bundle[i]] # NoId
    BY DEF KeysHold, AcksBound
  <2>2. k.bundle[i] \in Aliases
    BY CatalogAssumption DEF IInv, TypeOK
  <2>3. QED BY <1>3, <2>1, <2>2
<1>8. QED BY <1>1, <1>5, <1>6, <1>7 DEF KeysHold

(* The rows that a request writes when it ends name the ids in its hand.   *)
LEMMA KeysWrite ==
  ASSUME IInv, KeysHold, NEW c \in Callers,
         UpsertNodeAssertion(c) \/ PutEdge(c) \/ TornPutEdge(c) \/ ReadNode(c) \/ Fail(c)
  PROVE  KeysHold'
<1> DEFINE r == req[c]
<1>1. /\ req'[c] = Idle /\ \A d \in Callers : d # c => req'[d] = req[d]
  BY EndFields DEF Ends
<1>2. UNCHANGED <<nodes, merged_into, alias>>
  BY DEF UpsertNodeAssertion, PutEdge, TornPutEdge, ReadNode, Fail, tables
<1>3. InHand(req[c])' /\ Attached(req[c])'
  BY <1>1, IdleFields DEF InHand, Attached
<1>4. \A d \in Callers : InHand(req[d])' /\ Attached(req[d])'
  BY <1>1, <1>2, <1>3, OthersKeep
<1>5. InHand(r) /\ Attached(r) /\ Shape(r) /\ r \in Requests
  BY DEF KeysHold, IInv, TypeOK
<1>6. CASE UpsertNodeAssertion(c)
  <2>1. /\ r.step = "upsert_node_assertion" /\ r.cur \in nodes /\ r.op = "put_work"
        /\ \A j \in 1 .. Len(r.args) : alias[r.args[j]] # NoId
    BY <1>5, <1>6, IdsAssumption DEF UpsertNodeAssertion, Shape, InHand, Attached
  <2>2. /\ node_assertion' = NodeUpsert(r.cur, r.source, r.at)
        /\ acked' = acked \union {[bundle |-> r.args, id |-> r.cur]}
        /\ UNCHANGED <<edge, edge_assertion>>
    BY <1>6 DEF UpsertNodeAssertion
  <2>3. ForeignKeys'
    BY <1>2, <2>1, <2>2 DEF KeysHold, ForeignKeys, NodeUpsert
  <2>4. DOMAIN r.args = 1 .. Len(r.args)
    BY <1>5, RequestFields
  <2>5. AcksBound'
    <3> DEFINE new == [bundle |-> r.args, id |-> r.cur]
    <3>1. \A i \in DOMAIN new.bundle : alias[new.bundle[i]] # NoId
      BY <2>1, <2>4
    <3> HIDE DEF new
    <3>2. acked' = acked \union {new} /\ alias' = alias
      BY <1>2, <2>2 DEF new
    <3>3. QED BY <3>1, <3>2 DEF KeysHold, AcksBound
  <2>6. QED BY <1>2, <1>4, <2>3, <2>5 DEF KeysHold
<1>7. CASE PutEdge(c) \/ TornPutEdge(c)
  <2>1. r.left \in nodes /\ r.cur \in nodes
    BY <1>5, <1>7, IdsAssumption DEF PutEdge, TornPutEdge, Shape, InHand
  <2>2. /\ edge' = edge \union {<<r.left, r.cur>>}
        /\ edge_assertion' \subseteq EdgeUpsert(r.left, r.cur, r.source, r.at) \union edge_assertion
        /\ UNCHANGED <<node_assertion, acked>>
    BY <1>7 DEF PutEdge, TornPutEdge, history
  <2>3. \A p \in edge_assertion' : <<p.src, p.dst>> \in edge'
    <3> SUFFICES ASSUME NEW p \in edge_assertion' PROVE <<p.src, p.dst>> \in edge'
      OBVIOUS
    <3>1. p \in edge_assertion \/ (p.src = r.left /\ p.dst = r.cur)
      BY <2>2 DEF EdgeUpsert
    <3>2. \A o \in edge_assertion : <<o.src, o.dst>> \in edge
      BY DEF KeysHold, ForeignKeys
    <3>3. QED BY <2>2, <3>1, <3>2
  <2>4. \A e \in edge' : e[1] \in nodes /\ e[2] \in nodes
    <3> SUFFICES ASSUME NEW e \in edge' PROVE e[1] \in nodes /\ e[2] \in nodes
      OBVIOUS
    <3>1. e \in edge \/ (e[1] = r.left /\ e[2] = r.cur)
      BY <2>2
    <3>2. \A o \in edge : o[1] \in nodes /\ o[2] \in nodes
      BY DEF KeysHold, ForeignKeys
    <3>3. QED BY <2>1, <3>1, <3>2
  <2>5. QED BY <1>2, <1>4, <2>2, <2>3, <2>4 DEF KeysHold, ForeignKeys, AcksBound
<1>8. CASE ReadNode(c) \/ Fail(c)
  <2>1. UNCHANGED <<node_assertion, edge, edge_assertion, acked>>
    BY <1>8 DEF ReadNode, Fail, tables, history
  <2>2. QED BY <1>2, <1>4, <2>1 DEF KeysHold, ForeignKeys, AcksBound
<1>9. QED BY <1>6, <1>7, <1>8

(* A delete that nothing overlaps takes the rows of its network along.     *)
LEMMA KeysDelete ==
  ASSUME IInv, KeysHold, NEW c \in Callers, DeleteNetwork(c),
         \A d \in Callers : d # c => req[d].step = "idle"
  PROVE  KeysHold'
<1> DEFINE n == req[c].cur
           net == NetworkOf(merged_into, nodes, n)
           gone == {a \in Aliases : alias[a] \in net}
<1>1. n \in nodes /\ n \in Ids
  BY IdsAssumption DEF DeleteNetwork, IInv, Shape, KeysHold, InHand
<1>2. /\ nodes' = nodes \ net
      /\ merged_into' = [x \in Ids |-> IF x \in net THEN NoId ELSE merged_into[x]]
      /\ alias' = [a \in Aliases |-> IF a \in gone THEN NoId ELSE alias[a]]
      /\ node_assertion' = {r \in node_assertion : r.node \notin net}
      /\ edge' = {e \in edge : e[1] \notin net /\ e[2] \notin net}
      /\ edge_assertion' = {r \in edge_assertion : r.src \notin net /\ r.dst \notin net}
      /\ acked' = {k \in acked : \A i \in DOMAIN k.bundle : k.bundle[i] \notin gone}
  BY DEF DeleteNetwork
<1>3. ASSUME NEW x \in Ids, merged_into'[x] # NoId
      PROVE  x \in nodes' /\ merged_into'[x] \in nodes'
  <2>1. /\ x \notin net /\ merged_into'[x] = merged_into[x]
        /\ x \in nodes /\ merged_into[x] \in nodes /\ merged_into[x] # NoId
    BY <1>2, <1>3 DEF KeysHold
  <2>2. merged_into[x] \notin net
    <3> SUFFICES ASSUME merged_into[x] \in net PROVE x \in net
      BY <2>1
    <3>1. merged_into \in Redirection /\ merged_into[x] \in Ids
      BY <2>1 DEF IInv, TypeOK, Redirection
    <3>2. n \in Chain(merged_into, merged_into[x])
      BY <1>1, <3>1, ChainStarts DEF NetworkOf
    <3>3. Chain(merged_into, merged_into[x]) \subseteq Chain(merged_into, x)
      BY <2>1, <3>1, ChainStarts, ChainClosed, ChainMinimal DEF ClosedUnder
    <3>4. QED BY <2>1, <3>2, <3>3 DEF NetworkOf
  <2>3. QED BY <1>2, <2>1, <2>2
<1> HIDE DEF net
<1>4. ForeignKeys'
  <2>1. \A x \in nodes' : x \in Ids
    BY <1>2 DEF IInv, TypeOK
  <2>2. \A a \in Aliases : alias'[a] # NoId => alias'[a] \in nodes'
    BY <1>2 DEF KeysHold, ForeignKeys
  <2>3. /\ \A r \in node_assertion' : r.node \in nodes'
        /\ \A e \in edge' : e[1] \in nodes' /\ e[2] \in nodes'
    BY <1>2 DEF KeysHold, ForeignKeys
  <2>4. \A r \in edge_assertion' : <<r.src, r.dst>> \in edge'
    BY <1>2 DEF KeysHold, ForeignKeys
  <2>5. QED BY <1>3, <2>1, <2>2, <2>3, <2>4 DEF ForeignKeys
<1>5. AcksBound'
  <2> SUFFICES ASSUME NEW k \in acked', NEW i \in DOMAIN k.bundle PROVE alias'[k.bundle[i]] # NoId
    BY DEF AcksBound
  <2>1. k \in acked /\ k.bundle[i] \notin gone
    BY <1>2
  <2>2. k.bundle[i] \in Aliases
    BY <2>1, CatalogAssumption DEF IInv, TypeOK
  <2>3. QED BY <1>2, <2>1, <2>2 DEF KeysHold, AcksBound
<1>6. \A d \in Callers : req'[d].step = "idle"
  <2>1. req'[c] = Idle /\ \A d \in Callers : d # c => req'[d] = req[d]
    BY EndFields DEF Ends
  <2>2. QED BY <2>1, IdleFields
<1>7. \A d \in Callers : InHand(req[d])' /\ Attached(req[d])'
  BY <1>6 DEF InHand, Attached
<1>8. QED BY <1>3, <1>4, <1>5, <1>7 DEF KeysHold

LEMMA RacedStays ==
  ASSUME IInv, [Next]_vars
  PROVE  (raced => raced') /\ (~clashed' => ~clashed)
<1>1. CASE UNCHANGED vars
  BY <1>1 DEF vars
<1>2. ASSUME NEW c \in Callers,
             CallPutWork(c) \/ CallPutEdges(c) \/ CallGetWork(c) \/ CallDeleteWork(c)
      PROVE  (raced => raced') /\ (clashed => clashed')
  BY <1>2, CallFields
<1>3. ASSUME NEW c \in Callers,
             \/ GetAlias(c) \/ ResolveLive(c) \/ CreateNode(c) \/ Merge(c) \/ AttachAlias(c) \/ Ends(c)
      PROVE  raced' = raced /\ clashed' = clashed
  BY <1>3, OpKept
<1>4. QED BY <1>1, <1>2, <1>3, StepCases

LEMMA KeysInductive ==
  IInv /\ Alone /\ DeletesMeant /\ KInv /\ [Next]_vars => KInv'
<1> SUFFICES ASSUME IInv, Alone, DeletesMeant, KInv, [Next]_vars, ~clashed'
             PROVE  KeysHold'
  BY DEF KInv
<1>1. KeysHold /\ ~clashed
  BY RacedStays DEF KInv
<1>2. CASE UNCHANGED vars
  BY <1>1, <1>2 DEF vars, KeysHold, ForeignKeys, AcksBound, InHand, Attached
<1>3. ASSUME NEW c \in Callers, Ends(c) PROVE KeysHold'
  <2>1. CASE DeleteNetwork(c)
    <3>1. req[c].step # "idle" /\ req[c].op = "delete_work"
      BY <2>1 DEF DeletesMeant, DeleteNetwork
    <3>2. \A d \in Callers : d # c => req[d].step = "idle"
      BY <1>1, <3>1 DEF Alone
    <3>3. QED BY <1>1, <2>1, <3>2, KeysDelete
  <2>2. CASE ~DeleteNetwork(c)
    BY <1>1, <1>3, <2>2, KeysWrite DEF Ends
  <2>3. QED BY <2>1, <2>2
<1>4. QED BY <1>1, <1>2, <1>3, StepCases, KeysCall, KeysGetAlias, KeysResolveLive, KeysCreateNode,
             KeysMerge, KeysAttachAlias

LEMMA KeysInvariant == Spec => []KInv
<1>1. Init => Alone /\ DeletesMeant /\ KInv
  BY AloneInitial, KeysInitial DEF KInv
<1>2. IInv /\ Alone /\ DeletesMeant /\ [Next]_vars => Alone' /\ DeletesMeant'
  BY AloneStep
<1>3. QED BY <1>1, <1>2, KeysInductive, Invariant, PTL DEF Spec

(* Unless a delete overlaps another request, the foreign keys that SQLite  *)
(* does not enforce hold, however the requests interleave and fail, ...    *)
THEOREM ForeignKeysKept == Spec => []ForeignKeysHold
<1>1. KInv => ForeignKeysHold
  BY DEF KInv, KeysHold, ForeignKeysHold
<1>2. QED BY <1>1, KeysInvariant, PTL

(* ... and no alias that put_work acknowledged is lost.                    *)
THEOREM AcknowledgedAliasesStay == Spec => []AckedAliasesBound
<1>1. KInv => AckedAliasesBound
  BY DEF KInv, KeysHold, AckedAliasesBound
<1>2. QED BY <1>1, KeysInvariant, PTL
------------------------------------------------------------------------------
(* Healing.  What a request that is alone has established at each step:    *)
(* put_work has counted the live node of every alias up to its position,   *)
(* then merges them, then attaches what is unbound, so that at the end all *)
(* its aliases lead to the node it returns.                                *)

Counted(a, G) == alias[a] # NoId => Home(a) \in G
LeadsTo(a, n) == alias[a] # NoId /\ Home(a) = n

Progress(r) ==
  /\ r.op = "put_work" /\ r.step \in {"get_alias", "resolve_live"} =>
       /\ \A n \in r.found : Live(n)
       /\ \A j \in 1 .. (r.pos - 1) : Counted(r.args[j], r.found)
  /\ r.op = "put_edges" /\ r.step # "idle" /\ r.pos = 2 => Live(r.left)
  /\ r.step = "resolve_live" => r.cur = alias[r.args[r.pos]]
  /\ r.step = "create_node" =>
       \A j \in 1 .. Len(r.args) : r.op = "put_work" \/ j = r.pos => alias[r.args[j]] = NoId
  /\ r.step = "merge" =>
       /\ \A n \in r.found : Live(n)
       /\ \A j \in 1 .. Len(r.args) : Counted(r.args[j], r.found)
  /\ r.step = "get_or_create_alias" =>
       /\ Live(r.cur)
       /\ r.op = "put_edges" => alias[r.args[r.pos]] = NoId
       /\ r.op = "put_work" =>
            /\ \A j \in 1 .. Len(r.args) : Counted(r.args[j], {r.cur})
            /\ \A j \in 1 .. (r.pos - 1) : LeadsTo(r.args[j], r.cur)
  /\ r.step = "upsert_node_assertion" =>
       Live(r.cur) /\ \A j \in 1 .. Len(r.args) : LeadsTo(r.args[j], r.cur)
  /\ r.step \in {"put_edge", "delete_network"} => Live(r.cur)

SoloProgress == \A c \in Callers : c \in solo => Progress(req[c])

LEMMA ProgressIdle == Progress(Idle)
BY IdleFields DEF Progress

LEMMA ForestFacts ==
  ASSUME IInv
  PROVE  /\ merged_into \in Redirection /\ Decreasing(merged_into)
         /\ \A a \in Aliases : alias[a] # NoId => alias[a] \in Ids
BY DEF IInv, TypeOK, RedirectsDecrease, Decreasing

(* put_work's positions are inside its bundle. *)
LEMMA Positions ==
  ASSUME IInv, NEW c \in Callers, req[c].step # "idle"
  PROVE  /\ req[c] \in Requests /\ Shape(req[c]) /\ req[c].args \in Seq(Aliases)
         /\ Len(req[c].args) \in Nat /\ req[c].pos \in 1 .. Len(req[c].args)
         /\ \A j \in 1 .. Len(req[c].args) : req[c].args[j] \in Aliases
         /\ req[c].found \in SUBSET Ids
         /\ req[c].op = "put_edges" => Len(req[c].args) = 2
<1>1. req[c] \in Requests /\ Shape(req[c])
  BY DEF IInv, TypeOK
<1>2. QED BY <1>1, RequestFields DEF Shape

(* After put_work has counted the alias it is at among G. *)
LEMMA ProgressLooked ==
  ASSUME IInv, NEW c \in Callers, req[c].step \in {"get_alias", "resolve_live"},
         req[c].op = "put_work", NEW G \in SUBSET Ids, req[c].found \subseteq G,
         \A n \in G : Live(n),
         \A j \in 1 .. req[c].pos : Counted(req[c].args[j], G)
  PROVE  Progress(Looked(req[c], G))
<1> DEFINE r == req[c]
           q == Looked(r, G)
<1>1. /\ r \in Requests /\ Len(r.args) \in Nat /\ r.pos \in 1 .. Len(r.args)
      /\ ~(r.pos < Len(r.args)) => r.pos = Len(r.args)
  BY Positions
<1>2. /\ q.op = r.op /\ q.args = r.args
      /\ \/ /\ r.pos < Len(r.args) /\ q.step = "get_alias" /\ q.pos = r.pos + 1
            /\ q.found = G /\ q.cur = r.cur
         \/ /\ ~(r.pos < Len(r.args)) /\ q.step = "create_node" /\ q.pos = r.pos
            /\ G = {} /\ q.found = r.found /\ q.cur = r.cur
         \/ /\ ~(r.pos < Len(r.args)) /\ q.step = "get_or_create_alias" /\ q.pos = 1
            /\ q.found = G /\ G = {q.cur}
         \/ /\ ~(r.pos < Len(r.args)) /\ q.step = "merge" /\ q.pos = r.pos
            /\ q.found = G /\ q.cur = r.cur /\ G # {}
  BY <1>1, LookedFields
<1> SUFFICES Progress(q)
  OBVIOUS
<1> HIDE DEF q
<1>3. CASE r.pos < Len(r.args) /\ q.step = "get_alias" /\ q.pos = r.pos + 1 /\ q.found = G
  <2>1. q.pos - 1 = r.pos
    BY <1>1, <1>3
  <2>2. QED BY <1>2, <1>3, <2>1 DEF Progress
<1>4. CASE r.pos = Len(r.args) /\ q.step = "create_node" /\ G = {}
  BY <1>2, <1>4 DEF Progress, Counted
<1>5. CASE r.pos = Len(r.args) /\ q.step = "get_or_create_alias" /\ q.pos = 1 /\ G = {q.cur}
  <2>1. \A j \in 1 .. (q.pos - 1) : FALSE
    BY <1>5
  <2>2. Live(q.cur) /\ \A j \in 1 .. Len(q.args) : Counted(q.args[j], {q.cur})
    BY <1>2, <1>5
  <2>3. QED BY <1>2, <1>5, <2>1, <2>2 DEF Progress
<1>6. CASE r.pos = Len(r.args) /\ q.step = "merge" /\ q.found = G
  BY <1>2, <1>6 DEF Progress
<1>7. QED BY <1>1, <1>2, <1>3, <1>4, <1>5, <1>6

LEMMA ProgressSettled ==
  ASSUME IInv, NEW c \in Callers, req[c].step # "idle", req[c].op = "put_edges",
         NEW n \in Ids, Live(n), req[c].pos = 2 => Live(req[c].left)
  PROVE  Progress(Settled(req[c], n))
<1> DEFINE r == req[c]
           q == Settled(r, n)
<1>1. r \in Requests /\ r.pos \in 1 .. 2
  BY Positions
<1>2. /\ q.op = r.op /\ q.args = r.args /\ q.found = r.found
      /\ \/ r.pos = 1 /\ q.step = "get_alias" /\ q.pos = 2 /\ q.left = n /\ q.cur = r.cur
         \/ r.pos # 1 /\ q.step = "put_edge" /\ q.pos = r.pos /\ q.left = r.left /\ q.cur = n
  BY <1>1, SettledFields
<1> HIDE DEF q
<1>3. Progress(q)
  BY <1>1, <1>2 DEF Progress
<1>4. QED BY <1>3 DEF q

(* What a request has established stays so when the aliases, the live      *)
(* nodes and the ends of the walks stay what they are.                     *)
LEMMA ProgressKept ==
  ASSUME NEW q \in Requests, Shape(q), Progress(q), UNCHANGED alias,
         \A n \in Ids : Live(n)' <=> Live(n),
         \A a \in Aliases : alias[a] # NoId => Home(a)' = Home(a),
         NEW c \in Callers, req'[c] = q
  PROVE  Progress(req[c])'
<1>1. CASE q.step = "idle"
  BY <1>1 DEF Progress
<1>2. CASE q.step # "idle"
  <2>1. /\ q.args \in Seq(Aliases) /\ Len(q.args) \in Nat /\ q.pos \in 1 .. Len(q.args)
        /\ q.found \in SUBSET Ids
    BY <1>2, RequestFields DEF Shape
  <2>2. \A j \in 1 .. Len(q.args) : q.args[j] \in Aliases
    BY <2>1
  <2>3. \A j \in 1 .. (q.pos - 1) : j \in 1 .. Len(q.args)
    BY <2>1
  <2>4. \A n \in Ids : Live(n) => Live(n)'
    OBVIOUS
  <2>5. /\ \A a \in Aliases, G \in SUBSET Ids : Counted(a, G) => (alias'[a] # NoId => Home(a)' \in G)
        /\ \A a \in Aliases, n \in Ids : LeadsTo(a, n) => alias'[a] # NoId /\ Home(a)' = n
    BY DEF Counted, LeadsTo
  <2> DEFINE P == Progress(q)
  <2>6. /\ q.op = "put_work" /\ q.step \in {"get_alias", "resolve_live"} =>
             /\ \A n \in q.found : Live(n)'
             /\ \A j \in 1 .. (q.pos - 1) : alias'[q.args[j]] # NoId => Home(q.args[j])' \in q.found
        /\ q.step = "merge" =>
             /\ \A n \in q.found : Live(n)'
             /\ \A j \in 1 .. Len(q.args) : alias'[q.args[j]] # NoId => Home(q.args[j])' \in q.found
    BY <2>1, <2>2, <2>3, <2>4, <2>5 DEF Progress
  <2>7. /\ q.op = "put_edges" /\ q.pos = 2 => Live(q.left)'
        /\ q.step \in {"put_edge", "delete_network"} => Live(q.cur)'
    BY <1>2, <2>4 DEF Progress, Shape
  <2>8. q.step = "get_or_create_alias" =>
             /\ Live(q.cur)'
             /\ q.op = "put_work" =>
                  /\ \A j \in 1 .. Len(q.args) : alias'[q.args[j]] # NoId => Home(q.args[j])' \in {q.cur}
                  /\ \A j \in 1 .. (q.pos - 1) : alias'[q.args[j]] # NoId /\ Home(q.args[j])' = q.cur
    <3> SUFFICES ASSUME q.step = "get_or_create_alias"
                 PROVE  /\ Live(q.cur)'
                        /\ q.op = "put_work" =>
                             /\ \A j \in 1 .. Len(q.args) :
                                  alias'[q.args[j]] # NoId => Home(q.args[j])' \in {q.cur}
                             /\ \A j \in 1 .. (q.pos - 1) :
                                  alias'[q.args[j]] # NoId /\ Home(q.args[j])' = q.cur
      OBVIOUS
    <3>1. q.cur \in Ids /\ {q.cur} \in SUBSET Ids
      BY <1>2 DEF Shape
    <3>2. QED BY <2>2, <2>3, <2>4, <2>5, <3>1 DEF Progress
  <2>9. q.step = "upsert_node_assertion" =>
          Live(q.cur)' /\ \A j \in 1 .. Len(q.args) : alias'[q.args[j]] # NoId /\ Home(q.args[j])' = q.cur
    BY <1>2, <2>2, <2>4, <2>5 DEF Progress, Shape
  <2>10. /\ q.step = "resolve_live" => q.cur = alias'[q.args[q.pos]]
         /\ q.step = "create_node" =>
              \A j \in 1 .. Len(q.args) : q.op = "put_work" \/ j = q.pos => alias'[q.args[j]] = NoId
         /\ q.step = "get_or_create_alias" /\ q.op = "put_edges" => alias'[q.args[q.pos]] = NoId
    BY DEF Progress
  <2>11. QED
    BY <1>2, <2>6, <2>7, <2>8, <2>9, <2>10 DEF Progress, Counted, LeadsTo
<1>3. QED BY <1>1, <1>2

LEMMA ProgressGetAlias ==
  ASSUME IInv, IInv', NEW c \in Callers, GetAlias(c), Progress(req[c])
  PROVE  Progress(req[c])'
<1> DEFINE r == req[c]
           q == req'[c]
           raw == alias[r.args[r.pos]]
<1>1. /\ r.step = "get_alias" /\ r.args[r.pos] \in Aliases
      /\ UNCHANGED <<nodes, merged_into, alias>>
      /\ \/ /\ raw # NoId /\ raw \in Ids /\ q.step = "resolve_live" /\ q.cur = raw
            /\ q.op = r.op /\ q.args = r.args /\ q.pos = r.pos
            /\ q.found = r.found /\ q.left = r.left
         \/ raw = NoId /\ r.op = "put_work" /\ q = Looked(r, r.found)
         \/ /\ raw = NoId /\ r.op = "put_edges" /\ q.step = "create_node"
            /\ q.op = r.op /\ q.args = r.args /\ q.pos = r.pos
            /\ q.found = r.found /\ q.left = r.left /\ q.cur = r.cur
         \/ raw = NoId /\ q = Idle /\ r.op \in {"get_work", "delete_work"}
  BY GetAliasFields DEF tables
<1>2. q \in Requests /\ Shape(q)
  BY DEF IInv, TypeOK
<1>3. /\ \A n \in Ids : Live(n)' <=> Live(n)
      /\ \A a \in Aliases : alias[a] # NoId => Home(a)' = Home(a)
  BY <1>1 DEF Live, Home
<1>4. Progress(q)
  <2>1. CASE q.step = "resolve_live" /\ raw # NoId /\ q.cur = raw
    BY <1>1, <2>1 DEF Progress
  <2>2. CASE raw = NoId /\ r.op = "put_work" /\ q = Looked(r, r.found)
    <3>1. r.found \in SUBSET Ids /\ r.pos \in 1 .. Len(r.args) /\ Len(r.args) \in Nat
      BY <1>1, Positions
    <3>2. /\ \A n \in r.found : Live(n)
          /\ \A j \in 1 .. (r.pos - 1) : Counted(r.args[j], r.found)
      BY <1>1, <2>2 DEF Progress
    <3>3. Counted(r.args[r.pos], r.found)
      BY <2>2 DEF Counted
    <3>4. \A j \in 1 .. r.pos : j \in 1 .. (r.pos - 1) \/ j = r.pos
      BY <3>1
    <3>5. \A j \in 1 .. r.pos : Counted(r.args[j], r.found)
      BY <3>2, <3>3, <3>4
    <3>6. QED BY <1>1, <2>2, <3>1, <3>2, <3>5, ProgressLooked
  <2>3. CASE /\ raw = NoId /\ r.op = "put_edges" /\ q.step = "create_node"
             /\ q.op = r.op /\ q.args = r.args /\ q.pos = r.pos /\ q.left = r.left
    BY <1>1, <2>3 DEF Progress
  <2>4. CASE q = Idle
    BY <2>4, ProgressIdle
  <2>5. QED BY <1>1, <2>1, <2>2, <2>3, <2>4
<1>5. QED BY <1>1, <1>2, <1>3, <1>4, ProgressKept

(* The walk changes neither which nodes are live nor where walks end.      *)
LEMMA CompressionKeeps ==
  ASSUME IInv, NEW n \in Ids, merged_into' = Compressed(merged_into, n), UNCHANGED <<nodes, alias>>
  PROVE  /\ \A x \in Ids : Live(x)' <=> Live(x)
         /\ \A x \in Ids : Root(merged_into', x) = Root(merged_into, x)
         /\ \A a \in Aliases : alias[a] # NoId => Home(a)' = Home(a)
<1>1. merged_into \in Redirection /\ Decreasing(merged_into)
  BY ForestFacts
<1>2. \A x \in Ids : Root(merged_into', x) = Root(merged_into, x)
  BY <1>1, CompressedRoots
<1>3. \A x \in Ids : merged_into'[x] = NoId <=> merged_into[x] = NoId
  <2>1. Root(merged_into, n) \in Ids /\ Root(merged_into, n) # NoId
    BY <1>1, RootLive, IdsAssumption
  <2>2. QED BY <2>1 DEF Compressed
<1>4. \A a \in Aliases : alias[a] # NoId => alias[a] \in Ids
  BY ForestFacts
<1>5. QED BY <1>2, <1>3, <1>4 DEF Live, Home

LEMMA ProgressResolveLive ==
  ASSUME IInv, IInv', NEW c \in Callers, ResolveLive(c), Progress(req[c])
  PROVE  Progress(req[c])'
<1> DEFINE r == req[c]
           q == req'[c]
           live == Root(merged_into, r.cur)
<1>1. /\ r.step = "resolve_live" /\ r.cur \in Ids /\ live \in Ids
      /\ UNCHANGED <<nodes, alias>>
      /\ \/ /\ Resolves(r.cur) /\ merged_into' = Compressed(merged_into, r.cur)
            /\ \/ r.op = "put_work" /\ q = Looked(r, r.found \union {live})
               \/ r.op = "put_edges" /\ q = Settled(r, live)
               \/ /\ r.op \notin {"put_work", "put_edges"} /\ q.op = r.op
                  /\ q.step \in {"read_node", "delete_network"} /\ q.cur = live
         \/ q = Idle /\ UNCHANGED merged_into
  BY ResolveLiveFields
<1>2. q \in Requests /\ Shape(q)
  BY DEF IInv, TypeOK
<1>3. CASE q = Idle
  BY <1>3, IdleFields DEF Progress
<1>4. CASE Resolves(r.cur) /\ merged_into' = Compressed(merged_into, r.cur) /\ q # Idle
  <2>1. /\ \A n \in Ids : Live(n)' <=> Live(n)
        /\ \A a \in Aliases : alias[a] # NoId => Home(a)' = Home(a)
    BY <1>1, <1>4, CompressionKeeps
  <2>2. Live(live)
    BY <1>1, <1>4, ForestFacts, RootProperty DEF Resolves, Live
  <2>3. live = Home(r.args[r.pos])
    BY <1>1 DEF Progress, Home
  <2>4. Progress(q)
    <3>1. CASE r.op = "put_work" /\ q = Looked(r, r.found \union {live})
      <4> DEFINE G == r.found \union {live}
      <4>1. /\ r.found \in SUBSET Ids /\ r.pos \in 1 .. Len(r.args) /\ Len(r.args) \in Nat
            /\ G \in SUBSET Ids
        BY <1>1, Positions
      <4>2. \A j \in 1 .. (r.pos - 1) : Counted(r.args[j], r.found)
        BY <1>1, <3>1 DEF Progress
      <4>3. \A n \in G : Live(n)
        BY <1>1, <2>2, <3>1 DEF Progress
      <4>4. Counted(r.args[r.pos], G) /\ \A j \in 1 .. (r.pos - 1) : Counted(r.args[j], G)
        BY <2>3, <4>2 DEF Counted
      <4>5. \A j \in 1 .. r.pos : j \in 1 .. (r.pos - 1) \/ j = r.pos
        BY <4>1
      <4>6. r.found \subseteq G /\ q = Looked(r, G)
        BY <3>1
      <4> HIDE DEF G
      <4>7. \A j \in 1 .. r.pos : Counted(r.args[j], G)
        BY <4>4, <4>5
      <4>8. QED BY <1>1, <3>1, <4>1, <4>3, <4>6, <4>7, ProgressLooked
    <3>2. CASE r.op = "put_edges" /\ q = Settled(r, live)
      <4>1. r.pos = 2 => Live(r.left)
        BY <1>1, <3>2 DEF Progress
      <4>2. QED BY <1>1, <2>2, <3>2, <4>1, ProgressSettled
    <3>3. CASE /\ r.op \notin {"put_work", "put_edges"} /\ q.op = r.op
               /\ q.step \in {"read_node", "delete_network"} /\ q.cur = live
      BY <2>2, <3>3 DEF Progress
    <3>4. QED BY <1>1, <1>4, <3>1, <3>2, <3>3
  <2>5. QED BY <1>1, <1>2, <2>1, <2>4, ProgressKept
<1>5. QED BY <1>1, <1>3, <1>4

(* The same, of the next state. *)
LiveNext(n) == n \in nodes' /\ merged_into'[n] = NoId
CountedNext(a, G) == alias'[a] # NoId => Root(merged_into', alias'[a]) \in G
LeadsToNext(a, n) == alias'[a] # NoId /\ Root(merged_into', alias'[a]) = n

LEMMA FreshNodeLives ==
  ASSUME IInv, SInv, NEW c \in Callers, CreateNode(c)
  PROVE  /\ merged_into[req'[c].cur] = NoId /\ LiveNext(req'[c].cur)
         /\ \A n \in Ids : Live(n) => LiveNext(n)
         /\ \A n \in nodes' : n \in nodes \/ n = req'[c].cur
<1>1. /\ req'[c].cur \in Ids \ issued /\ nodes' = nodes \union {req'[c].cur}
      /\ UNCHANGED merged_into
  BY CreateNodeFields
<1>2. merged_into[req'[c].cur] = NoId
  BY <1>1 DEF SInv, Referenced
<1>3. QED BY <1>1, <1>2 DEF Live, LiveNext

LEMMA ProgressCreateNode ==
  ASSUME IInv, SInv, NEW c \in Callers, CreateNode(c), Progress(req[c])
  PROVE  Progress(req[c])'
<1> DEFINE r == req[c]
           q == req'[c]
<1>1. /\ r.step = "create_node" /\ r.op \in {"put_work", "put_edges"}
      /\ UNCHANGED <<merged_into, alias>>
      /\ q.step = "get_or_create_alias" /\ q.op = r.op /\ q.args = r.args
      /\ q.found = r.found /\ q.left = r.left
      /\ q.pos = IF r.op = "put_work" THEN 1 ELSE r.pos
  BY CreateNodeFields
<1>2. /\ LiveNext(q.cur) /\ \A n \in Ids : Live(n) => LiveNext(n)
  BY FreshNodeLives
<1>3. \A j \in 1 .. Len(r.args) : r.op = "put_work" \/ j = r.pos => alias[r.args[j]] = NoId
  BY <1>1 DEF Progress, Live, LiveNext, Counted, CountedNext, Home, LeadsTo, LeadsToNext
<1>4. CASE r.op = "put_work"
  <2>1. \A j \in 1 .. (q.pos - 1) : FALSE
    BY <1>1, <1>4
  <2>2. QED BY <1>1, <1>2, <1>3, <1>4, <2>1 DEF Progress, Counted, CountedNext, Live, LiveNext, Home, LeadsTo, LeadsToNext
<1>5. CASE r.op = "put_edges"
  <2>1. r.pos \in 1 .. Len(r.args) /\ (r.pos = 2 => r.left \in Ids)
    BY <1>1, <1>5, Positions DEF Shape
  <2>2. r.pos = 2 => LiveNext(r.left)
    BY <1>1, <1>2, <1>5, <2>1 DEF Progress, Live, LiveNext, Counted, CountedNext, Home, LeadsTo, LeadsToNext
  <2>3. QED BY <1>1, <1>2, <1>3, <1>5, <2>1, <2>2 DEF Progress, Live, LiveNext, Counted, CountedNext, Home, LeadsTo, LeadsToNext
<1>6. QED BY <1>1, <1>4, <1>5

(* A merge of two live nodes moves what led to the loser to the survivor.  *)
LEMMA MergeMoves ==
  ASSUME IInv, NEW c \in Callers, Merge(c), \A n \in req[c].found : Live(n)
  PROVE  LET s == Least(req[c].found)
             l == Least(req[c].found \ {s})
         IN  /\ Live(s) /\ Live(l) /\ s # l
             /\ \A x \in Ids : LiveNext(x) <=> (Live(x) /\ x # l)
             /\ \A x \in Ids : Root(merged_into', x) =
                                 IF Root(merged_into, x) = l THEN s ELSE Root(merged_into, x)
             /\ \A a \in Aliases :
                  /\ alias'[a] = Renamed(alias[a], l, s)
                  /\ alias'[a] = NoId <=> alias[a] = NoId
                  /\ alias[a] # NoId => Home(a)' = IF Home(a) = l THEN s ELSE Home(a)
<1> DEFINE s == Least(req[c].found)
           l == Least(req[c].found \ {s})
<1>1. /\ s \in Ids /\ l \in Ids /\ s < l /\ s # l /\ Live(s) /\ Live(l)
  BY MergeTwo
<1>2. /\ merged_into' = [merged_into EXCEPT ![l] = IF l \in nodes THEN s ELSE @]
      /\ alias' = [a \in Aliases |-> Renamed(alias[a], l, s)]
      /\ UNCHANGED nodes
  BY DEF Merge
<1> HIDE DEF s, l
<1>3. /\ l \in nodes /\ merged_into[l] = NoId /\ merged_into[s] = NoId
      /\ merged_into \in Redirection /\ Decreasing(merged_into)
  BY <1>1, ForestFacts DEF Live, LiveNext
<1>4. merged_into' = [merged_into EXCEPT ![l] = s]
  BY <1>2, <1>3
<1>5. \A x \in Ids : Root(merged_into', x) =
                       IF Root(merged_into, x) = l THEN s ELSE Root(merged_into, x)
  <2>1. \A x \in Ids : Root([merged_into EXCEPT ![l] = s], x) =
                        IF Root(merged_into, x) = l THEN s ELSE Root(merged_into, x)
    BY <1>1, <1>3, MergedRoots
  <2>2. QED BY <1>4, <2>1
<1>6. \A x \in Ids : merged_into'[x] = IF x = l THEN s ELSE merged_into[x]
  BY <1>3, <1>4 DEF Redirection
<1>7. \A x \in Ids : LiveNext(x) <=> (Live(x) /\ x # l)
  BY <1>1, <1>2, <1>6, IdsAssumption DEF Live, LiveNext
<1>8. ASSUME NEW a \in Aliases
      PROVE  /\ alias'[a] = Renamed(alias[a], l, s)
             /\ alias'[a] = NoId <=> alias[a] = NoId
             /\ alias[a] # NoId => Home(a)' = IF Home(a) = l THEN s ELSE Home(a)
  <2>1. alias'[a] = Renamed(alias[a], l, s)
    BY <1>2
  <2>2. alias'[a] = NoId <=> alias[a] = NoId
    BY <1>1, <2>1, IdsAssumption DEF Renamed
  <2>3. ASSUME alias[a] # NoId PROVE Home(a)' = IF Home(a) = l THEN s ELSE Home(a)
    <3>1. alias[a] \in Ids /\ Root(merged_into, l) = l /\ Root(merged_into, s) = s
      BY <1>1, <1>3, <2>3, ForestFacts, RootStep
    <3>2. CASE alias[a] = l
      BY <1>1, <1>5, <2>1, <3>1, <3>2 DEF Renamed, Home
    <3>3. CASE alias[a] # l
      BY <1>5, <2>1, <3>1, <3>3 DEF Renamed, Home
    <3>4. QED BY <3>2, <3>3
  <2>4. QED BY <2>1, <2>2, <2>3
<1>9. QED BY <1>1, <1>5, <1>7, <1>8 DEF s, l

LEMMA ProgressMerge ==
  ASSUME IInv, NEW c \in Callers, Merge(c), Progress(req[c])
  PROVE  Progress(req[c])'
<1> DEFINE r == req[c]
           q == req'[c]
           s == Least(r.found)
           l == Least(r.found \ {s})
<1>1. /\ r.step = "merge" /\ \A n \in r.found : Live(n)
      /\ \A j \in 1 .. Len(r.args) : Counted(r.args[j], r.found)
  BY DEF Merge, Progress, Live, LiveNext, Counted, CountedNext, Home, LeadsTo, LeadsToNext
<1>2. /\ s \in r.found /\ l \in r.found /\ s # l /\ s \in Ids /\ l \in Ids /\ r.found \subseteq Ids
      /\ q.op = "put_work" /\ q.args = r.args
      /\ \/ r.found = {s, l} /\ q.step = "get_or_create_alias" /\ q.pos = 1 /\ q.cur = s
         \/ q.step = "merge" /\ q.found = r.found \ {l}
  BY MergeTwo, MergeFields
<1>3. /\ \A x \in Ids : LiveNext(x) <=> (Live(x) /\ x # l)
      /\ \A a \in Aliases :
           /\ alias'[a] = NoId <=> alias[a] = NoId
           /\ alias[a] # NoId => Home(a)' = IF Home(a) = l THEN s ELSE Home(a)
  BY <1>1, MergeMoves
<1> HIDE DEF s, l
<1>4. \A j \in 1 .. Len(r.args) : r.args[j] \in Aliases
  BY <1>1, Positions
<1>5. /\ \A n \in r.found \ {l} : LiveNext(n)
      /\ \A j \in 1 .. Len(r.args) :
           CountedNext(r.args[j], r.found \ {l})
  BY <1>1, <1>2, <1>3, <1>4 DEF Counted, CountedNext, Home
<1>6. CASE r.found = {s, l} /\ q.step = "get_or_create_alias" /\ q.pos = 1 /\ q.cur = s
  <2>1. \A j \in 1 .. (q.pos - 1) : FALSE
    BY <1>6
  <2>2. r.found \ {l} = {q.cur}
    BY <1>2, <1>6
  <2>3. LiveNext(q.cur)
    BY <1>5, <2>2
  <2>4. QED BY <1>2, <1>5, <1>6, <2>1, <2>2, <2>3 DEF Progress, Counted, CountedNext, Live, LiveNext, Home, LeadsTo, LeadsToNext
<1>7. CASE q.step = "merge" /\ q.found = r.found \ {l}
  BY <1>2, <1>5, <1>7 DEF Progress, Counted, CountedNext, Live, LiveNext, Home, LeadsTo, LeadsToNext
<1>8. QED BY <1>2, <1>6, <1>7

(* Attaching an alias to a live node makes it lead there, and moves none   *)
(* that was bound.                                                         *)
LEMMA AttachMoves ==
  ASSUME IInv, NEW c \in Callers, AttachAlias(c), Live(req[c].cur)
  PROVE  LET a == req[c].args[req[c].pos] IN
         /\ \A n \in Ids : LiveNext(n) <=> Live(n)
         /\ \A b \in Aliases : alias[b] # NoId => alias'[b] = alias[b] /\ Home(b)' = Home(b)
         /\ \A b \in Aliases : b # a => alias'[b] = alias[b]
         /\ alias[a] = NoId => alias'[a] = req[c].cur /\ LeadsToNext(a, req[c].cur)
<1> DEFINE r == req[c]
           a == r.args[r.pos]
<1>1. /\ r.cur \in Ids /\ a \in Aliases
      /\ alias' = IF alias[a] = NoId THEN [alias EXCEPT ![a] = r.cur] ELSE alias
      /\ UNCHANGED <<nodes, merged_into>>
  BY AttachAliasFields
<1>2. alias \in [Aliases -> Ids \union {NoId}] /\ Root(merged_into, r.cur) = r.cur
  BY <1>1, ForestFacts, RootStep DEF IInv, TypeOK, Live, LiveNext
<1> HIDE DEF a
<1>3. /\ \A b \in Aliases : alias[b] # NoId => alias'[b] = alias[b]
      /\ \A b \in Aliases : b # a => alias'[b] = alias[b]
      /\ alias[a] = NoId => alias'[a] = r.cur
  BY <1>1, <1>2
<1>4. /\ \A n \in Ids : LiveNext(n) <=> Live(n)
      /\ \A b \in Aliases : alias[b] # NoId => Home(b)' = Home(b)
      /\ alias[a] = NoId => LeadsToNext(a, r.cur)
  BY <1>1, <1>2, <1>3, IdsAssumption DEF Live, LiveNext, Home, LeadsTo, LeadsToNext
<1>5. QED BY <1>3, <1>4 DEF a

LEMMA ProgressAttachAlias ==
  ASSUME IInv, NEW c \in Callers, AttachAlias(c), Progress(req[c])
  PROVE  Progress(req[c])'
<1> DEFINE r == req[c]
           q == req'[c]
           a == r.args[r.pos]
<1>1. /\ r.step = "get_or_create_alias" /\ r.cur \in Ids /\ a \in Aliases
      /\ r.op \in {"put_work", "put_edges"}
      /\ \/ r.op = "put_edges" /\ q = Settled(r, r.cur)
         \/ /\ r.op = "put_work" /\ q.op = r.op /\ q.args = r.args
            /\ q.found = r.found /\ q.cur = r.cur /\ q.left = r.left
            /\ \/ r.pos < Len(r.args) /\ q.step = r.step /\ q.pos = r.pos + 1
               \/ /\ r.pos = Len(r.args) /\ q.step = "upsert_node_assertion"
                  /\ q.pos = r.pos
  BY AttachAliasFields
<1>2. /\ r \in Requests /\ Shape(r) /\ r.pos \in 1 .. Len(r.args) /\ Len(r.args) \in Nat
      /\ \A j \in 1 .. Len(r.args) : r.args[j] \in Aliases
  BY <1>1, Positions
<1>3. Live(r.cur)
  BY <1>1 DEF Progress, Live, LiveNext, Counted, CountedNext, Home, LeadsTo, LeadsToNext
<1>4. /\ \A n \in Ids : LiveNext(n) <=> Live(n)
      /\ \A b \in Aliases : alias[b] # NoId => alias'[b] = alias[b] /\ Home(b)' = Home(b)
      /\ \A b \in Aliases : b # a => alias'[b] = alias[b]
      /\ alias[a] = NoId => alias'[a] = r.cur /\ LeadsToNext(a, r.cur)
  BY <1>3, AttachMoves
<1>5. LiveNext(r.cur)
  BY <1>1, <1>3, <1>4
<1>6. CASE r.op = "put_edges" /\ q = Settled(r, r.cur)
  <2>1. /\ q.op = r.op
        /\ \/ r.pos = 1 /\ q.step = "get_alias" /\ q.pos = 2 /\ q.left = r.cur
           \/ r.pos # 1 /\ q.step = "put_edge" /\ q.left = r.left /\ q.cur = r.cur /\ q.pos = r.pos
    BY <1>1, <1>2, <1>6, SettledFields
  <2>2. r.pos \in 1 .. 2 /\ (r.pos = 2 => r.left \in Ids /\ Live(r.left))
    BY <1>1, <1>2, <1>6 DEF Shape, Progress, Live, LiveNext, Counted, CountedNext, Home, LeadsTo, LeadsToNext
  <2>3. QED BY <1>4, <1>5, <1>6, <2>1, <2>2 DEF Progress, Live, LiveNext, Counted, CountedNext, Home, LeadsTo, LeadsToNext
<1>7. CASE /\ r.op = "put_work" /\ q.op = r.op /\ q.args = r.args /\ q.cur = r.cur
  <2>1. /\ \A j \in 1 .. Len(r.args) : Counted(r.args[j], {r.cur})
        /\ \A j \in 1 .. (r.pos - 1) : LeadsTo(r.args[j], r.cur)
    BY <1>1, <1>7 DEF Progress, Live, LiveNext, Counted, CountedNext, Home, LeadsTo, LeadsToNext
  <2>2. LeadsToNext(a, r.cur)
    <3>1. CASE alias[a] = NoId
      BY <1>4, <3>1
    <3>2. CASE alias[a] # NoId
      BY <1>1, <1>2, <1>4, <2>1, <3>2 DEF Counted, CountedNext, LeadsTo, LeadsToNext, Home
    <3>3. QED BY <3>1, <3>2
  <2>3. ASSUME NEW b \in Aliases, LeadsTo(b, r.cur) PROVE LeadsToNext(b, r.cur)
    BY <1>4, <2>3 DEF LeadsTo, LeadsToNext, Home
  <2>4. ASSUME NEW b \in Aliases, Counted(b, {r.cur}) PROVE CountedNext(b, {r.cur})
    <3>1. CASE b = a
      BY <2>2, <3>1 DEF Counted, CountedNext, LeadsTo, LeadsToNext, Home
    <3>2. CASE b # a
      BY <1>4, <2>4, <3>2 DEF Counted, CountedNext, Home
    <3>3. QED BY <3>1, <3>2
  <2>5. \A j \in 1 .. r.pos : LeadsToNext(r.args[j], r.cur)
    <3> SUFFICES ASSUME NEW j \in 1 .. r.pos PROVE LeadsToNext(r.args[j], r.cur)
      OBVIOUS
    <3>1. CASE j = r.pos
      BY <2>2, <3>1
    <3>2. CASE j # r.pos
      <4>1. j \in 1 .. (r.pos - 1) /\ j \in 1 .. Len(r.args)
        BY <1>2, <3>2
      <4>2. QED BY <1>2, <2>1, <2>3, <4>1
    <3>3. QED BY <3>1, <3>2
  <2>6. \A j \in 1 .. Len(r.args) : CountedNext(r.args[j], {r.cur})
    BY <1>2, <2>1, <2>4
  <2>7. CASE r.pos < Len(r.args) /\ q.step = r.step /\ q.pos = r.pos + 1
    <3>1. q.pos - 1 = r.pos
      BY <1>2, <2>7
    <3>2. QED BY <1>1, <1>5, <1>7, <2>5, <2>6, <2>7, <3>1 DEF Progress, Live, LiveNext, Counted, CountedNext, Home, LeadsTo, LeadsToNext
  <2>8. CASE r.pos = Len(r.args) /\ q.step = "upsert_node_assertion"
    BY <1>5, <1>7, <2>5, <2>8 DEF Progress, Live, LiveNext, Counted, CountedNext, Home, LeadsTo, LeadsToNext
  <2>9. QED BY <1>1, <1>7, <2>7, <2>8
<1>8. QED BY <1>1, <1>6, <1>7

LEMMA ProgressCall ==
  ASSUME IInv, NEW c \in Callers,
         CallPutWork(c) \/ CallPutEdges(c) \/ CallGetWork(c) \/ CallDeleteWork(c)
  PROVE  Progress(req[c])'
<1>1. req'[c].step = "get_alias" /\ req'[c].pos = 1 /\ req'[c].found = {}
  BY CallFields
<1>2. \A j \in 1 .. (req'[c].pos - 1) : FALSE
  BY <1>1
<1>3. QED BY <1>1, <1>2 DEF Progress

LEMMA ProgressEnd ==
  ASSUME IInv, NEW c \in Callers, Ends(c)
  PROVE  Progress(req[c])'
<1>1. req'[c].step = "idle"
  BY EndFields, IdleFields
<1>2. QED BY <1>1 DEF Progress

(* A step of d leaves every other solo caller idle, or takes it out of solo. *)
LEMMA SoloStep ==
  ASSUME IInv, IInv', SInv, Alone, SoloProgress, [Next]_vars
  PROVE  SoloProgress'
<1> SUFFICES ASSUME NEW c \in Callers, c \in solo' PROVE Progress(req[c])'
  BY DEF SoloProgress
<1>1. CASE UNCHANGED vars
  BY <1>1 DEF vars, SoloProgress, Progress, Live, Counted, LeadsTo, Home
<1>2. ASSUME NEW d \in Callers,
             CallPutWork(d) \/ CallPutEdges(d) \/ CallGetWork(d) \/ CallDeleteWork(d)
      PROVE  Progress(req[c])'
  <2>1. c = d
    BY <1>2, CallFields
  <2>2. QED BY <1>2, <2>1, ProgressCall
<1>3. ASSUME NEW d \in Callers,
             \/ GetAlias(d) \/ ResolveLive(d) \/ CreateNode(d) \/ Merge(d) \/ AttachAlias(d) \/ Ends(d)
      PROVE  Progress(req[c])'
  <2>1. /\ req[d].step # "idle" /\ solo' = solo
        /\ \A e \in Callers : e # d => req'[e] = req[e]
    BY <1>3, OpKept
  <2>2. CASE c = d
    BY <1>3, <2>1, <2>2, ProgressGetAlias, ProgressResolveLive, ProgressCreateNode, ProgressMerge,
       ProgressAttachAlias, ProgressEnd DEF SoloProgress
  <2>3. CASE c # d
    <3>1. req'[c].step = "idle"
      BY <2>1, <2>3 DEF Alone
    <3>2. QED BY <3>1 DEF Progress
  <2>4. QED BY <2>2, <2>3
<1>4. QED BY <1>1, <1>2, <1>3, StepCases

LEMMA SoloInvariant == Spec => [](IInv /\ SInv /\ Alone /\ DeletesMeant /\ SoloProgress)
<1>1. Init => SInv /\ Alone /\ DeletesMeant /\ SoloProgress
  <2>1. Init => SoloProgress
    BY DEF Init, SoloProgress
  <2>2. QED BY <2>1, SidesInitial, AloneInitial
<1>2. IInv /\ SInv /\ [Next]_vars => SInv'
  BY SidesInductive
<1>3. IInv /\ Alone /\ DeletesMeant /\ [Next]_vars => Alone' /\ DeletesMeant'
  BY AloneStep
<1>4. IInv /\ IInv' /\ SInv /\ Alone /\ SoloProgress /\ [Next]_vars => SoloProgress'
  BY SoloStep
<1>5. QED BY <1>1, <1>2, <1>3, <1>4, Invariant, PTL DEF Spec

(* A put_work that nothing overlaps leaves its whole bundle on the live    *)
(* node it returns, whatever forks races or failures had left before.      *)
THEOREM ForksHeal == Spec => SoloPutHeals
<1>1. IInv /\ SoloProgress /\ [Next]_vars =>
        [\A c \in solo :
           /\ req[c].step = "upsert_node_assertion" /\ req'[c].step = "idle"
           /\ failures' = failures
           => /\ req[c].cur \in nodes /\ merged_into[req[c].cur] = NoId
              /\ \A i \in DOMAIN req[c].args :
                   Home(req[c].args[i]) = req[c].cur]_vars
  <2> SUFFICES ASSUME IInv, SoloProgress, NEW c \in solo, req[c].step = "upsert_node_assertion"
               PROVE  /\ req[c].cur \in nodes /\ merged_into[req[c].cur] = NoId
                      /\ \A i \in DOMAIN req[c].args : Home(req[c].args[i]) = req[c].cur
    OBVIOUS
  <2>1. c \in Callers
    BY DEF IInv, TypeOK
  <2>2. Live(req[c].cur) /\ \A j \in 1 .. Len(req[c].args) : LeadsTo(req[c].args[j], req[c].cur)
    BY <2>1 DEF SoloProgress, Progress
  <2>3. DOMAIN req[c].args = 1 .. Len(req[c].args)
    BY <2>1, Positions
  <2>4. QED BY <2>2, <2>3 DEF Live, LeadsTo
<1>2. QED BY <1>1, SoloInvariant, PTL DEF Spec, SoloPutHeals
------------------------------------------------------------------------------
(* Convergence.  While no request has overlapped another, the tables are   *)
(* tidy: every row is on a live node, acknowledged bundles lead to one     *)
(* node, and a live node without an alias is the one that the request in   *)
(* flight is about to attach an alias to.                                  *)

Awaited(n) ==
  \E c \in Callers : /\ req[c].step = "get_or_create_alias" /\ req[c].cur = n
                     /\ alias[req[c].args[req[c].pos]] = NoId

Reached ==
  failures = 0 => \A n \in nodes : Live(n) => (\E a \in Aliases : alias[a] = n) \/ Awaited(n)

Tidy == RowsOnLiveNodes /\ BundlesConverge /\ Reached

TidyInv == ~raced => Tidy

(* The ids and aliases of an acknowledged bundle. *)
LEMMA AckedFields ==
  ASSUME IInv, NEW k \in acked
  PROVE  /\ k.id \in Ids /\ k.bundle \in Bundles
         /\ \A i \in DOMAIN k.bundle : k.bundle[i] \in Aliases
BY CatalogAssumption DEF IInv, TypeOK

(* Live nodes, walks and rows as they were: nothing to do but see that no  *)
(* node was waiting for the request that moved.                            *)
LEMMA TidySame ==
  ASSUME IInv, Tidy, NEW c \in Callers, req[c].step # "get_or_create_alias",
         \A d \in Callers : d # c => req'[d] = req[d],
         UNCHANGED <<nodes, alias, node_assertion, edge, acked, failures>>,
         \A x \in Ids : Live(x)' <=> Live(x),
         \A x \in Ids : Root(merged_into', x) = Root(merged_into, x)
  PROVE  Tidy'
<1>1. \A a \in Aliases : alias[a] # NoId => alias[a] \in Ids /\ Home(a)' = Home(a)
  BY ForestFacts DEF Home
<1>2. nodes \subseteq Ids /\ node_assertion \subseteq NodeRows /\ edge \subseteq Ids \X Ids
  BY DEF IInv, TypeOK
<1>3. RowsOnLiveNodes'
  <2>1. \A a \in Aliases : alias'[a] # NoId => alias'[a] \in Ids /\ Live(alias[a])
    BY <1>1 DEF Tidy, RowsOnLiveNodes
  <2>2. \A r \in node_assertion : r.node \in Ids /\ Live(r.node)
    BY <1>2 DEF Tidy, RowsOnLiveNodes, NodeRows
  <2>3. \A e \in edge : e[1] \in Ids /\ e[2] \in Ids /\ Live(e[1]) /\ Live(e[2])
    BY <1>2 DEF Tidy, RowsOnLiveNodes
  <2>4. \A x \in Ids : Live(x) => x \in nodes' /\ merged_into'[x] = NoId
    BY DEF Live
  <2>5. QED BY <2>1, <2>2, <2>3, <2>4 DEF RowsOnLiveNodes, Live
<1>4. BundlesConverge'
  <2> SUFFICES ASSUME NEW k \in acked, NEW i \in DOMAIN k.bundle
               PROVE  alias[k.bundle[i]] # NoId /\ Home(k.bundle[i])' = Root(merged_into', k.id)
    BY DEF BundlesConverge
  <2>1. k.bundle[i] \in Aliases /\ k.id \in Ids
    BY AckedFields
  <2>2. alias[k.bundle[i]] # NoId /\ Home(k.bundle[i]) = Root(merged_into, k.id)
    BY DEF Tidy, BundlesConverge
  <2>3. QED BY <1>1, <2>1, <2>2
<1>5. Reached'
  <2> SUFFICES ASSUME failures = 0, NEW n \in nodes, Live(n)
               PROVE  (\E a \in Aliases : alias'[a] = n) \/ Awaited(n)'
    BY <1>2 DEF Reached
  <2>1. (\E a \in Aliases : alias[a] = n) \/ Awaited(n)
    BY DEF Tidy, Reached
  <2>2. ASSUME Awaited(n) PROVE Awaited(n)'
    <3>1. PICK d \in Callers : /\ req[d].step = "get_or_create_alias" /\ req[d].cur = n
                               /\ alias[req[d].args[req[d].pos]] = NoId
      BY <2>2 DEF Awaited
    <3>2. req'[d] = req[d]
      BY <3>1
    <3>3. QED BY <3>1, <3>2 DEF Awaited
  <2>3. QED BY <2>1, <2>2
<1>6. QED BY <1>3, <1>4, <1>5 DEF Tidy

LEMMA TidyCreateNode ==
  ASSUME IInv, SInv, Tidy, NEW c \in Callers, CreateNode(c), Progress(req[c]),
         \A d \in Callers : d # c => req[d].step = "idle"
  PROVE  Tidy'
<1> DEFINE r == req[c]
           q == req'[c]
<1>1. /\ r.step = "create_node" /\ r.op \in {"put_work", "put_edges"}
      /\ UNCHANGED <<merged_into, alias, node_assertion, edge, acked, failures>>
      /\ nodes' = nodes \union {q.cur}
      /\ q.step = "get_or_create_alias" /\ q.op = r.op /\ q.args = r.args
      /\ q.pos = IF r.op = "put_work" THEN 1 ELSE r.pos
  BY CreateNodeFields DEF history
<1>2. \A n \in nodes' : n \in nodes \/ n = q.cur
  BY <1>1
<1>3. q.pos \in 1 .. Len(r.args) /\ (r.op = "put_work" \/ q.pos = r.pos)
  BY <1>1, Positions
<1>4. alias'[q.args[q.pos]] = NoId
  BY <1>1, <1>3 DEF Progress
<1>5. ASSUME NEW n, n = q.cur PROVE Awaited(n)'
  BY <1>1, <1>4, <1>5 DEF Awaited
<1>6. Reached'
  <2> SUFFICES ASSUME failures = 0, NEW n \in nodes', n # q.cur, merged_into[n] = NoId
               PROVE  \E a \in Aliases : alias[a] = n
    <3>1. ASSUME failures' = 0, NEW n \in nodes', Live(n)'
          PROVE  (\E a \in Aliases : alias'[a] = n) \/ Awaited(n)'
      <4>1. CASE n = q.cur
        BY <1>5, <4>1
      <4>2. CASE n # q.cur
        BY <1>1, <3>1, <4>2 DEF Live
      <4>3. QED BY <4>1, <4>2
    <3>2. QED BY <3>1 DEF Reached
  <2>1. ~Awaited(n)
    BY <1>1 DEF Awaited
  <2>2. QED BY <1>2, <2>1 DEF Tidy, Reached, Live
<1>7. RowsOnLiveNodes'
  BY <1>1 DEF Tidy, RowsOnLiveNodes, Live
<1>8. BundlesConverge'
  BY <1>1 DEF Tidy, BundlesConverge, Home
<1>9. QED BY <1>6, <1>7, <1>8 DEF Tidy

LEMMA TidyMerge ==
  ASSUME IInv, Tidy, NEW c \in Callers, Merge(c), Progress(req[c]),
         \A d \in Callers : d # c => req[d].step = "idle"
  PROVE  Tidy'
<1> DEFINE r == req[c]
           s == Least(r.found)
           l == Least(r.found \ {s})
<1>1. r.step = "merge" /\ \A n \in r.found : Live(n)
  BY DEF Merge, Progress
<1>2. /\ Live(s) /\ Live(l) /\ s # l /\ s \in Ids /\ l \in Ids
      /\ \A x \in Ids : LiveNext(x) <=> (Live(x) /\ x # l)
      /\ \A x \in Ids : Root(merged_into', x) =
                          IF Root(merged_into, x) = l THEN s ELSE Root(merged_into, x)
      /\ \A a \in Aliases :
           /\ alias'[a] = Renamed(alias[a], l, s)
           /\ alias'[a] = NoId <=> alias[a] = NoId
           /\ alias[a] # NoId => Root(merged_into', alias'[a]) = IF Home(a) = l THEN s ELSE Home(a)
  BY <1>1, MergeMoves, MergeTwo DEF Home
<1>3. /\ node_assertion' = NodeFolded(l, s)
      /\ edge' = {<<Renamed(e[1], l, s), Renamed(e[2], l, s)>> : e \in edge}
      /\ UNCHANGED <<nodes, acked, failures>>
  BY DEF Merge, history
<1> HIDE DEF s, l
<1>4. \A x \in Ids : Live(x) => LiveNext(Renamed(x, l, s))
  BY <1>2 DEF Renamed
<1>5. ASSUME NEW a \in Aliases, alias'[a] # NoId PROVE LiveNext(alias'[a])
  <2>1. alias[a] \in Ids /\ Live(alias[a])
    BY <1>2, <1>5, ForestFacts DEF Tidy, RowsOnLiveNodes
  <2>2. QED BY <1>2, <1>4, <2>1
<1>6. ASSUME NEW p \in node_assertion' PROVE LiveNext(p.node)
  <2>1. PICK o \in node_assertion : p = [o EXCEPT !.node = Renamed(@, l, s)]
    BY <1>3, <1>6 DEF NodeFolded
  <2>2. o \in NodeRows /\ Live(o.node)
    BY DEF IInv, TypeOK, Tidy, RowsOnLiveNodes
  <2>3. p.node = Renamed(o.node, l, s) /\ o.node \in Ids
    BY <2>1, <2>2 DEF NodeRows
  <2>4. QED BY <1>4, <2>2, <2>3
<1>7. ASSUME NEW e \in edge' PROVE LiveNext(e[1]) /\ LiveNext(e[2])
  <2>1. PICK o \in edge : e = <<Renamed(o[1], l, s), Renamed(o[2], l, s)>>
    BY <1>3, <1>7
  <2>2. o[1] \in Ids /\ o[2] \in Ids /\ Live(o[1]) /\ Live(o[2])
    BY DEF IInv, TypeOK, Tidy, RowsOnLiveNodes
  <2>3. e[1] = Renamed(o[1], l, s) /\ e[2] = Renamed(o[2], l, s)
    BY <2>1
  <2>4. QED BY <1>4, <2>2, <2>3
<1>8. RowsOnLiveNodes'
  BY <1>5, <1>6, <1>7 DEF RowsOnLiveNodes, Live, LiveNext
<1>9. BundlesConverge'
  <2> SUFFICES ASSUME NEW k \in acked, NEW i \in DOMAIN k.bundle
               PROVE  /\ alias'[k.bundle[i]] # NoId
                      /\ Root(merged_into', alias'[k.bundle[i]]) = Root(merged_into', k.id)
    BY <1>3 DEF BundlesConverge, Home
  <2>1. k.bundle[i] \in Aliases /\ k.id \in Ids
    BY AckedFields
  <2>2. alias[k.bundle[i]] # NoId /\ Home(k.bundle[i]) = Root(merged_into, k.id)
    BY DEF Tidy, BundlesConverge
  <2>3. QED BY <1>2, <2>1, <2>2
<1>10. Reached'
  <2> SUFFICES ASSUME failures = 0, NEW n \in nodes, LiveNext(n)
               PROVE  \E a \in Aliases : alias'[a] = n
    BY <1>3 DEF Reached, Live, LiveNext
  <2>1. n \in Ids /\ Live(n) /\ n # l
    BY <1>2 DEF IInv, TypeOK
  <2>2. ~Awaited(n)
    BY <1>1 DEF Awaited
  <2>3. PICK a \in Aliases : alias[a] = n
    BY <2>1, <2>2 DEF Tidy, Reached
  <2>4. alias'[a] = n
    BY <1>2, <2>1, <2>3 DEF Renamed
  <2>5. QED BY <2>4
<1>11. QED BY <1>8, <1>9, <1>10 DEF Tidy

LEMMA TidyAttachAlias ==
  ASSUME IInv, Tidy, NEW c \in Callers, AttachAlias(c), Progress(req[c]),
         \A d \in Callers : d # c => req[d].step = "idle"
  PROVE  Tidy'
<1> DEFINE r == req[c]
           a == r.args[r.pos]
<1>1. /\ r.step = "get_or_create_alias" /\ r.cur \in Ids /\ a \in Aliases
      /\ UNCHANGED <<nodes, merged_into, node_assertion, edge, acked, failures>>
  BY AttachAliasFields DEF history
<1>2. Live(r.cur)
  BY <1>1 DEF Progress
<1>3. /\ \A b \in Aliases : alias[b] # NoId => alias'[b] = alias[b] /\ Home(b)' = Home(b)
      /\ \A b \in Aliases : b # a => alias'[b] = alias[b]
      /\ alias[a] = NoId => alias'[a] = r.cur
  BY <1>2, AttachMoves
<1>4. \A x : Live(x)' <=> Live(x)
  BY <1>1 DEF Live
<1> HIDE DEF a
<1>5. RowsOnLiveNodes'
  <2>1. ASSUME NEW b \in Aliases, alias'[b] # NoId
        PROVE  alias'[b] \in nodes /\ merged_into[alias'[b]] = NoId
    <3>1. CASE alias[b] # NoId
      BY <1>3, <3>1 DEF Tidy, RowsOnLiveNodes, Live
    <3>2. CASE alias[b] = NoId
      BY <1>2, <1>3, <2>1, <3>2 DEF Live
    <3>3. QED BY <3>1, <3>2
  <2>2. QED BY <1>1, <2>1 DEF Tidy, RowsOnLiveNodes, Live
<1>6. BundlesConverge'
  <2> SUFFICES ASSUME NEW k \in acked, NEW i \in DOMAIN k.bundle
               PROVE  alias'[k.bundle[i]] # NoId /\ Home(k.bundle[i])' = Root(merged_into, k.id)
    BY <1>1 DEF BundlesConverge
  <2>1. k.bundle[i] \in Aliases
    BY AckedFields
  <2>2. alias[k.bundle[i]] # NoId /\ Home(k.bundle[i]) = Root(merged_into, k.id)
    BY DEF Tidy, BundlesConverge
  <2>3. QED BY <1>3, <2>1, <2>2
<1>7. Reached'
  <2> SUFFICES ASSUME failures = 0, NEW n \in nodes, Live(n)
               PROVE  \E b \in Aliases : alias'[b] = n
    BY <1>1, <1>4 DEF Reached
  <2>0. n # NoId
    BY IdsAssumption DEF IInv, TypeOK
  <2>1. CASE \E b \in Aliases : alias[b] = n
    BY <1>3, <2>0, <2>1
  <2>2. CASE Awaited(n)
    <3>1. r.cur = n /\ alias[a] = NoId
      BY <1>1, <2>2 DEF Awaited, a
    <3>2. QED BY <1>1, <1>3, <3>1
  <2>3. QED BY <2>1, <2>2 DEF Tidy, Reached
<1>8. QED BY <1>5, <1>6, <1>7 DEF Tidy

(* The rows that a request writes when it ends are on the live node it     *)
(* holds, and what it acknowledges leads there.                            *)
LEMMA TidyWrite ==
  ASSUME IInv, Tidy, NEW c \in Callers, Progress(req[c]),
         UpsertNodeAssertion(c) \/ PutEdge(c) \/ TornPutEdge(c) \/ ReadNode(c) \/ Fail(c)
  PROVE  Tidy'
<1> DEFINE r == req[c]
<1>1. /\ UNCHANGED <<nodes, merged_into, alias>>
      /\ \A d \in Callers : d # c => req'[d] = req[d]
      /\ r.step # "idle" /\ failures \in Nat /\ MaxFailures \in Nat
  <2>1. UNCHANGED <<nodes, merged_into, alias>> /\ r.step # "idle"
    BY DEF UpsertNodeAssertion, PutEdge, TornPutEdge, ReadNode, Fail, tables
  <2>2. \A d \in Callers : d # c => req'[d] = req[d]
    BY EndFields DEF Ends
  <2>3. QED BY <2>1, <2>2, CatalogAssumption DEF IInv, TypeOK
<1>2. r \in Requests /\ Shape(r) /\ Len(r.args) \in Nat /\ r.pos \in 1 .. Len(r.args)
      /\ r.args \in Seq(Aliases) /\ \A j \in 1 .. Len(r.args) : r.args[j] \in Aliases
  BY <1>1, Positions
<1>3. Reached'
  <2>1. CASE failures' = failures
    <3>1. r.step # "get_or_create_alias"
      BY <1>1, <2>1 DEF UpsertNodeAssertion, PutEdge, TornPutEdge, ReadNode, Fail
    <3>2. ASSUME NEW n, Awaited(n) PROVE Awaited(n)'
      <4>1. PICK d \in Callers : /\ req[d].step = "get_or_create_alias" /\ req[d].cur = n
                                 /\ alias[req[d].args[req[d].pos]] = NoId
        BY <3>2 DEF Awaited
      <4>2. req'[d] = req[d]
        BY <1>1, <3>1, <4>1
      <4>3. QED BY <1>1, <4>1, <4>2 DEF Awaited
    <3>3. QED BY <1>1, <2>1, <3>2 DEF Tidy, Reached, Live
  <2>2. CASE failures' # failures
    <3>1. failures' # 0
      BY <1>1, <2>2 DEF UpsertNodeAssertion, PutEdge, TornPutEdge, ReadNode, Fail, history
    <3>2. QED BY <3>1 DEF Reached
  <2>3. QED BY <2>1, <2>2
<1>4. CASE UpsertNodeAssertion(c)
  <2>1. /\ r.step = "upsert_node_assertion"
        /\ node_assertion' = NodeUpsert(r.cur, r.source, r.at)
        /\ acked' = acked \union {[bundle |-> r.args, id |-> r.cur]}
        /\ UNCHANGED edge
    BY <1>4 DEF UpsertNodeAssertion
  <2>2. Live(r.cur) /\ \A j \in 1 .. Len(r.args) : LeadsTo(r.args[j], r.cur)
    BY <2>1 DEF Progress
  <2>3. r.cur \in Ids /\ Root(merged_into, r.cur) = r.cur
    BY <1>2, <2>1, <2>2, ForestFacts, RootStep DEF Shape, Live
  <2>4. RowsOnLiveNodes'
    BY <1>1, <2>1, <2>2 DEF Tidy, RowsOnLiveNodes, Live, NodeUpsert
  <2>5. BundlesConverge'
    <3> SUFFICES ASSUME NEW k \in acked', NEW i \in DOMAIN k.bundle
                 PROVE  alias[k.bundle[i]] # NoId /\ Home(k.bundle[i]) = Root(merged_into, k.id)
      BY <1>1 DEF BundlesConverge, Home
    <3>1. CASE k \in acked
      BY <3>1 DEF Tidy, BundlesConverge
    <3>2. CASE k = [bundle |-> r.args, id |-> r.cur]
      <4>1. k.bundle = r.args /\ k.id = r.cur /\ i \in 1 .. Len(r.args)
        BY <1>2, <3>2
      <4>2. QED BY <2>2, <2>3, <4>1 DEF LeadsTo
    <3>3. QED BY <2>1, <3>1, <3>2
  <2>6. QED BY <1>3, <2>4, <2>5 DEF Tidy
<1>5. CASE PutEdge(c) \/ TornPutEdge(c)
  <2>1. /\ r.step = "put_edge" /\ edge' = edge \union {<<r.left, r.cur>>}
        /\ UNCHANGED <<node_assertion, acked>>
    BY <1>5 DEF PutEdge, TornPutEdge, history
  <2>2. Live(r.left) /\ Live(r.cur)
    BY <1>2, <2>1 DEF Progress, Shape
  <2>3. ASSUME NEW e \in edge' PROVE Live(e[1]) /\ Live(e[2])
    <3>1. CASE e \in edge
      BY <3>1 DEF Tidy, RowsOnLiveNodes
    <3>2. CASE e = <<r.left, r.cur>>
      BY <2>2, <3>2
    <3>3. QED BY <2>1, <3>1, <3>2
  <2>4. RowsOnLiveNodes'
    BY <1>1, <2>1, <2>3 DEF Tidy, RowsOnLiveNodes, Live
  <2>5. QED BY <1>1, <1>3, <2>1, <2>4 DEF Tidy, BundlesConverge, Home
<1>6. CASE ReadNode(c) \/ Fail(c)
  <2>1. UNCHANGED <<node_assertion, edge, acked>>
    BY <1>6 DEF ReadNode, Fail, tables, history
  <2>2. QED BY <1>1, <1>3, <2>1 DEF Tidy, RowsOnLiveNodes, BundlesConverge, Live, Home
<1>7. QED BY <1>4, <1>5, <1>6

(* A delete of a live node takes along all that leads to it, and nothing   *)
(* that leads elsewhere.                                                   *)
LEMMA TidyDelete ==
  ASSUME IInv, Tidy, NEW c \in Callers, DeleteNetwork(c), Progress(req[c]),
         \A d \in Callers : d # c => req[d].step = "idle"
  PROVE  Tidy'
<1> DEFINE n == req[c].cur
           net == NetworkOf(merged_into, nodes, n)
           gone == {a \in Aliases : alias[a] \in net}
<1>1. req[c].step = "delete_network" /\ Live(n) /\ n \in Ids
  BY DEF DeleteNetwork, Progress, Live, IInv, TypeOK
<1>2. /\ nodes' = nodes \ net
      /\ merged_into' = [x \in Ids |-> IF x \in net THEN NoId ELSE merged_into[x]]
      /\ alias' = [a \in Aliases |-> IF a \in gone THEN NoId ELSE alias[a]]
      /\ node_assertion' = {r \in node_assertion : r.node \notin net}
      /\ edge' = {e \in edge : e[1] \notin net /\ e[2] \notin net}
      /\ acked' = {k \in acked : \A i \in DOMAIN k.bundle : k.bundle[i] \notin gone}
      /\ UNCHANGED failures
  BY DEF DeleteNetwork
<1>3. /\ \A x \in nodes : Root(merged_into, x) = n => x \in net
      /\ \A x \in Ids : Root(merged_into, x) # n => Root(merged_into', x) = Root(merged_into, x)
      /\ net \subseteq nodes
  <2>1. merged_into \in Redirection /\ Decreasing(merged_into) /\ nodes \in SUBSET Ids /\ n \in nodes
    BY <1>1, ForestFacts DEF IInv, TypeOK, Live
  <2>2. \A x \in Ids : Root(merged_into, x) # n =>
          Root([y \in Ids |-> IF y \in net THEN NoId ELSE merged_into[y]], x) = Root(merged_into, x)
    BY <1>1, <2>1, NetworkRoots DEF Live
  <2>3. (\A x \in nodes : Root(merged_into, x) = n => x \in net) /\ net \subseteq nodes
    BY <1>1, <2>1, NetworkRoots DEF Live
  <2> HIDE DEF n, net
  <2>4. QED BY <1>2, <2>2, <2>3
<1> HIDE DEF net, n
<1>4. \A x \in Ids : x \notin net /\ Live(x) => x \in nodes' /\ merged_into'[x] = NoId
  BY <1>2 DEF Live
<1>5. RowsOnLiveNodes'
  <2>1. ASSUME NEW a \in Aliases, alias'[a] # NoId PROVE LiveNext(alias'[a])
    <3>1. alias'[a] = alias[a] /\ alias[a] \notin net /\ alias[a] # NoId
      BY <1>2, <2>1
    <3>2. alias[a] \in Ids /\ Live(alias[a])
      BY <3>1, ForestFacts DEF Tidy, RowsOnLiveNodes
    <3>3. QED BY <1>4, <3>1, <3>2 DEF LiveNext
  <2>2. ASSUME NEW r \in node_assertion' PROVE LiveNext(r.node)
    BY <1>2, <1>4 DEF Tidy, RowsOnLiveNodes, LiveNext, IInv, TypeOK, NodeRows
  <2>3. ASSUME NEW e \in edge' PROVE LiveNext(e[1]) /\ LiveNext(e[2])
    BY <1>2, <1>4 DEF Tidy, RowsOnLiveNodes, LiveNext, IInv, TypeOK
  <2>4. QED BY <2>1, <2>2, <2>3 DEF RowsOnLiveNodes, Live, LiveNext
<1>6. BundlesConverge'
  <2> SUFFICES ASSUME NEW k \in acked', NEW i \in DOMAIN k.bundle
               PROVE  /\ alias'[k.bundle[i]] # NoId
                      /\ Root(merged_into', alias'[k.bundle[i]]) = Root(merged_into', k.id)
    BY DEF BundlesConverge, Home
  <2>1. k \in acked /\ k.bundle[i] \notin gone
    BY <1>2
  <2>2. k.bundle[i] \in Aliases /\ k.id \in Ids
    BY <2>1, AckedFields
  <2>3. /\ alias[k.bundle[i]] # NoId /\ Home(k.bundle[i]) = Root(merged_into, k.id)
        /\ Live(alias[k.bundle[i]])
    BY <2>1, <2>2 DEF Tidy, BundlesConverge, RowsOnLiveNodes
  <2>4. alias'[k.bundle[i]] = alias[k.bundle[i]] /\ alias[k.bundle[i]] \notin net
    BY <1>2, <2>1, <2>2
  <2>5. alias[k.bundle[i]] \in nodes /\ alias[k.bundle[i]] \in Ids
    BY <2>2, <2>3, ForestFacts DEF Live
  <2>6. Home(k.bundle[i]) # n
    BY <1>3, <2>4, <2>5 DEF Home
  <2>7. QED BY <1>3, <2>2, <2>3, <2>4, <2>5, <2>6 DEF Home
<1>7. Reached'
  <2> SUFFICES ASSUME failures = 0, NEW x \in nodes', merged_into'[x] = NoId
               PROVE  \E a \in Aliases : alias'[a] = x
    BY <1>2 DEF Reached, Live
  <2>1. x \in nodes /\ x \notin net /\ x \in Ids /\ x # NoId
    BY <1>2, IdsAssumption DEF IInv, TypeOK
  <2>2. Live(x) /\ ~Awaited(x)
    BY <1>1, <1>2, <2>1 DEF Live, Awaited
  <2>3. PICK a \in Aliases : alias[a] = x
    BY <2>1, <2>2 DEF Tidy, Reached
  <2>4. alias'[a] = x
    BY <1>2, <2>1, <2>3
  <2>5. QED BY <2>4
<1>8. QED BY <1>5, <1>6, <1>7 DEF Tidy

LEMMA TidyInitial == Init => Tidy
BY DEF Init, Tidy, RowsOnLiveNodes, BundlesConverge, Reached

LEMMA TidyStep ==
  ASSUME IInv, SInv, Alone, SoloProgress, TidyInv, [Next]_vars
  PROVE  TidyInv'
<1> SUFFICES ASSUME ~raced' PROVE Tidy'
  BY DEF TidyInv
<1>1. ~raced /\ Tidy
  BY RacedStays DEF TidyInv
<1>2. CASE UNCHANGED vars
  BY <1>1, <1>2 DEF vars, Tidy, RowsOnLiveNodes, BundlesConverge, Reached, Awaited, Live, Home
<1>3. ASSUME NEW c \in Callers,
             CallPutWork(c) \/ CallPutEdges(c) \/ CallGetWork(c) \/ CallDeleteWork(c)
      PROVE  Tidy'
  <2>1. /\ req[c].step = "idle" /\ \A d \in Callers : d # c => req'[d] = req[d]
        /\ UNCHANGED <<nodes, merged_into, alias, node_assertion, edge, acked, failures>>
    BY <1>3, CallFields DEF tables
  <2>2. /\ \A x \in Ids : Live(x)' <=> Live(x)
        /\ \A x \in Ids : Root(merged_into', x) = Root(merged_into, x)
    BY <2>1 DEF Live
  <2>3. QED BY <1>1, <2>1, <2>2, TidySame
<1>4. ASSUME NEW c \in Callers,
             \/ GetAlias(c) \/ ResolveLive(c) \/ CreateNode(c) \/ Merge(c) \/ AttachAlias(c) \/ Ends(c)
      PROVE  Tidy'
  <2>1. req[c].step # "idle" /\ \A d \in Callers : d # c => req'[d] = req[d]
    BY <1>4, OpKept
  <2>2. c \in solo /\ Progress(req[c]) /\ \A d \in Callers : d # c => req[d].step = "idle"
    BY <1>1, <2>1 DEF Alone, SoloProgress
  <2>3. CASE GetAlias(c)
    <3>1. /\ req[c].step = "get_alias"
          /\ UNCHANGED <<nodes, merged_into, alias, node_assertion, edge, acked, failures>>
      BY <2>3 DEF GetAlias, tables, history
    <3>2. /\ \A x \in Ids : Live(x)' <=> Live(x)
          /\ \A x \in Ids : Root(merged_into', x) = Root(merged_into, x)
      BY <3>1 DEF Live
    <3>3. QED BY <1>1, <2>1, <3>1, <3>2, TidySame
  <2>4. CASE ResolveLive(c)
    <3>1. /\ req[c].step = "resolve_live" /\ req[c].cur \in Ids
          /\ UNCHANGED <<nodes, alias, node_assertion, edge, acked, failures>>
          /\ \/ merged_into' = Compressed(merged_into, req[c].cur)
             \/ UNCHANGED merged_into
      BY <2>4, ResolveLiveFields DEF history
    <3>2. /\ \A x \in Ids : Live(x)' <=> Live(x)
          /\ \A x \in Ids : Root(merged_into', x) = Root(merged_into, x)
      <4>1. CASE merged_into' = Compressed(merged_into, req[c].cur)
        BY <3>1, <4>1, CompressionKeeps
      <4>2. CASE UNCHANGED merged_into
        BY <3>1, <4>2 DEF Live
      <4>3. QED BY <3>1, <4>1, <4>2
    <3>3. QED BY <1>1, <2>1, <3>1, <3>2, TidySame
  <2>5. CASE CreateNode(c)
    BY <1>1, <2>2, <2>5, TidyCreateNode
  <2>6. CASE Merge(c)
    BY <1>1, <2>2, <2>6, TidyMerge
  <2>7. CASE AttachAlias(c)
    BY <1>1, <2>2, <2>7, TidyAttachAlias
  <2>8. CASE DeleteNetwork(c)
    BY <1>1, <2>2, <2>8, TidyDelete
  <2>9. CASE Ends(c) /\ ~DeleteNetwork(c)
    BY <1>1, <2>2, <2>9, TidyWrite DEF Ends
  <2>10. QED BY <1>4, <2>3, <2>4, <2>5, <2>6, <2>7, <2>8, <2>9
<1>5. QED BY <1>2, <1>3, <1>4, StepCases

(* As long as requests come one at a time, whatever their kinds and        *)
(* wherever any of them is cut short, acknowledged bundles have one live   *)
(* node each, every row is on a live node, and, if none was cut short, no  *)
(* live node is out of reach.                                              *)
THEOREM SerialConverges == Spec => []SerialBundlesConverge
<1>1. Init => TidyInv
  BY TidyInitial DEF TidyInv
<1>2. IInv /\ SInv /\ Alone /\ SoloProgress /\ TidyInv /\ [Next]_vars => TidyInv'
  BY TidyStep
<1>3. TidyInv => SerialBundlesConverge
  BY DEF TidyInv, Tidy, SerialBundlesConverge, Reached, NoOrphans, Awaited
<1>4. QED BY <1>1, <1>2, <1>3, SoloInvariant, PTL DEF Spec
==============================================================================
