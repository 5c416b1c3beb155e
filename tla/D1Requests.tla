----------------------------- MODULE D1Requests -----------------------------
(***************************************************************************)
(* The D1 backend under the worker: every query and every batch is a round *)
(* trip of its own, so a walk along redirects, the search for a redirect   *)
(* network and a delete are several steps, and other requests run between  *)
(* them.  A batch is atomic, and D1 enforces the REFERENCES of             *)
(* 0002_graph.sql; artifacts refer to no node.  The coordinator of the     *)
(* worker takes no lock.                                                   *)
(*                                                                         *)
(* Requests are on works that exist from the start; put_work's other cases *)
(* and its assertions are in Catalog, edges in SqlStore.                   *)
(***************************************************************************)
EXTENDS Redirects

CONSTANTS
  Works,      (* the works there are, which name their aliases too         *)
  Clients,    (* the requests in flight at a time                          *)
  MaxRequests (* bound: requests in a behaviour                            *)

VARIABLES
  node,       (* canonical_id -> merged_into                               *)
  alias,      (* alias -> canonical_id                                     *)
  artifact,   (* rows [node, version, key]                                 *)
  bytes,      (* the keys of the blob store                                *)
  client,     (* the locals of each request                                *)
  requests,   (* counter of the bound                                      *)
  torn        (* history: a merge moved rows that others have in hand      *)

d1Vars == <<node, alias, artifact, bytes, client, requests, torn>>

Dropped(f, K) == [x \in DOMAIN f \ K |-> f[x]]
Versions == Nat \ {0}
Keys == Ids \X Versions

Free == [op |-> "none", step |-> "free", todo |-> {}, found |-> {}, cur |-> NoId,
         walked |-> {}, net |-> {}, frontier |-> {}, version |-> 0, keys |-> {}]

At(c, step) == client[c].step = step
Becomes(c, r) == client' = [client EXCEPT ![c] = r]
Answer(c) == Becomes(c, Free)

(* What a use case does with the live id n of the alias it asked for. *)
Resolved(r, n) ==
  CASE r.op = "put_work" /\ r.todo # {} ->
         [r EXCEPT !.step = "get_alias", !.found = @ \union {n}, !.walked = {}]
    [] r.op = "put_work" /\ r.todo = {} ->
         LET G == r.found \union {n}
         IN IF Cardinality(G) = 1 THEN Free ELSE [r EXCEPT !.step = "merge", !.found = G]
    [] r.op = "put_content" -> [r EXCEPT !.step = "next_version", !.cur = n]
    [] r.op = "delete_work" ->
         [r EXCEPT !.step = "network", !.cur = n, !.net = {n}, !.frontier = {n}]
    [] r.op = "get_work" -> Free
------------------------------------------------------------------------------
Request(c) ==
  /\ At(c, "free") /\ requests < MaxRequests /\ requests' = requests + 1
  /\ \E op \in {"put_work", "put_content", "delete_work", "get_work"}, A \in SUBSET Works :
       /\ Cardinality(A) = IF op = "put_work" THEN 2 ELSE 1
       /\ Becomes(c, [Free EXCEPT !.op = op, !.step = "get_alias", !.todo = A])
  /\ UNCHANGED <<node, alias, artifact, bytes, torn>>

GetAlias(c) ==
  /\ At(c, "get_alias")
  /\ \E a \in client[c].todo :
       LET r == [client[c] EXCEPT !.todo = @ \ {a}] IN
       IF a \in DOMAIN alias THEN Becomes(c, [r EXCEPT !.step = "hop", !.cur = alias[a]])
       ELSE Answer(c)
  /\ UNCHANGED <<node, alias, artifact, bytes, requests, torn>>

(* One SELECT_MERGED_INTO; a row that is gone by now is NotFound. *)
Hop(c) ==
  LET r == client[c] IN
  /\ At(c, "hop")
  /\ \/ r.cur \notin DOMAIN node /\ Answer(c)
     \/ /\ r.cur \in DOMAIN node /\ node[r.cur] # NoId
        /\ Becomes(c, [r EXCEPT !.walked = @ \union {r.cur}, !.cur = node[r.cur]])
     \/ /\ r.cur \in DOMAIN node /\ node[r.cur] = NoId
        /\ Becomes(c, IF r.walked = {} THEN Resolved(r, r.cur) ELSE [r EXCEPT !.step = "compress"])
  /\ UNCHANGED <<node, alias, artifact, bytes, requests, torn>>

(* A batch that leaves a redirect or an alias to a missing row fails. *)
Refused(m, al) ==
  \/ \E n \in DOMAIN m : m[n] # NoId /\ m[n] \notin DOMAIN m
  \/ \E a \in DOMAIN al : al[a] \notin DOMAIN m

(* MERGE_REDIRECT for each of S. *)
Pointed(S, n) == [x \in DOMAIN node |-> IF x \in S THEN n ELSE node[x]]

(* Mutant: the redirects that were walked are cleared. *)
CompressAway(c) ==
  LET r == client[c] IN
  /\ At(c, "compress")
  /\ node' = [x \in DOMAIN node |-> IF x \in r.walked THEN NoId ELSE node[x]]
  /\ Becomes(c, Resolved(r, r.cur))
  /\ UNCHANGED <<alias, artifact, bytes, requests, torn>>

(* The batch of MERGE_REDIRECTs, to the id that was live when it was read. *)
Compress(c) ==
  LET r == client[c]
      m == Pointed(r.walked, r.cur)
  IN /\ At(c, "compress")
     /\ IF Refused(m, alias) THEN Answer(c) /\ UNCHANGED node
        ELSE node' = m /\ Becomes(c, Resolved(r, r.cur))
     /\ UNCHANGED <<alias, artifact, bytes, requests, torn>>

(* Mutant: the survivor is the greatest guid. *)
SurvivorLast(G) == Greatest(G)

Survivor(G) == Least(G)

(* d uploads to n: it found n live, and has not recorded its row yet. *)
Uploads(d, n) ==
  /\ client[d].op = "put_content" /\ client[d].cur = n
  /\ client[d].step \in {"compress", "next_version", "blob_put", "record"}

(* A merge of l moves rows whose keys a delete has read, or that an upload *)
(* in flight is about to number again, or that stayed of a work deleted    *)
(* since it was resolved.                                                  *)
InHand(l) ==
  \/ l \notin DOMAIN node
  \/ \E d \in Clients : client[d].step \in {"delete", "blob_delete"} \/ Uploads(d, l)

(* put_work's merge of the two ids it resolved some round trips ago. *)
MergeResolved(c) ==
  LET s == Survivor(client[c].found)
      l == CHOOSE n \in client[c].found : n # s
      m == Pointed({l}, s)
      al == [a \in DOMAIN alias |-> IF alias[a] = l THEN s ELSE alias[a]]
      taken(q) == \E p \in artifact : p.node = s /\ p.version = q.version
  IN /\ At(c, "merge")
     /\ IF Refused(m, al) THEN UNCHANGED <<node, alias, artifact, torn>>
        ELSE /\ node' = m /\ alias' = al
             /\ artifact' = {q \in artifact : q.node # l} \union
                  {[q EXCEPT !.node = s] : q \in {p \in artifact : p.node = l /\ ~taken(p)}}
             /\ torn' = (torn \/ InHand(l))
     /\ Answer(c)
     /\ UNCHANGED <<bytes, requests>>
------------------------------------------------------------------------------
(* Mutant: the version there is already. *)
ReadVersionLast(c) ==
  LET V == {q.version : q \in {p \in artifact : p.node = client[c].cur}} IN
  /\ At(c, "next_version")
  /\ Becomes(c, [client[c] EXCEPT !.step = "blob_put",
                 !.version = IF V = {} THEN 0 ELSE Greatest(V)])
  /\ UNCHANGED <<node, alias, artifact, bytes, requests, torn>>

(* put_content; a newer version of the row is one more upload. *)
ReadVersion(c) ==
  LET V == {q.version : q \in {p \in artifact : p.node = client[c].cur}} IN
  /\ At(c, "next_version")
  /\ Becomes(c, [client[c] EXCEPT !.step = "blob_put",
                 !.version = 1 + IF V = {} THEN 0 ELSE Greatest(V)])
  /\ UNCHANGED <<node, alias, artifact, bytes, requests, torn>>

Key(r) == <<r.cur, r.version>>

(* Mutant: the bytes are never put. *)
BlobPutNever(c) ==
  /\ At(c, "blob_put")
  /\ Becomes(c, [client[c] EXCEPT !.step = "record"])
  /\ UNCHANGED <<node, alias, artifact, bytes, requests, torn>>

BlobPut(c) ==
  /\ At(c, "blob_put")
  /\ bytes' = bytes \union {Key(client[c])}
  /\ Becomes(c, [client[c] EXCEPT !.step = "record"])
  /\ UNCHANGED <<node, alias, artifact, requests, torn>>

(* The batch of record: it refers to no node, and fails on a taken version. *)
RecordUpload(c) ==
  LET r == client[c]
      row == [node |-> r.cur, version |-> r.version, key |-> Key(r)]
  IN /\ At(c, "record")
     /\ artifact' = IF \E q \in artifact : q.node = row.node /\ q.version = row.version
                    THEN artifact ELSE artifact \union {row}
     /\ Answer(c)
     /\ UNCHANGED <<node, alias, bytes, requests, torn>>
------------------------------------------------------------------------------
(* One round of network_ids_d1: the redirects into the last round's ids. *)
Network(c) ==
  LET r == client[c]
      more == {n \in DOMAIN node : node[n] \in r.frontier} \ r.net
  IN /\ At(c, "network")
     /\ Becomes(c, IF more = {} THEN [r EXCEPT !.step = "select_keys", !.frontier = {}]
                 ELSE [r EXCEPT !.net = @ \union more, !.frontier = more])
     /\ UNCHANGED <<node, alias, artifact, bytes, requests, torn>>

SelectKeys(c) ==
  /\ At(c, "select_keys")
  /\ Becomes(c, [client[c] EXCEPT !.step = "delete",
                 !.keys = {q.key : q \in {p \in artifact : p.node \in client[c].net}}])
  /\ UNCHANGED <<node, alias, artifact, bytes, requests, torn>>

(* Mutant: an engine that does not look at REFERENCES. *)
DeleteUnchecked(c) ==
  LET r == client[c] IN
  /\ At(c, "delete")
  /\ node' = Dropped(node, r.net)
  /\ alias' = Dropped(alias, {a \in DOMAIN alias : alias[a] \in r.net})
  /\ artifact' = {q \in artifact : q.node \notin r.net}
  /\ Becomes(c, [r EXCEPT !.step = "blob_delete"])
  /\ UNCHANGED <<bytes, requests, torn>>

(* The batch of deletes, over the network and keys of earlier round trips. *)
Delete(c) ==
  LET r == client[c]
      m == Dropped(node, r.net)
      al == Dropped(alias, {a \in DOMAIN alias : alias[a] \in r.net})
  IN /\ At(c, "delete")
     /\ IF Refused(m, al) THEN Answer(c) /\ UNCHANGED <<node, alias, artifact>>
        ELSE /\ node' = m /\ alias' = al
             /\ artifact' = {q \in artifact : q.node \notin r.net}
             /\ Becomes(c, [r EXCEPT !.step = "blob_delete"])
     /\ UNCHANGED <<bytes, requests, torn>>

(* The blobs, in one step: nothing else is done until the last is gone. *)
BlobDelete(c) ==
  /\ At(c, "blob_delete")
  /\ bytes' = bytes \ client[c].keys
  /\ Answer(c)
  /\ UNCHANGED <<node, alias, artifact, requests, torn>>

(* Every request of the bound has been answered. *)
Quiet ==
  /\ requests = MaxRequests /\ \A c \in Clients : At(c, "free")
  /\ UNCHANGED d1Vars
------------------------------------------------------------------------------
D1Init ==
  /\ node = [n \in Works |-> NoId] /\ alias = [a \in Works |-> a]
  /\ artifact = {} /\ bytes = {}
  /\ client = [c \in Clients |-> Free] /\ requests = 0 /\ torn = FALSE

D1Next ==
  \/ \E c \in Clients :
       \/ Request(c) \/ GetAlias(c) \/ Hop(c) \/ Compress(c) \/ MergeResolved(c)
       \/ ReadVersion(c) \/ BlobPut(c) \/ RecordUpload(c)
       \/ Network(c) \/ SelectKeys(c) \/ Delete(c) \/ BlobDelete(c)
  \/ Quiet

D1Spec == D1Init /\ [][D1Next]_d1Vars
------------------------------------------------------------------------------
Locals ==
  [op : {"none", "put_work", "put_content", "delete_work", "get_work"},
   step : {"free", "get_alias", "hop", "compress", "merge", "next_version", "blob_put", "record",
           "network", "select_keys", "delete", "blob_delete"},
   todo : SUBSET Works, found : SUBSET Ids, cur : Ids \union {NoId}, walked : SUBSET Ids,
   net : SUBSET Ids, frontier : SUBSET Ids, version : Nat, keys : SUBSET Keys]

D1TypeOK ==
  /\ DOMAIN node \subseteq Ids /\ \A n \in DOMAIN node : node[n] \in Ids \union {NoId}
  /\ DOMAIN alias \subseteq Works /\ \A a \in DOMAIN alias : alias[a] \in Ids
  /\ artifact \subseteq [node : Ids, version : Versions, key : Keys]
  /\ bytes \subseteq Keys /\ requests \in 0 .. MaxRequests /\ torn \in BOOLEAN
  /\ client \in [Clients -> Locals]

(* Compressions with an id that was live some round trips ago, and merges  *)
(* of ids resolved before other merges, never close a cycle.               *)
RedirectsDecrease == \A n \in DOMAIN node : node[n] # NoId => node[n] < n

(* A delete whose search for redirects was overtaken by a merge or by a    *)
(* compression takes the whole network or nothing: no redirect or alias is *)
(* left that leads nowhere.                                                *)
DeletesAreWhole ==
  /\ \A n \in DOMAIN node : node[n] # NoId => node[n] \in DOMAIN node
  /\ \A a \in DOMAIN alias : alias[a] \in DOMAIN node

(* No stale compression or merge takes a redirect away: what it rewrites   *)
(* still forwards.                                                         *)
RedirectsForward ==
  \A n \in DOMAIN node \intersect DOMAIN node' : node[n] # NoId => node'[n] # NoId
D1RedirectsStay == [][RedirectsForward]_d1Vars

(* A row of a work that is there has its bytes, whatever uploads, deletes  *)
(* and merges ran beside each other, unless a merge moved rows that others *)
(* had in hand.                                                            *)
ReachableRowsHaveBytes ==
  ~torn => \A q \in artifact : q.node \in DOMAIN node => q.key \in bytes

D1TablesWhole == RedirectsDecrease /\ DeletesAreWhole /\ ReachableRowsHaveBytes
==============================================================================
