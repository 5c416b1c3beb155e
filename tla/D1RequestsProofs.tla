--------------------------- MODULE D1RequestsProofs ---------------------------
(***************************************************************************)
(* Theorems about requests that interleave on D1, round trip by round      *)
(* trip, for any number of clients, works and requests: types, no cycles,  *)
(* deletes of whole networks, redirects that stay, rows with their bytes.  *)
(***************************************************************************)
EXTENDS D1Requests, RedirectsProofs, FiniteSetTheorems

(* What a request relies on at each step: it has an id to go on with, the  *)
(* ids it walked forwarded downwards, and a merge has two ids.             *)
Shape(r) ==
  /\ r.step # "free" => r.op # "none"
  /\ r.step \in {"next_version", "blob_put", "record"} => r.op = "put_content"
  /\ r.step \notin {"free", "get_alias", "merge"} => r.cur \in Ids
  /\ r.step = "get_alias" => r.walked = {}
  /\ r.step \in {"hop", "compress"} => \A x \in r.walked : r.cur < x
  /\ r.step = "merge" => \E m, n \in r.found : m # n
  /\ r.step \in {"blob_put", "record"} => r.version \in Versions

(* Versions are finitely many, so there is a greatest. *)
Bounded == \E u \in Nat : \A q \in artifact : q.version <= u

IInv ==
  /\ D1TypeOK /\ \A c \in Clients : Shape(client[c])
  /\ Bounded /\ RedirectsDecrease /\ DeletesAreWhole

(* No upload to n is in flight, and none will be. *)
Past(n) == (n \in DOMAIN node => node[n] # NoId) /\ \A d \in Clients : ~Uploads(d, n)

(* A row has a key of its own, made when it was recorded; a row that was   *)
(* moved since was moved away from a work that takes no upload any more.   *)
KeysKept ==
  /\ \A q \in artifact : q.version = q.key[2] /\ (q.node # q.key[1] => Past(q.key[1]))
  /\ \A p, q \in artifact : p.key = q.key => p = q

(* The keys that the delete d has read are of its network, and no row      *)
(* outside of it has one or will.                                          *)
KeysRead(d) ==
  client[d].step \in {"delete", "blob_delete"} =>
    /\ \A q \in artifact : q.node \in DOMAIN node /\ q.key \in client[d].keys
                             => q.node \in client[d].net
    /\ \A k \in client[d].keys : k[1] \in client[d].net \/ Past(k[1])
    /\ client[d].step = "blob_delete" => client[d].net \intersect DOMAIN node = {}

(* A row about to be recorded has its bytes, if its work is there. *)
BytesPut(d) ==
  client[d].step = "record" /\ client[d].cur \in DOMAIN node => Key(client[d]) \in bytes

BytesInv ==
  ~torn => /\ KeysKept /\ ReachableRowsHaveBytes
           /\ \A d \in Clients : KeysRead(d) /\ BytesPut(d)
------------------------------------------------------------------------------
(* The locals of a request.                                                *)

LEMMA LocalsFields ==
  ASSUME NEW r \in Locals
  PROVE  /\ r.found \in SUBSET Ids /\ r.walked \in SUBSET Ids /\ r.net \in SUBSET Ids
         /\ r.cur \in Ids \union {NoId} /\ r.version \in Nat /\ r.keys \in SUBSET Keys
         /\ r.todo \in SUBSET Works /\ r.frontier \in SUBSET Ids
BY DEF Locals

LEMMA FreeRequest == Free \in Locals /\ Shape(Free)
BY DEF Free, Locals, Shape

LEMMA ClientUpdate ==
  ASSUME NEW r \in Locals, Shape(r), NEW c \in Clients,
         client \in [Clients -> Locals], \A d \in Clients : Shape(client[d]), Becomes(c, r)
  PROVE  client' \in [Clients -> Locals] /\ \A d \in Clients : Shape(client'[d])
<1>1. client' \in [Clients -> Locals]
  BY DEF Becomes
<1>2. ASSUME NEW d \in Clients PROVE Shape(client'[d])
  <2>1. client'[d] = IF d = c THEN r ELSE client[d]
    BY DEF Becomes
  <2>2. QED BY <2>1
<1>3. QED BY <1>1, <1>2

LEMMA AnswerStep ==
  ASSUME IInv, NEW c \in Clients, Answer(c)
  PROVE  client' \in [Clients -> Locals] /\ \A d \in Clients : Shape(client'[d])
BY FreeRequest, ClientUpdate DEF IInv, D1TypeOK, Answer

(* Two ids, if what was resolved is not one. *)
LEMMA TwoFound ==
  ASSUME NEW G \in SUBSET Ids, NEW n \in G, Cardinality(G) # 1
  PROVE  \E p, q \in G : p # q
<1>1. CASE G = {n}
  BY <1>1, FS_Singleton
<1>2. CASE G # {n}
  BY <1>2
<1>3. QED BY <1>1, <1>2

(* What a use case goes on with is well formed, and starts no upload to an *)
(* id other than the live one it was given.                                *)
LEMMA ResolvedRequest ==
  ASSUME NEW r \in Locals, r.op \in {"put_work", "put_content", "delete_work", "get_work"},
         NEW n \in Ids
  PROVE  /\ Resolved(r, n) \in Locals /\ Shape(Resolved(r, n))
         /\ Resolved(r, n).step \in {"free", "get_alias", "merge", "next_version", "network"}
         /\ Resolved(r, n).step = "next_version" => Resolved(r, n).cur = n /\ r.op = "put_content"
<1>1. CASE r.op = "put_work" /\ r.todo # {}
  <2> DEFINE q == [r EXCEPT !.step = "get_alias", !.found = @ \union {n}, !.walked = {}]
  <2>1. Resolved(r, n) = q
    BY <1>1 DEF Resolved
  <2>2. q \in Locals /\ q.step = "get_alias" /\ q.op = r.op /\ q.walked = {}
    BY DEF Locals
  <2> HIDE DEF q
  <2>3. Shape(q)
    BY <1>1, <2>2 DEF Shape
  <2>4. QED BY <2>1, <2>2, <2>3
<1>2. CASE r.op = "put_work" /\ r.todo = {}
  <2> DEFINE G == r.found \union {n}
             q == [r EXCEPT !.step = "merge", !.found = G]
  <2>1. Resolved(r, n) = IF Cardinality(G) = 1 THEN Free ELSE q
    BY <1>2 DEF Resolved
  <2>2. G \in SUBSET Ids /\ n \in G
    BY LocalsFields
  <2>3. q \in Locals /\ q.step = "merge" /\ q.op = r.op /\ q.found = G
    BY <2>2 DEF Locals
  <2> HIDE DEF q, G
  <2>4. ASSUME Cardinality(G) # 1 PROVE Shape(q)
    BY <1>2, <2>2, <2>3, <2>4, TwoFound DEF Shape
  <2>5. Free.step = "free"
    BY DEF Free
  <2>6. QED BY <2>1, <2>3, <2>4, <2>5, FreeRequest
<1>3. CASE r.op = "put_content"
  <2> DEFINE q == [r EXCEPT !.step = "next_version", !.cur = n]
  <2>1. Resolved(r, n) = q
    BY <1>3 DEF Resolved
  <2>2. q \in Locals /\ q.step = "next_version" /\ q.op = r.op /\ q.cur = n
    BY DEF Locals
  <2> HIDE DEF q
  <2>3. Shape(q)
    BY <1>3, <2>2 DEF Shape
  <2>4. QED BY <1>3, <2>1, <2>2, <2>3
<1>4. CASE r.op = "delete_work"
  <2> DEFINE q == [r EXCEPT !.step = "network", !.cur = n, !.net = {n}, !.frontier = {n}]
  <2>1. Resolved(r, n) = q
    BY <1>4 DEF Resolved
  <2>2. q \in Locals /\ q.step = "network" /\ q.op = r.op /\ q.cur = n
    BY DEF Locals
  <2> HIDE DEF q
  <2>3. Shape(q)
    BY <1>4, <2>2 DEF Shape
  <2>4. QED BY <2>1, <2>2, <2>3
<1>5. CASE r.op = "get_work"
  <2>1. Resolved(r, n) = Free /\ Free.step = "free"
    BY <1>5 DEF Resolved, Free
  <2>2. QED BY <2>1, FreeRequest
<1>6. QED BY <1>1, <1>2, <1>3, <1>4, <1>5

(* A nonempty set of versions with a bound has a greatest. *)
LEMMA GreatestProperty ==
  ASSUME NEW S \in SUBSET Nat, NEW x \in S, NEW u \in Nat, \A y \in S : y <= u
  PROVE  Greatest(S) \in S /\ \A y \in S : y <= Greatest(S)
<1> DEFINE U == {v \in Nat : \A y \in S : y <= v}
           m == Least(U)
<1>1. m \in U /\ \A v \in U : m <= v
  <2>1. U \in SUBSET Nat /\ U # {}
    OBVIOUS
  <2> HIDE DEF U
  <2>2. QED BY <2>1, LeastProperty
<1>2. m \in Nat /\ \A y \in S : y <= m
  BY <1>1
<1> HIDE DEF m
<1>3. m \in S
  <2> SUFFICES ASSUME m \notin S PROVE FALSE
    OBVIOUS
  <2>1. x \in Nat /\ x < m
    BY <1>2
  <2>2. m - 1 \in Nat
    BY <1>2, <2>1
  <2>3. \A y \in S : y <= m - 1
    <3>1. \A y \in Nat : y <= m /\ y # m => y <= m - 1
      BY <1>2
    <3>2. QED BY <1>2, <3>1
  <2>4. m <= m - 1
    BY <1>1, <2>2, <2>3
  <2>5. QED BY <1>2, <2>4
<1>4. \E y \in S : \A z \in S : z <= y
  BY <1>2, <1>3
<1>5. QED BY <1>4 DEF Greatest
------------------------------------------------------------------------------
(* One lemma per action: from IInv it leads to a state of IInv.            *)

(* Only the locals change. *)
LEMMA TablesSame ==
  ASSUME IInv, UNCHANGED <<node, alias, artifact, torn>>, bytes' \subseteq Keys,
         requests' \in 0 .. MaxRequests,
         client' \in [Clients -> Locals], \A d \in Clients : Shape(client'[d])
  PROVE  IInv'
BY DEF IInv, D1TypeOK, Bounded, RedirectsDecrease, DeletesAreWhole

LEMMA RequestStep ==
  ASSUME IInv, MaxRequests \in Nat, NEW c \in Clients, Request(c)
  PROVE  IInv'
<1>1. PICK op \in {"put_work", "put_content", "delete_work", "get_work"}, A \in SUBSET Works :
        Becomes(c, [Free EXCEPT !.op = op, !.step = "get_alias", !.todo = A])
  BY DEF Request
<1> DEFINE q == [Free EXCEPT !.op = op, !.step = "get_alias", !.todo = A]
<1>2. q \in Locals /\ q.step = "get_alias" /\ q.op = op /\ q.walked = {}
  BY DEF Free, Locals
<1>3. Becomes(c, q)
  BY <1>1
<1> HIDE DEF q
<1>4. Shape(q)
  BY <1>2 DEF Shape
<1>5. client' \in [Clients -> Locals] /\ \A d \in Clients : Shape(client'[d])
  BY <1>2, <1>3, <1>4, ClientUpdate DEF IInv, D1TypeOK
<1>6. requests' \in 0 .. MaxRequests
  BY DEF Request, IInv, D1TypeOK
<1>7. QED BY <1>5, <1>6, TablesSame DEF Request, IInv, D1TypeOK

LEMMA GetAliasStep ==
  ASSUME IInv, NEW c \in Clients, GetAlias(c)
  PROVE  IInv'
<1>1. PICK a \in client[c].todo :
        IF a \in DOMAIN alias
        THEN Becomes(c, [client[c] EXCEPT !.todo = @ \ {a}, !.step = "hop", !.cur = alias[a]])
        ELSE Answer(c)
  <2>1. PICK a \in client[c].todo :
          LET r == [client[c] EXCEPT !.todo = @ \ {a}] IN
          IF a \in DOMAIN alias THEN Becomes(c, [r EXCEPT !.step = "hop", !.cur = alias[a]])
          ELSE Answer(c)
    BY DEF GetAlias
  <2>2. [[client[c] EXCEPT !.todo = @ \ {a}] EXCEPT !.step = "hop", !.cur = alias[a]]
          = [client[c] EXCEPT !.todo = @ \ {a}, !.step = "hop", !.cur = alias[a]]
    BY DEF IInv, D1TypeOK, Locals
  <2>3. QED BY <2>1, <2>2
<1>2. client[c] \in Locals /\ Shape(client[c]) /\ client[c].step = "get_alias"
  BY DEF IInv, D1TypeOK, GetAlias, At
<1>3. CASE a \in DOMAIN alias
  <2> DEFINE q == [client[c] EXCEPT !.todo = @ \ {a}, !.step = "hop", !.cur = alias[a]]
  <2>1. alias[a] \in Ids
    BY <1>3 DEF IInv, D1TypeOK
  <2>2. /\ q \in Locals /\ q.step = "hop" /\ q.op = client[c].op /\ q.cur = alias[a]
        /\ q.walked = client[c].walked
    BY <1>2, <2>1 DEF Locals
  <2>3. Becomes(c, q)
    BY <1>1, <1>3
  <2> HIDE DEF q
  <2>4. Shape(q)
    BY <1>2, <2>1, <2>2 DEF Shape
  <2>5. client' \in [Clients -> Locals] /\ \A d \in Clients : Shape(client'[d])
    BY <2>2, <2>3, <2>4, ClientUpdate DEF IInv, D1TypeOK
  <2>6. QED BY <2>5, TablesSame DEF GetAlias, IInv, D1TypeOK
<1>4. CASE a \notin DOMAIN alias
  BY <1>1, <1>4, AnswerStep, TablesSame DEF GetAlias, IInv, D1TypeOK
<1>5. QED BY <1>3, <1>4

LEMMA HopStep ==
  ASSUME IInv, NEW c \in Clients, Hop(c)
  PROVE  IInv'
<1> DEFINE r == client[c]
<1>1. r \in Locals /\ Shape(r) /\ r.step = "hop" /\ r.cur \in Ids /\ \A x \in r.walked : r.cur < x
  BY DEF IInv, D1TypeOK, Hop, At, Shape
<1>2. r.op \in {"put_work", "put_content", "delete_work", "get_work"} /\ r.walked \in SUBSET Ids
  BY <1>1 DEF Shape, Locals
<1>3. client' \in [Clients -> Locals] /\ \A d \in Clients : Shape(client'[d])
  <2>1. CASE Answer(c)
    BY <2>1, AnswerStep
  <2>2. CASE r.cur \in DOMAIN node /\ node[r.cur] # NoId
             /\ Becomes(c, [r EXCEPT !.walked = @ \union {r.cur}, !.cur = node[r.cur]])
    <3> DEFINE q == [r EXCEPT !.walked = @ \union {r.cur}, !.cur = node[r.cur]]
    <3>1. node[r.cur] \in Ids /\ node[r.cur] < r.cur
      BY <2>2 DEF IInv, D1TypeOK, RedirectsDecrease
    <3>2. /\ q \in Locals /\ q.step = "hop" /\ q.op = r.op /\ q.cur = node[r.cur]
          /\ q.walked = r.walked \union {r.cur}
      BY <1>1, <1>2, <3>1 DEF Locals
    <3>3. \A x \in q.walked : q.cur < x
      BY <1>1, <1>2, <3>1, <3>2, IdsAssumption
    <3>4. Becomes(c, q)
      BY <2>2
    <3> HIDE DEF q
    <3>5. Shape(q)
      BY <1>1, <1>2, <3>1, <3>2, <3>3 DEF Shape
    <3>6. QED BY <3>2, <3>4, <3>5, ClientUpdate DEF IInv, D1TypeOK
  <2>3. CASE r.walked = {} /\ Becomes(c, Resolved(r, r.cur))
    BY <1>1, <1>2, <2>3, ResolvedRequest, ClientUpdate DEF IInv, D1TypeOK
  <2>4. CASE Becomes(c, [r EXCEPT !.step = "compress"])
    <3> DEFINE q == [r EXCEPT !.step = "compress"]
    <3>1. /\ q \in Locals /\ q.step = "compress" /\ q.op = r.op /\ q.cur = r.cur
          /\ q.walked = r.walked
      BY <1>1 DEF Locals
    <3>2. Becomes(c, q)
      BY <2>4
    <3> HIDE DEF q
    <3>3. Shape(q)
      BY <1>1, <1>2, <3>1 DEF Shape
    <3>4. QED BY <3>1, <3>2, <3>3, ClientUpdate DEF IInv, D1TypeOK
  <2>5. QED BY <2>1, <2>2, <2>3, <2>4 DEF Hop
<1>4. QED BY <1>3, TablesSame DEF Hop, IInv, D1TypeOK

(* The tables change in step with the batches: what each leaves is typed,  *)
(* and forwards downwards and to ids that are there.                       *)
Forest(m, al) ==
  /\ DOMAIN m \subseteq Ids /\ DOMAIN al \subseteq Works
  /\ \A n \in DOMAIN m : m[n] \in Ids \union {NoId} /\ (m[n] # NoId => m[n] < n)
  /\ \A n \in DOMAIN m : m[n] # NoId => m[n] \in DOMAIN m
  /\ \A a \in DOMAIN al : al[a] \in Ids /\ al[a] \in DOMAIN m

LEMMA TablesChange ==
  ASSUME IInv, Forest(node', alias'), artifact' \subseteq [node : Ids, version : Versions, key : Keys],
         Bounded', bytes' \subseteq Keys, UNCHANGED requests, torn' \in BOOLEAN,
         client' \in [Clients -> Locals], \A d \in Clients : Shape(client'[d])
  PROVE  IInv'
BY DEF IInv, D1TypeOK, Forest, RedirectsDecrease, DeletesAreWhole

LEMMA ForestNow ==
  ASSUME IInv
  PROVE  Forest(node, alias)
BY DEF IInv, D1TypeOK, Forest, RedirectsDecrease, DeletesAreWhole

(* Pointing greater ids at n, in a batch that is not refused. *)
LEMMA PointedForest ==
  ASSUME Forest(node, alias), NEW S \in SUBSET Ids, NEW n \in Ids, \A x \in S : n < x,
         NEW al, DOMAIN al \subseteq Works, \A a \in DOMAIN al : al[a] \in Ids,
         ~Refused(Pointed(S, n), al)
  PROVE  Forest(Pointed(S, n), al)
<1> DEFINE m == Pointed(S, n)
<1>1. DOMAIN m = DOMAIN node /\ \A x \in DOMAIN m : m[x] = IF x \in S THEN n ELSE node[x]
  BY DEF Pointed
<1>2. /\ \A x \in DOMAIN m : m[x] # NoId => m[x] \in DOMAIN m
      /\ \A a \in DOMAIN al : al[a] \in DOMAIN m
  BY DEF Refused
<1> HIDE DEF m
<1>3. Forest(m, al)
  BY <1>1, <1>2 DEF Forest
<1>4. QED BY <1>3 DEF m

LEMMA CompressStep ==
  ASSUME IInv, NEW c \in Clients, Compress(c)
  PROVE  IInv'
<1> DEFINE r == client[c]
<1>1. r \in Locals /\ Shape(r) /\ r.step = "compress" /\ r.cur \in Ids /\ \A x \in r.walked : r.cur < x
  BY DEF IInv, D1TypeOK, Compress, At, Shape
<1>2. r.op \in {"put_work", "put_content", "delete_work", "get_work"} /\ r.walked \in SUBSET Ids
  BY <1>1 DEF Shape, Locals
<1>3. CASE Answer(c) /\ UNCHANGED node
  BY <1>3, AnswerStep, TablesSame DEF Compress, IInv, D1TypeOK
<1>4. CASE /\ ~Refused(Pointed(r.walked, r.cur), alias) /\ node' = Pointed(r.walked, r.cur)
           /\ Becomes(c, Resolved(r, r.cur))
  <2>1. client' \in [Clients -> Locals] /\ \A d \in Clients : Shape(client'[d])
    BY <1>1, <1>2, <1>4, ResolvedRequest, ClientUpdate DEF IInv, D1TypeOK
  <2>2. UNCHANGED <<alias, artifact, bytes, requests, torn>>
    BY DEF Compress
  <2>3. DOMAIN alias \subseteq Works /\ \A a \in DOMAIN alias : alias[a] \in Ids
    BY DEF IInv, D1TypeOK
  <2>4. Forest(node', alias')
    BY <1>1, <1>2, <1>4, <2>2, <2>3, ForestNow, PointedForest
  <2>5. Bounded'
    BY <2>2 DEF IInv, Bounded
  <2>6. QED BY <2>1, <2>2, <2>4, <2>5, TablesChange DEF IInv, D1TypeOK
<1>5. QED BY <1>3, <1>4 DEF Compress

(* The ids of a merge: the survivor is the lesser. *)
LEMMA MergedIds ==
  ASSUME IInv, NEW c \in Clients, At(c, "merge"),
         NEW s, s = Survivor(client[c].found),
         NEW l, l = CHOOSE n \in client[c].found : n # s
  PROVE  s \in Ids /\ l \in Ids /\ s < l
<1> DEFINE G == client[c].found
<1>1. G \in SUBSET Ids /\ \E m, n \in G : m # n
  BY LocalsFields DEF IInv, D1TypeOK, At, Shape
<1>2. s \in G /\ \A y \in G : s <= y
  BY <1>1, IdsAssumption, LeastProperty DEF Survivor
<1>3. l \in G /\ l # s
  BY <1>1
<1> HIDE DEF G
<1>4. s \in Nat /\ l \in Nat /\ s <= l
  BY <1>1, <1>2, <1>3, IdsAssumption
<1>5. QED BY <1>1, <1>2, <1>3, <1>4

(* The rows after a merge of l into s: those that were not l's, and those  *)
(* of l whose version s did not have.                                      *)
MergedRows(s, l) ==
  LET taken(q) == \E p \in artifact : p.node = s /\ p.version = q.version
  IN {q \in artifact : q.node # l} \union
       {[q EXCEPT !.node = s] : q \in {p \in artifact : p.node = l /\ ~taken(p)}}

LEMMA MergedRowsAre ==
  ASSUME NEW s \in Ids, NEW l \in Ids, artifact \subseteq [node : Ids, version : Versions, key : Keys],
         NEW x \in MergedRows(s, l)
  PROVE  /\ x \in [node : Ids, version : Versions, key : Keys]
         /\ \E q \in artifact : /\ x.version = q.version /\ x.key = q.key
                                /\ \/ q.node # l /\ x = q
                                   \/ q.node = l /\ x = [q EXCEPT !.node = s] /\ x.node = s
<1>1. CASE x \in artifact /\ x.node # l
  BY <1>1
<1>2. CASE \E q \in artifact : q.node = l /\ x = [q EXCEPT !.node = s]
  <2>1. PICK q \in artifact : q.node = l /\ x = [q EXCEPT !.node = s]
    BY <1>2
  <2>2. /\ x \in [node : Ids, version : Versions, key : Keys]
        /\ x.version = q.version /\ x.key = q.key /\ x.node = s
    BY <2>1
  <2>3. QED BY <2>1, <2>2
<1>3. QED BY <1>1, <1>2 DEF MergedRows

LEMMA MergeStep ==
  ASSUME IInv, NEW c \in Clients, MergeResolved(c)
  PROVE  IInv'
<1> DEFINE s == Survivor(client[c].found)
           l == CHOOSE n \in client[c].found : n # s
           al == [a \in DOMAIN alias |-> IF alias[a] = l THEN s ELSE alias[a]]
<1>1. At(c, "merge") /\ Answer(c) /\ UNCHANGED <<bytes, requests>>
  BY DEF MergeResolved
<1>2. \/ UNCHANGED <<node, alias, artifact, torn>>
      \/ /\ ~Refused(Pointed({l}, s), al) /\ node' = Pointed({l}, s) /\ alias' = al
         /\ artifact' = MergedRows(s, l) /\ torn' = (torn \/ InHand(l))
  BY DEF MergeResolved, MergedRows
<1>3. s \in Ids /\ l \in Ids /\ s < l
  BY <1>1, MergedIds
<1>4. client' \in [Clients -> Locals] /\ \A d \in Clients : Shape(client'[d])
  BY <1>1, AnswerStep
<1> HIDE DEF s, l
<1>5. CASE UNCHANGED <<node, alias, artifact, torn>>
  BY <1>1, <1>4, <1>5, TablesSame DEF IInv, D1TypeOK
<1>6. CASE /\ ~Refused(Pointed({l}, s), al) /\ node' = Pointed({l}, s) /\ alias' = al
           /\ artifact' = MergedRows(s, l) /\ torn' = (torn \/ InHand(l))
  <2>1. DOMAIN al \subseteq Works /\ \A a \in DOMAIN al : al[a] \in Ids
    BY <1>3 DEF IInv, D1TypeOK
  <2>2. Forest(node', alias')
    <3> HIDE DEF al
    <3> QED BY <1>3, <1>6, <2>1, ForestNow, PointedForest
  <2>3. artifact \subseteq [node : Ids, version : Versions, key : Keys]
    BY DEF IInv, D1TypeOK
  <2>4. artifact' \subseteq [node : Ids, version : Versions, key : Keys]
    BY <1>3, <1>6, <2>3, MergedRowsAre
  <2>5. \A x \in artifact' : \E q \in artifact : x.version = q.version
    BY <1>3, <1>6, <2>3, MergedRowsAre
  <2>6. Bounded'
    BY <2>5 DEF IInv, Bounded
  <2>7. torn' \in BOOLEAN
    BY <1>6
  <2>8. bytes' \subseteq Keys
    BY <1>1 DEF IInv, D1TypeOK
  <2>9. QED BY <1>1, <1>4, <2>2, <2>4, <2>6, <2>7, <2>8, TablesChange
<1>7. QED BY <1>2, <1>5, <1>6

(* The version after the greatest, or the first. *)
LEMMA NextVersionIs ==
  ASSUME IInv, NEW n
  PROVE  LET V == {q.version : q \in {p \in artifact : p.node = n}}
         IN 1 + (IF V = {} THEN 0 ELSE Greatest(V)) \in Versions
<1> DEFINE V == {q.version : q \in {p \in artifact : p.node = n}}
<1>1. PICK u \in Nat : \A q \in artifact : q.version <= u
  BY DEF IInv, Bounded
<1>2. V \in SUBSET Nat /\ \A y \in V : y <= u
  BY <1>1 DEF IInv, D1TypeOK, Versions
<1> HIDE DEF V
<1>3. V # {} => Greatest(V) \in Nat
  BY <1>2, GreatestProperty
<1>4. 1 + (IF V = {} THEN 0 ELSE Greatest(V)) \in Versions
  BY <1>3 DEF Versions
<1>5. QED BY <1>4 DEF V

LEMMA NextVersionStep ==
  ASSUME IInv, NEW c \in Clients, ReadVersion(c)
  PROVE  IInv'
<1> DEFINE V == {q.version : q \in {p \in artifact : p.node = client[c].cur}}
           v == 1 + (IF V = {} THEN 0 ELSE Greatest(V))
           q == [client[c] EXCEPT !.step = "blob_put", !.version = v]
<1>1. v \in Versions
  BY NextVersionIs
<1>2. Becomes(c, q)
  BY DEF ReadVersion
<1>3. client[c] \in Locals /\ Shape(client[c]) /\ client[c].step = "next_version"
  BY DEF IInv, D1TypeOK, ReadVersion, At
<1> HIDE DEF v
<1>4. q \in Locals /\ q.step = "blob_put" /\ q.op = client[c].op /\ q.cur = client[c].cur /\ q.version = v
  BY <1>1, <1>3 DEF Locals, Versions
<1> HIDE DEF q
<1>5. Shape(q)
  BY <1>1, <1>3, <1>4 DEF Shape
<1>6. client' \in [Clients -> Locals] /\ \A d \in Clients : Shape(client'[d])
  BY <1>2, <1>4, <1>5, ClientUpdate DEF IInv, D1TypeOK
<1>7. QED BY <1>6, TablesSame DEF ReadVersion, IInv, D1TypeOK

LEMMA BlobPutStep ==
  ASSUME IInv, NEW c \in Clients, BlobPut(c)
  PROVE  IInv'
<1> DEFINE q == [client[c] EXCEPT !.step = "record"]
<1>1. client[c] \in Locals /\ Shape(client[c]) /\ client[c].step = "blob_put"
  BY DEF IInv, D1TypeOK, BlobPut, At
<1>2. /\ q \in Locals /\ q.step = "record" /\ q.op = client[c].op /\ q.cur = client[c].cur
      /\ q.version = client[c].version
  BY <1>1 DEF Locals
<1>3. Becomes(c, q)
  BY DEF BlobPut
<1> HIDE DEF q
<1>4. Shape(q)
  BY <1>1, <1>2 DEF Shape
<1>5. client' \in [Clients -> Locals] /\ \A d \in Clients : Shape(client'[d])
  BY <1>2, <1>3, <1>4, ClientUpdate DEF IInv, D1TypeOK
<1>6. Key(client[c]) \in Keys
  BY <1>1 DEF Shape, Key, Keys
<1>7. bytes' \subseteq Keys
  BY <1>6 DEF BlobPut, IInv, D1TypeOK
<1>8. QED BY <1>5, <1>7, TablesSame DEF BlobPut, IInv, D1TypeOK

LEMMA RecordStep ==
  ASSUME IInv, NEW c \in Clients, RecordUpload(c)
  PROVE  IInv'
<1> DEFINE row == [node |-> client[c].cur, version |-> client[c].version, key |-> Key(client[c])]
<1>1. client[c] \in Locals /\ Shape(client[c]) /\ client[c].step = "record"
  BY DEF IInv, D1TypeOK, RecordUpload, At
<1>2. row \in [node : Ids, version : Versions, key : Keys]
  BY <1>1 DEF Shape, Key, Keys
<1>3. artifact' \subseteq artifact \union {row}
  BY DEF RecordUpload
<1>4. PICK u \in Nat : \A q \in artifact : q.version <= u
  BY DEF IInv, Bounded
<1>5. Bounded'
  <2>1. row.version \in Nat /\ \A q \in artifact : q.version \in Nat
    BY <1>2 DEF IInv, D1TypeOK, Versions
  <2> HIDE DEF row
  <2>2. u + row.version \in Nat /\ \A q \in artifact' : q.version <= u + row.version
    BY <1>3, <1>4, <2>1
  <2>3. QED BY <2>2 DEF Bounded
<1> HIDE DEF row
<1>6. artifact' \subseteq [node : Ids, version : Versions, key : Keys]
  BY <1>2, <1>3 DEF IInv, D1TypeOK
<1>7. UNCHANGED <<node, alias, bytes, requests, torn>> /\ Answer(c)
  BY DEF RecordUpload
<1>8. Forest(node', alias')
  BY <1>7, ForestNow
<1>9. QED BY <1>5, <1>6, <1>7, <1>8, AnswerStep, TablesChange DEF IInv, D1TypeOK

LEMMA NetworkStep ==
  ASSUME IInv, NEW c \in Clients, Network(c)
  PROVE  IInv'
<1> DEFINE r == client[c]
           more == {n \in DOMAIN node : node[n] \in r.frontier} \ r.net
<1>1. r \in Locals /\ Shape(r) /\ r.step = "network" /\ r.net \in SUBSET Ids
  BY LocalsFields DEF IInv, D1TypeOK, Network, At
<1>2. more \in SUBSET Ids
  BY DEF IInv, D1TypeOK
<1>3. client' \in [Clients -> Locals] /\ \A d \in Clients : Shape(client'[d])
  <2>1. CASE Becomes(c, [r EXCEPT !.step = "select_keys", !.frontier = {}])
    <3> DEFINE q == [r EXCEPT !.step = "select_keys", !.frontier = {}]
    <3>1. q \in Locals /\ q.step = "select_keys" /\ q.op = r.op /\ q.cur = r.cur
      BY <1>1 DEF Locals
    <3>2. Becomes(c, q)
      BY <2>1
    <3> HIDE DEF q
    <3>3. Shape(q)
      BY <1>1, <3>1 DEF Shape
    <3>4. QED BY <3>1, <3>2, <3>3, ClientUpdate DEF IInv, D1TypeOK
  <2>2. CASE Becomes(c, [r EXCEPT !.net = @ \union more, !.frontier = more])
    <3> DEFINE q == [r EXCEPT !.net = @ \union more, !.frontier = more]
    <3> HIDE DEF more
    <3>1. q \in Locals /\ q.step = "network" /\ q.op = r.op /\ q.cur = r.cur
      BY <1>1, <1>2 DEF Locals
    <3>2. Becomes(c, q)
      BY <2>2
    <3> HIDE DEF q
    <3>3. Shape(q)
      BY <1>1, <3>1 DEF Shape
    <3>4. QED BY <3>1, <3>2, <3>3, ClientUpdate DEF IInv, D1TypeOK
  <2>3. QED BY <2>1, <2>2 DEF Network
<1>4. QED BY <1>3, TablesSame DEF Network, IInv, D1TypeOK

LEMMA SelectKeysStep ==
  ASSUME IInv, NEW c \in Clients, SelectKeys(c)
  PROVE  IInv'
<1> DEFINE r == client[c]
           K == {q.key : q \in {p \in artifact : p.node \in r.net}}
           s == [r EXCEPT !.step = "delete", !.keys = K]
<1>1. r \in Locals /\ Shape(r) /\ r.step = "select_keys"
  BY DEF IInv, D1TypeOK, SelectKeys, At
<1>2. K \in SUBSET Keys
  BY DEF IInv, D1TypeOK
<1>3. Becomes(c, s)
  BY DEF SelectKeys
<1> HIDE DEF K
<1>4. s \in Locals /\ s.step = "delete" /\ s.op = r.op /\ s.cur = r.cur
  BY <1>1, <1>2 DEF Locals
<1> HIDE DEF s
<1>5. Shape(s)
  BY <1>1, <1>4 DEF Shape
<1>6. client' \in [Clients -> Locals] /\ \A d \in Clients : Shape(client'[d])
  BY <1>3, <1>4, <1>5, ClientUpdate DEF IInv, D1TypeOK
<1>7. QED BY <1>6, TablesSame DEF SelectKeys, IInv, D1TypeOK

(* A delete that is not refused leaves a forest. *)
LEMMA DeletedForest ==
  ASSUME Forest(node, alias), NEW N,
         ~Refused(Dropped(node, N), Dropped(alias, {a \in DOMAIN alias : alias[a] \in N}))
  PROVE  Forest(Dropped(node, N), Dropped(alias, {a \in DOMAIN alias : alias[a] \in N}))
<1> DEFINE A == {a \in DOMAIN alias : alias[a] \in N}
           m == Dropped(node, N)
           al == Dropped(alias, A)
<1>1. DOMAIN m = DOMAIN node \ N /\ \A x \in DOMAIN m : m[x] = node[x]
  BY DEF Dropped
<1>2. DOMAIN al = DOMAIN alias \ A /\ \A x \in DOMAIN al : al[x] = alias[x]
  BY DEF Dropped
<1>3. /\ \A x \in DOMAIN m : m[x] # NoId => m[x] \in DOMAIN m
      /\ \A a \in DOMAIN al : al[a] \in DOMAIN m
  BY DEF Refused
<1> HIDE DEF m, al, A
<1>4. Forest(m, al)
  BY <1>1, <1>2, <1>3 DEF Forest
<1>5. QED BY <1>4 DEF m, al, A

LEMMA DeleteStep ==
  ASSUME IInv, NEW c \in Clients, Delete(c)
  PROVE  IInv'
<1> DEFINE r == client[c]
           m == Dropped(node, r.net)
           al == Dropped(alias, {a \in DOMAIN alias : alias[a] \in r.net})
<1>1. r \in Locals /\ Shape(r) /\ r.step = "delete"
  BY DEF IInv, D1TypeOK, Delete, At
<1>2. CASE Answer(c) /\ UNCHANGED <<node, alias, artifact>>
  BY <1>2, AnswerStep, TablesSame DEF Delete, IInv, D1TypeOK
<1>3. CASE /\ ~Refused(m, al) /\ node' = m /\ alias' = al
           /\ artifact' = {q \in artifact : q.node \notin r.net}
           /\ Becomes(c, [r EXCEPT !.step = "blob_delete"])
  <2> DEFINE q == [r EXCEPT !.step = "blob_delete"]
  <2>1. q \in Locals /\ q.step = "blob_delete" /\ q.op = r.op /\ q.cur = r.cur
    BY <1>1 DEF Locals
  <2>2. Becomes(c, q)
    BY <1>3
  <2> HIDE DEF q
  <2>3. Shape(q)
    BY <1>1, <2>1 DEF Shape
  <2>4. client' \in [Clients -> Locals] /\ \A d \in Clients : Shape(client'[d])
    BY <2>1, <2>2, <2>3, ClientUpdate DEF IInv, D1TypeOK
  <2>5. Forest(node', alias')
    BY <1>3, ForestNow, DeletedForest
  <2>6. artifact' \subseteq artifact
    BY <1>3
  <2>7. Bounded'
    BY <2>6 DEF IInv, Bounded
  <2>8. UNCHANGED <<bytes, requests, torn>>
    BY DEF Delete
  <2>9. QED BY <2>4, <2>5, <2>6, <2>7, <2>8, TablesChange DEF IInv, D1TypeOK
<1>4. QED BY <1>2, <1>3 DEF Delete

LEMMA BlobDeleteStep ==
  ASSUME IInv, NEW c \in Clients, BlobDelete(c)
  PROVE  IInv'
<1>1. bytes' \subseteq Keys /\ requests' \in 0 .. MaxRequests
  BY DEF BlobDelete, IInv, D1TypeOK
<1>2. QED BY <1>1, AnswerStep, TablesSame DEF BlobDelete

LEMMA InitInv ==
  ASSUME Works \subseteq Ids, MaxRequests \in Nat, D1Init
  PROVE  IInv
<1>1. client \in [Clients -> Locals] /\ \A c \in Clients : Shape(client[c])
  BY FreeRequest DEF D1Init
<1>3. DOMAIN node \subseteq Ids /\ \A n \in DOMAIN node : node[n] \in Ids \union {NoId}
  BY DEF D1Init
<1>4. DOMAIN alias \subseteq Works /\ \A a \in DOMAIN alias : alias[a] \in Ids
  BY DEF D1Init
<1>5. artifact = {} /\ bytes = {} /\ requests = 0 /\ torn \in BOOLEAN
  BY DEF D1Init
<1>6. requests \in 0 .. MaxRequests
  BY <1>5
<1>8. D1TypeOK
  BY <1>1, <1>3, <1>4, <1>5, <1>6 DEF D1TypeOK
<1>2. Bounded /\ RedirectsDecrease /\ DeletesAreWhole
  BY DEF D1Init, Bounded, RedirectsDecrease, DeletesAreWhole
<1>9. QED BY <1>1, <1>2, <1>8 DEF IInv

LEMMA IInvInductive ==
  ASSUME MaxRequests \in Nat, IInv, [D1Next]_d1Vars
  PROVE  IInv'
<1>1. ASSUME NEW c \in Clients,
             \/ Request(c) \/ GetAlias(c) \/ Hop(c) \/ Compress(c) \/ MergeResolved(c)
             \/ ReadVersion(c) \/ BlobPut(c) \/ RecordUpload(c)
             \/ Network(c) \/ SelectKeys(c) \/ Delete(c) \/ BlobDelete(c)
      PROVE  IInv'
  BY <1>1, RequestStep, GetAliasStep, HopStep, CompressStep, MergeStep, NextVersionStep, BlobPutStep,
     RecordStep, NetworkStep, SelectKeysStep, DeleteStep, BlobDeleteStep
<1>2. CASE UNCHANGED d1Vars
  BY <1>2 DEF IInv, d1Vars, D1TypeOK, Bounded, RedirectsDecrease, DeletesAreWhole
<1>3. QED BY <1>1, <1>2 DEF D1Next, Quiet

(* Every step of a D1 request is one of a client, or none. *)
Step(c) ==
  \/ Request(c) \/ GetAlias(c) \/ Hop(c) \/ Compress(c) \/ MergeResolved(c)
  \/ ReadVersion(c) \/ BlobPut(c) \/ RecordUpload(c)
  \/ Network(c) \/ SelectKeys(c) \/ Delete(c) \/ BlobDelete(c)

(* What every request does to its own locals, and to no other's. *)
LEMMA OneClient ==
  ASSUME NEW c \in Clients, Step(c)
  PROVE  \E r : Becomes(c, r)
<1>1. CASE Request(c)
  BY <1>1 DEF Request
<1>2. CASE GetAlias(c)
  BY <1>2 DEF GetAlias, Answer
<1>3. CASE Hop(c)
  BY <1>3 DEF Hop, Answer
<1>4. CASE Compress(c)
  BY <1>4 DEF Compress, Answer
<1>5. CASE MergeResolved(c)
  BY <1>5 DEF MergeResolved, Answer
<1>6. CASE ReadVersion(c)
  BY <1>6 DEF ReadVersion
<1>7. CASE BlobPut(c)
  BY <1>7 DEF BlobPut
<1>8. CASE RecordUpload(c)
  BY <1>8 DEF RecordUpload, Answer
<1>9. CASE Network(c)
  BY <1>9 DEF Network
<1>10. CASE SelectKeys(c)
  BY <1>10 DEF SelectKeys
<1>11. CASE Delete(c)
  BY <1>11 DEF Delete, Answer
<1>12. CASE BlobDelete(c)
  BY <1>12 DEF BlobDelete, Answer
<1>13. QED BY <1>1, <1>2, <1>3, <1>4, <1>5, <1>6, <1>7, <1>8, <1>9, <1>10, <1>11, <1>12 DEF Step
------------------------------------------------------------------------------
(* The redirects.                                                          *)

(* Types, for any number of clients, works and requests in flight.         *)
THEOREM D1TypeCorrect ==
  ASSUME Works \subseteq Ids, MaxRequests \in Nat
  PROVE  D1Spec => []D1TypeOK
<1>1. IInv => D1TypeOK
  BY DEF IInv
<1>2. QED BY <1>1, InitInv, IInvInductive, PTL DEF D1Spec

(* Compressions with ids read some round trips ago and merges of ids       *)
(* resolved before other merges close no cycle of redirects; a delete      *)
(* takes a whole network or nothing, whatever ran beside its search.       *)
THEOREM D1ForestKept ==
  ASSUME Works \subseteq Ids, MaxRequests \in Nat
  PROVE  D1Spec => [](RedirectsDecrease /\ DeletesAreWhole)
<1>1. IInv => RedirectsDecrease /\ DeletesAreWhole
  BY DEF IInv
<1>2. QED BY <1>1, InitInv, IInvInductive, PTL DEF D1Spec

(* Pointing ids at an id clears no redirect. *)
LEMMA PointedStays ==
  ASSUME NEW S, NEW n \in Ids, node' = Pointed(S, n)
  PROVE  DOMAIN node' = DOMAIN node /\ RedirectsForward
BY IdsAssumption DEF Pointed, RedirectsForward

LEMMA NodesStay ==
  ASSUME IInv, [D1Next]_d1Vars
  PROVE  DOMAIN node' \subseteq DOMAIN node /\ RedirectsForward
<1>1. CASE UNCHANGED node
  BY <1>1 DEF RedirectsForward
<1>2. ASSUME NEW c \in Clients, Compress(c)
      PROVE  DOMAIN node' \subseteq DOMAIN node /\ RedirectsForward
  <2>1. client[c].cur \in Ids
    BY <1>2 DEF IInv, Compress, At, Shape
  <2>2. QED BY <1>1, <1>2, <2>1, PointedStays DEF Compress
<1>3. ASSUME NEW c \in Clients, MergeResolved(c)
      PROVE  DOMAIN node' \subseteq DOMAIN node /\ RedirectsForward
  <2>1. Survivor(client[c].found) \in Ids
    BY <1>3, MergedIds DEF MergeResolved
  <2>2. QED BY <1>1, <1>3, <2>1, PointedStays DEF MergeResolved
<1>4. ASSUME NEW c \in Clients, Delete(c)
      PROVE  DOMAIN node' \subseteq DOMAIN node /\ RedirectsForward
  <2>1. CASE node' = Dropped(node, client[c].net)
    BY <2>1 DEF Dropped, RedirectsForward
  <2>2. QED BY <1>1, <1>4, <2>1 DEF Delete
<1>5. ASSUME NEW c \in Clients,
             \/ Request(c) \/ GetAlias(c) \/ Hop(c) \/ ReadVersion(c) \/ BlobPut(c) \/ RecordUpload(c)
             \/ Network(c) \/ SelectKeys(c) \/ BlobDelete(c)
      PROVE  UNCHANGED node
  BY <1>5 DEF Request, GetAlias, Hop, ReadVersion, BlobPut, RecordUpload, Network, SelectKeys, BlobDelete
<1>6. QED BY <1>1, <1>2, <1>3, <1>4, <1>5 DEF D1Next, Quiet, d1Vars

(* No step of any request, however stale what it holds, clears a redirect  *)
(* of a node that stays.                                                   *)
THEOREM D1KeepsRedirects ==
  ASSUME Works \subseteq Ids, MaxRequests \in Nat
  PROVE  D1Spec => D1RedirectsStay
BY InitInv, IInvInductive, NodesStay, PTL DEF D1Spec, D1RedirectsStay
------------------------------------------------------------------------------
(* The rows and their bytes.                                               *)

(* An upload starts where its walk has just found a live id. *)
LEMMA UploadsStart ==
  ASSUME IInv, NEW c \in Clients, Step(c), NEW n, Uploads(c, n)'
  PROVE  Uploads(c, n) \/ (n \in DOMAIN node /\ node[n] = NoId)
<1> DEFINE r == client[c]
<1>1. r \in Locals /\ Shape(r) /\ client \in [Clients -> Locals]
  BY DEF IInv, D1TypeOK
<1>2. ASSUME NEW q, Becomes(c, q) PROVE client'[c] = q
  BY <1>1, <1>2 DEF Becomes
<1>3. Free.op = "none"
  BY DEF Free
<1>4. ~Answer(c)
  BY <1>2, <1>3 DEF Answer, Uploads
<1>5. /\ client'[c].op = "put_content" /\ client'[c].cur = n
      /\ client'[c].step \in {"compress", "next_version", "blob_put", "record"}
  BY DEF Uploads
<1>6. CASE Request(c)
  <2>1. PICK op, A : Becomes(c, [Free EXCEPT !.op = op, !.step = "get_alias", !.todo = A])
    BY <1>6 DEF Request
  <2>2. client'[c].step = "get_alias"
    BY <1>2, <2>1 DEF Free
  <2>3. QED BY <1>5, <2>2
<1>7. CASE GetAlias(c)
  <2>1. PICK a : Becomes(c, [[r EXCEPT !.todo = @ \ {a}] EXCEPT !.step = "hop", !.cur = alias[a]])
    BY <1>4, <1>7 DEF GetAlias
  <2>2. client'[c].step = "hop"
    BY <1>1, <1>2, <2>1 DEF Locals
  <2>3. QED BY <1>5, <2>2
<1>8. CASE Hop(c)
  <2>1. r.step = "hop" /\ r.cur \in Ids /\ r.op \in {"put_work", "put_content", "delete_work", "get_work"}
    BY <1>1, <1>8 DEF Hop, At, Shape, Locals
  <2>2. CASE Becomes(c, [r EXCEPT !.walked = @ \union {r.cur}, !.cur = node[r.cur]])
    <3>1. client'[c].step = "hop"
      BY <1>1, <1>2, <2>1, <2>2 DEF Locals
    <3>2. QED BY <1>5, <3>1
  <2>3. CASE r.cur \in DOMAIN node /\ node[r.cur] = NoId /\ Becomes(c, Resolved(r, r.cur))
    <3>1. client'[c] = Resolved(r, r.cur)
      BY <1>2, <2>3
    <3>2. client'[c].cur = r.cur
      BY <1>1, <1>5, <2>1, <3>1, ResolvedRequest
    <3>3. QED BY <1>5, <2>3, <3>2
  <2>4. CASE r.cur \in DOMAIN node /\ node[r.cur] = NoId /\ Becomes(c, [r EXCEPT !.step = "compress"])
    <3>1. client'[c].cur = r.cur
      BY <1>1, <1>2, <2>4 DEF Locals
    <3>2. QED BY <1>5, <2>4, <3>1
  <2>5. QED BY <1>4, <1>8, <2>2, <2>3, <2>4 DEF Hop
<1>9. CASE Compress(c)
  <2>1. /\ r.step = "compress" /\ r.cur \in Ids /\ Becomes(c, Resolved(r, r.cur))
        /\ r.op \in {"put_work", "put_content", "delete_work", "get_work"}
    BY <1>1, <1>4, <1>9 DEF Compress, At, Shape, Locals
  <2>2. client'[c] = Resolved(r, r.cur)
    BY <1>2, <2>1
  <2>3. client'[c].cur = r.cur /\ r.op = "put_content"
    BY <1>1, <1>5, <2>1, <2>2, ResolvedRequest
  <2>4. QED BY <1>5, <2>1, <2>3 DEF Uploads
<1>10. CASE ReadVersion(c)
  <2>1. PICK v : Becomes(c, [r EXCEPT !.step = "blob_put", !.version = v])
    BY <1>10 DEF ReadVersion
  <2>2. client'[c].cur = r.cur /\ client'[c].op = r.op
    BY <1>1, <1>2, <2>1 DEF Locals
  <2>3. QED BY <1>5, <1>10, <2>2 DEF ReadVersion, At, Uploads
<1>11. CASE BlobPut(c)
  <2>1. client'[c].cur = r.cur /\ client'[c].op = r.op
    BY <1>1, <1>2, <1>11 DEF BlobPut, Locals
  <2>2. QED BY <1>5, <1>11, <2>1 DEF BlobPut, At, Uploads
<1>12. CASE Network(c)
  <2>1. client'[c].step \in {"network", "select_keys"}
    <3>1. CASE Becomes(c, [r EXCEPT !.step = "select_keys", !.frontier = {}])
      BY <1>1, <1>2, <3>1 DEF Locals
    <3>2. ASSUME NEW M, Becomes(c, [r EXCEPT !.net = @ \union M, !.frontier = M])
          PROVE  client'[c].step = r.step
      BY <1>1, <1>2, <3>2 DEF Locals
    <3>3. QED BY <1>12, <3>1, <3>2 DEF Network, At
  <2>2. QED BY <1>5, <2>1
<1>13. CASE SelectKeys(c)
  <2>1. client'[c].step = "delete"
    BY <1>1, <1>2, <1>13 DEF SelectKeys, Locals
  <2>2. QED BY <1>5, <2>1
<1>14. CASE Delete(c)
  <2>1. client'[c].step = "blob_delete"
    BY <1>1, <1>2, <1>4, <1>14 DEF Delete, Locals
  <2>2. QED BY <1>5, <2>1
<1>15. CASE MergeResolved(c) \/ RecordUpload(c) \/ BlobDelete(c)
  BY <1>4, <1>15 DEF MergeResolved, RecordUpload, BlobDelete
<1>16. QED BY <1>6, <1>7, <1>8, <1>9, <1>10, <1>11, <1>12, <1>13, <1>14, <1>15 DEF Step

(* What is past stays past. *)
LEMMA PastStays ==
  ASSUME IInv, NEW c \in Clients, Step(c), NEW n, Past(n)
  PROVE  Past(n)'
<1>1. [D1Next]_d1Vars
  BY DEF D1Next, Step
<1>2. n \in DOMAIN node' => node'[n] # NoId
  BY <1>1, NodesStay DEF RedirectsForward, Past
<1>3. ASSUME NEW d \in Clients PROVE ~Uploads(d, n)'
  <2>1. CASE d = c
    BY <2>1, UploadsStart DEF Past
  <2>2. CASE d # c
    <3>1. client'[d] = client[d]
      BY <2>2, OneClient DEF Becomes, IInv, D1TypeOK
    <3>2. QED BY <3>1 DEF Past, Uploads
  <2>3. QED BY <2>1, <2>2
<1>4. QED BY <1>2, <1>3 DEF Past

(* What a step leaves of the invariant, given the rows and bytes it leaves *)
(* and what becomes of the client that takes it.                           *)
LEMMA KeysKeptSame ==
  ASSUME IInv, NEW c \in Clients, Step(c), KeysKept, artifact' \subseteq artifact
  PROVE  KeysKept'
<1>1. \A q \in artifact' : q.version = q.key[2] /\ (q.node # q.key[1] => Past(q.key[1])')
  BY PastStays DEF KeysKept
<1>2. QED BY <1>1 DEF KeysKept

LEMMA KeysReadSame ==
  ASSUME IInv, NEW c \in Clients, Step(c), NEW d \in Clients, KeysRead(d),
         client'[d].step = client[d].step, client'[d].net = client[d].net,
         client'[d].keys = client[d].keys,
         client[d].step \in {"delete", "blob_delete"} =>
           \A q \in artifact' : q \in artifact \/ q.key \notin client[d].keys \/ q.node \in client[d].net
  PROVE  KeysRead(d)'
<1>1. SUFFICES ASSUME client[d].step \in {"delete", "blob_delete"} PROVE KeysRead(d)'
  BY DEF KeysRead
<1>2. DOMAIN node' \subseteq DOMAIN node
  <2>1. [D1Next]_d1Vars
    BY DEF D1Next, Step
  <2>2. QED BY <2>1, NodesStay
<1>3. \A k \in client[d].keys : k[1] \in client[d].net \/ Past(k[1])'
  BY <1>1, PastStays DEF KeysRead
<1>4. \A q \in artifact' : q.node \in DOMAIN node' /\ q.key \in client[d].keys => q.node \in client[d].net
  BY <1>1, <1>2 DEF KeysRead
<1>5. client[d].step = "blob_delete" => client[d].net \intersect DOMAIN node' = {}
  BY <1>1, <1>2 DEF KeysRead
<1>6. QED BY <1>3, <1>4, <1>5 DEF KeysRead

LEMMA BytesPutSame ==
  ASSUME IInv, NEW c \in Clients, Step(c), NEW d \in Clients, BytesPut(d), client'[d] = client[d],
         client[d].step = "record" /\ client[d].cur \in DOMAIN node' /\ Key(client[d]) \in bytes
           => Key(client[d]) \in bytes'
  PROVE  BytesPut(d)'
<1>1. DOMAIN node' \subseteq DOMAIN node
  <2>1. [D1Next]_d1Vars
    BY DEF D1Next, Step
  <2>2. QED BY <2>1, NodesStay
<1>2. QED BY <1>1 DEF BytesPut, Key

(* A step of c leaves the locals of the others alone. *)
LEMMA OthersSame ==
  ASSUME IInv, NEW c \in Clients, Step(c), NEW d \in Clients, d # c
  PROVE  client'[d] = client[d]
BY OneClient DEF Becomes, IInv, D1TypeOK

(* For the others, unless a delete's blobs go: rows that were there, and   *)
(* bytes that only grow.                                                   *)
LEMMA OthersKept ==
  ASSUME IInv, NEW c \in Clients, Step(c), artifact' \subseteq artifact, bytes \subseteq bytes',
         NEW d \in Clients, d # c, KeysRead(d), BytesPut(d)
  PROVE  KeysRead(d)' /\ BytesPut(d)'
<1>1. client'[d] = client[d]
  BY OthersSame
<1>2. KeysRead(d)'
  BY <1>1, KeysReadSame
<1>3. BytesPut(d)'
  BY <1>1, BytesPutSame
<1>4. QED BY <1>2, <1>3

(* A step that only forgets rows and only adds bytes, and whose client     *)
(* neither goes on to a record nor has keys in hand.                       *)
LEMMA QuietStep ==
  ASSUME IInv, BytesInv, ~torn, NEW c \in Clients, Step(c), artifact' \subseteq artifact, bytes \subseteq bytes',
         KeysRead(c)', BytesPut(c)'
  PROVE  BytesInv'
<1>1. KeysKept'
  BY KeysKeptSame DEF BytesInv
<1>2. ASSUME NEW d \in Clients PROVE KeysRead(d)' /\ BytesPut(d)'
  BY <1>2, OthersKept DEF BytesInv
<1>3. DOMAIN node' \subseteq DOMAIN node
  <2>1. [D1Next]_d1Vars
    BY DEF D1Next, Step
  <2>2. QED BY <2>1, NodesStay
<1>4. ReachableRowsHaveBytes'
  BY <1>3 DEF BytesInv, ReachableRowsHaveBytes
<1>5. QED BY <1>1, <1>2, <1>4 DEF BytesInv

LEMMA NothingInHand ==
  ASSUME NEW c \in Clients, client'[c].step \notin {"delete", "blob_delete", "record"}
  PROVE  KeysRead(c)' /\ BytesPut(c)'
BY DEF KeysRead, BytesPut

LEMMA AnswerEnds ==
  ASSUME IInv, NEW c \in Clients, Answer(c)
  PROVE  client'[c].step = "free"
BY DEF IInv, D1TypeOK, Answer, Becomes, Free

(* The steps before a request has keys or bytes of its own. *)
LEMMA EarlySteps ==
  ASSUME IInv, NEW c \in Clients,
         Request(c) \/ GetAlias(c) \/ Hop(c) \/ Compress(c) \/ ReadVersion(c) \/ Network(c)
  PROVE  client'[c].step \notin {"delete", "blob_delete", "record"}
<1> DEFINE r == client[c]
<1>1. r \in Locals /\ Shape(r) /\ client \in [Clients -> Locals]
  BY DEF IInv, D1TypeOK
<1>2. ASSUME NEW q, Becomes(c, q) PROVE client'[c] = q
  BY <1>1, <1>2 DEF Becomes
<1>3. CASE Answer(c)
  BY <1>3, AnswerEnds
<1>4. CASE Request(c)
  <2>1. PICK op, A : Becomes(c, [Free EXCEPT !.op = op, !.step = "get_alias", !.todo = A])
    BY <1>4 DEF Request
  <2>2. client'[c].step = "get_alias"
    BY <1>2, <2>1 DEF Free
  <2>3. QED BY <2>2
<1>5. CASE GetAlias(c)
  <2>1. ASSUME NEW a, Becomes(c, [[r EXCEPT !.todo = @ \ {a}] EXCEPT !.step = "hop", !.cur = alias[a]])
        PROVE  client'[c].step = "hop"
    BY <1>1, <1>2, <2>1 DEF Locals
  <2>2. QED BY <1>3, <1>5, <2>1 DEF GetAlias
<1>6. CASE Hop(c)
  <2>1. r.step = "hop" /\ r.cur \in Ids /\ r.op \in {"put_work", "put_content", "delete_work", "get_work"}
    BY <1>1, <1>6 DEF Hop, At, Shape, Locals
  <2>2. CASE Becomes(c, [r EXCEPT !.walked = @ \union {r.cur}, !.cur = node[r.cur]])
    <3>1. client'[c].step = "hop"
      BY <1>1, <1>2, <2>1, <2>2 DEF Locals
    <3>2. QED BY <3>1
  <2>3. CASE Becomes(c, Resolved(r, r.cur))
    <3>1. client'[c] = Resolved(r, r.cur)
      BY <1>2, <2>3
    <3>2. QED BY <1>1, <2>1, <3>1, ResolvedRequest
  <2>4. CASE Becomes(c, [r EXCEPT !.step = "compress"])
    <3>1. client'[c].step = "compress"
      BY <1>1, <1>2, <2>4 DEF Locals
    <3>2. QED BY <3>1
  <2>5. QED BY <1>3, <1>6, <2>2, <2>3, <2>4 DEF Hop
<1>7. CASE Compress(c)
  <2>1. CASE Becomes(c, Resolved(r, r.cur))
    <3>1. r.cur \in Ids /\ r.op \in {"put_work", "put_content", "delete_work", "get_work"}
      BY <1>1, <1>7 DEF Compress, At, Shape, Locals
    <3>2. client'[c] = Resolved(r, r.cur)
      BY <1>2, <2>1
    <3>3. QED BY <1>1, <3>1, <3>2, ResolvedRequest
  <2>2. QED BY <1>3, <1>7, <2>1 DEF Compress
<1>8. CASE ReadVersion(c)
  <2>1. PICK v : Becomes(c, [r EXCEPT !.step = "blob_put", !.version = v])
    BY <1>8 DEF ReadVersion
  <2>2. client'[c].step = "blob_put"
    BY <1>1, <1>2, <2>1 DEF Locals
  <2>3. QED BY <2>2
<1>9. CASE Network(c)
  <2>1. CASE Becomes(c, [r EXCEPT !.step = "select_keys", !.frontier = {}])
    <3>1. client'[c].step = "select_keys"
      BY <1>1, <1>2, <2>1 DEF Locals
    <3>2. QED BY <3>1
  <2>2. ASSUME NEW M, Becomes(c, [r EXCEPT !.net = @ \union M, !.frontier = M])
        PROVE  client'[c].step = r.step
    BY <1>1, <1>2, <2>2 DEF Locals
  <2>3. r.step = "network"
    BY <1>9 DEF Network, At
  <2>4. QED BY <1>9, <2>1, <2>2, <2>3 DEF Network
<1>10. QED BY <1>4, <1>5, <1>6, <1>7, <1>8, <1>9

LEMMA EarlyBytes ==
  ASSUME IInv, BytesInv, ~torn, NEW c \in Clients,
         Request(c) \/ GetAlias(c) \/ Hop(c) \/ Compress(c) \/ ReadVersion(c) \/ Network(c)
  PROVE  BytesInv'
<1>1. UNCHANGED <<artifact, bytes>>
  BY DEF Request, GetAlias, Hop, Compress, ReadVersion, Network
<1>2. Step(c)
  BY DEF Step
<1>3. QED BY <1>1, <1>2, EarlySteps, NothingInHand, QuietStep

(* A row that is still of the network when its key is read is the only one *)
(* with that key.                                                          *)
LEMMA SelectKeysBytes ==
  ASSUME IInv, BytesInv, ~torn, NEW c \in Clients, SelectKeys(c)
  PROVE  BytesInv'
<1> DEFINE r == client[c]
           K == {q.key : q \in {p \in artifact : p.node \in r.net}}
<1>1. UNCHANGED <<node, artifact, bytes>> /\ Becomes(c, [r EXCEPT !.step = "delete", !.keys = K])
  BY DEF SelectKeys
<1>2. client'[c].step = "delete" /\ client'[c].keys = K /\ client'[c].net = r.net
  <2> HIDE DEF K
  <2> QED BY <1>1 DEF Becomes, IInv, D1TypeOK, Locals
<1>3. Step(c) /\ KeysKept
  BY DEF Step, BytesInv
<1>4. ASSUME NEW q \in artifact, q.key \in K PROVE q.node \in r.net
  BY <1>3, <1>4 DEF KeysKept
<1>5. ASSUME NEW k \in K PROVE k[1] \in r.net \/ Past(k[1])'
  <2>1. PICK q \in artifact : q.node \in r.net /\ q.key = k
    OBVIOUS
  <2>2. k[1] \in r.net \/ Past(k[1])
    BY <1>3, <2>1 DEF KeysKept
  <2>3. QED BY <1>3, <2>2, PastStays
<1> HIDE DEF K
<1>6. KeysRead(c)'
  BY <1>1, <1>2, <1>4, <1>5 DEF KeysRead
<1>7. BytesPut(c)'
  BY <1>2 DEF BytesPut
<1>8. QED BY <1>1, <1>3, <1>6, <1>7, QuietStep

LEMMA BlobPutBytes ==
  ASSUME IInv, BytesInv, ~torn, NEW c \in Clients, BlobPut(c)
  PROVE  BytesInv'
<1> DEFINE r == client[c]
<1>1. /\ UNCHANGED <<node, artifact>> /\ Becomes(c, [r EXCEPT !.step = "record"])
      /\ bytes' = bytes \union {Key(r)}
  BY DEF BlobPut
<1>2. client'[c].step = "record" /\ client'[c].cur = r.cur /\ client'[c].version = r.version
  BY <1>1 DEF Becomes, IInv, D1TypeOK, Locals
<1>3. BytesPut(c)'
  BY <1>1, <1>2 DEF BytesPut, Key
<1>4. KeysRead(c)'
  BY <1>2 DEF KeysRead
<1>5. Step(c)
  BY DEF Step
<1>6. QED BY <1>1, <1>3, <1>4, <1>5, QuietStep

(* A row that is recorded has a key that no row has and that no delete has *)
(* read: rows that were moved away came from works that take no upload.    *)
LEMMA RecordBytes ==
  ASSUME IInv, BytesInv, ~torn, NEW c \in Clients, RecordUpload(c)
  PROVE  BytesInv'
<1> DEFINE r == client[c]
           row == [node |-> r.cur, version |-> r.version, key |-> Key(r)]
<1>1. UNCHANGED <<node, bytes>> /\ Answer(c) /\ Step(c) /\ r.step = "record"
  BY DEF RecordUpload, Step, At
<1>2. client'[c].step = "free"
  BY <1>1, AnswerEnds
<1>3. KeysRead(c)' /\ BytesPut(c)'
  BY <1>2, NothingInHand
<1>4. CASE artifact' = artifact
  BY <1>1, <1>3, <1>4, QuietStep
<1>5. CASE /\ artifact' = artifact \union {row}
           /\ ~\E q \in artifact : q.node = row.node /\ q.version = row.version
  <2>1. row.node = r.cur /\ row.version = r.version /\ row.key = <<r.cur, r.version>>
    BY DEF Key
  <2>2. ~Past(r.cur)
    <3>1. r.op = "put_content"
      BY <1>1 DEF IInv, Shape
    <3>2. QED BY <1>1, <3>1 DEF Past, Uploads
  <2> HIDE DEF row
  <2>3. KeysKept'
    <3>1. \A q \in artifact' : q.version = q.key[2] /\ (q.node # q.key[1] => Past(q.key[1])')
      BY <1>1, <1>5, <2>1, PastStays DEF BytesInv, KeysKept
    <3>2. \A q \in artifact : q.key # row.key
      BY <1>5, <2>1, <2>2 DEF BytesInv, KeysKept
    <3>3. \A p, q \in artifact' : p.key = q.key => p = q
      BY <1>5, <3>2 DEF BytesInv, KeysKept
    <3>4. QED BY <3>1, <3>3 DEF KeysKept
  <2>4. ASSUME NEW d \in Clients, d # c PROVE KeysRead(d)' /\ BytesPut(d)'
    <3>1. client'[d] = client[d] /\ KeysRead(d) /\ BytesPut(d)
      BY <1>1, <2>4, OthersSame DEF BytesInv
    <3>2. client[d].step \in {"delete", "blob_delete"} =>
            row.key \notin client[d].keys \/ row.node \in client[d].net
      BY <2>1, <2>2, <3>1 DEF KeysRead
    <3>3. KeysRead(d)'
      BY <1>1, <1>5, <3>1, <3>2, KeysReadSame
    <3>4. QED BY <1>1, <3>1, <3>3, BytesPutSame
  <2>5. ReachableRowsHaveBytes'
    <3>1. row.node \in DOMAIN node => row.key \in bytes
      BY <1>1, <2>1 DEF BytesInv, BytesPut, Key
    <3>2. QED BY <1>1, <1>5, <3>1 DEF BytesInv, ReachableRowsHaveBytes
  <2>6. QED BY <1>3, <2>3, <2>4, <2>5 DEF BytesInv
<1>6. QED BY <1>4, <1>5 DEF RecordUpload

(* A merge that nobody else has in hand takes the rows and their keys to   *)
(* the survivor; the work they leave takes no upload any more.             *)
LEMMA MergeBytes ==
  ASSUME IInv, BytesInv, ~torn, NEW c \in Clients, MergeResolved(c), ~torn'
  PROVE  BytesInv'
<1>0. PICK s, l : s = Survivor(client[c].found) /\ l = CHOOSE n \in client[c].found : n # s
  OBVIOUS
<1>1. At(c, "merge") /\ Answer(c) /\ UNCHANGED bytes /\ Step(c)
  BY DEF MergeResolved, Step
<1>2. \/ UNCHANGED <<node, artifact>>
      \/ node' = Pointed({l}, s) /\ artifact' = MergedRows(s, l) /\ ~InHand(l)
  BY <1>0 DEF MergeResolved, MergedRows
<1>3. s \in Ids /\ l \in Ids
  BY <1>0, <1>1, MergedIds
<1>4. client'[c].step = "free"
  BY <1>1, AnswerEnds
<1>5. KeysRead(c)' /\ BytesPut(c)'
  BY <1>4, NothingInHand
<1>6. CASE UNCHANGED <<node, artifact>>
  BY <1>1, <1>5, <1>6, QuietStep
<1>7. CASE node' = Pointed({l}, s) /\ artifact' = MergedRows(s, l) /\ ~InHand(l)
  <2>1. /\ l \in DOMAIN node
        /\ \A d \in Clients : client[d].step \notin {"delete", "blob_delete"} /\ ~Uploads(d, l)
    BY <1>7 DEF InHand
  <2>2. ASSUME NEW d \in Clients, d # c PROVE KeysRead(d)' /\ BytesPut(d)' /\ ~Uploads(d, l)'
    <3>1. client'[d] = client[d] /\ BytesPut(d)
      BY <1>1, <2>2, OthersSame DEF BytesInv
    <3>2. KeysRead(d)'
      BY <2>1, <3>1 DEF KeysRead
    <3>3. BytesPut(d)'
      BY <1>1, <3>1, BytesPutSame
    <3>4. ~Uploads(d, l)'
      BY <2>1, <3>1 DEF Uploads
    <3>5. QED BY <3>2, <3>3, <3>4
  <2>3. Past(l)'
    <3>1. ~Uploads(c, l)'
      BY <1>4 DEF Uploads
    <3>2. node'[l] # NoId
      BY <1>3, <1>7, <2>1, IdsAssumption DEF Pointed
    <3>3. QED BY <2>2, <3>1, <3>2 DEF Past
  <2>4. artifact \subseteq [node : Ids, version : Versions, key : Keys]
    BY DEF IInv, D1TypeOK
  <2>5. ASSUME NEW x \in artifact'
        PROVE  \E q \in artifact : /\ x.version = q.version /\ x.key = q.key
                                   /\ \/ q.node # l /\ x = q
                                      \/ q.node = l /\ x = [q EXCEPT !.node = s] /\ x.node = s
    BY <1>3, <1>7, <2>4, <2>5, MergedRowsAre
  <2>6. KeysKept'
    <3>1. ASSUME NEW x \in artifact'
          PROVE  x.version = x.key[2] /\ (x.node # x.key[1] => Past(x.key[1])')
      <4>1. PICK q \in artifact : x.version = q.version /\ x.key = q.key /\ (x = q \/ q.node = l)
        BY <2>5
      <4>2. q.version = q.key[2] /\ (q.node # q.key[1] => Past(q.key[1])')
        BY <1>1, PastStays DEF BytesInv, KeysKept
      <4>3. QED BY <2>3, <4>1, <4>2
    <3>2. ASSUME NEW x \in artifact', NEW y \in artifact', x.key = y.key PROVE x = y
      <4>1. PICK q \in artifact : /\ x.key = q.key
                                  /\ \/ q.node # l /\ x = q
                                     \/ q.node = l /\ x = [q EXCEPT !.node = s]
        BY <2>5
      <4>2. PICK p \in artifact : /\ y.key = p.key
                                  /\ \/ p.node # l /\ y = p
                                     \/ p.node = l /\ y = [p EXCEPT !.node = s]
        BY <2>5
      <4>3. p = q
        BY <3>2, <4>1, <4>2 DEF BytesInv, KeysKept
      <4>4. QED BY <4>1, <4>2, <4>3
    <3>3. QED BY <3>1, <3>2 DEF KeysKept
  <2>7. ReachableRowsHaveBytes'
    <3>1. DOMAIN node' = DOMAIN node
      BY <1>7 DEF Pointed
    <3>2. ASSUME NEW x \in artifact', x.node \in DOMAIN node PROVE x.key \in bytes
      <4>1. PICK q \in artifact : x.key = q.key /\ (x = q \/ q.node = l)
        BY <2>5
      <4>2. QED BY <2>1, <3>2, <4>1 DEF BytesInv, ReachableRowsHaveBytes
    <3>3. QED BY <1>1, <3>1, <3>2 DEF ReachableRowsHaveBytes
  <2>8. QED BY <1>5, <2>2, <2>6, <2>7 DEF BytesInv
<1>8. QED BY <1>2, <1>6, <1>7

LEMMA DeleteBytes ==
  ASSUME IInv, BytesInv, ~torn, NEW c \in Clients, Delete(c)
  PROVE  BytesInv'
<1> DEFINE r == client[c]
<1>1. r.step = "delete" /\ UNCHANGED bytes /\ Step(c)
  BY DEF Delete, At, Step
<1>2. CASE Answer(c) /\ UNCHANGED <<node, artifact>>
  BY <1>1, <1>2, AnswerEnds, NothingInHand, QuietStep
<1>3. CASE /\ node' = Dropped(node, r.net) /\ artifact' = {q \in artifact : q.node \notin r.net}
           /\ Becomes(c, [r EXCEPT !.step = "blob_delete"])
  <2>1. client'[c].step = "blob_delete" /\ client'[c].keys = r.keys /\ client'[c].net = r.net
    BY <1>3 DEF Becomes, IInv, D1TypeOK, Locals
  <2>2. DOMAIN node' = DOMAIN node \ r.net
    BY <1>3 DEF Dropped
  <2>3. \A k \in r.keys : k[1] \in r.net \/ Past(k[1])'
    BY <1>1, PastStays DEF BytesInv, KeysRead
  <2>4. \A q \in artifact' : q.node \in DOMAIN node' /\ q.key \in r.keys => q.node \in r.net
    BY <1>1, <1>3, <2>2 DEF BytesInv, KeysRead
  <2>5. KeysRead(c)'
    BY <2>1, <2>2, <2>3, <2>4 DEF KeysRead
  <2>6. BytesPut(c)'
    BY <2>1 DEF BytesPut
  <2>7. QED BY <1>1, <1>3, <2>5, <2>6, QuietStep
<1>4. QED BY <1>2, <1>3 DEF Delete

(* The blobs that go are of no row that is left, nor of one to be recorded *)
(* for a work that is left.                                                *)
LEMMA BlobDeleteBytes ==
  ASSUME IInv, BytesInv, ~torn, NEW c \in Clients, BlobDelete(c)
  PROVE  BytesInv'
<1> DEFINE r == client[c]
<1>1. /\ r.step = "blob_delete" /\ UNCHANGED <<node, artifact>> /\ bytes' = bytes \ r.keys
      /\ Answer(c) /\ Step(c)
  BY DEF BlobDelete, At, Step
<1>2. KeysRead(c)' /\ BytesPut(c)'
  BY <1>1, AnswerEnds, NothingInHand
<1>3. KeysRead(c)
  BY DEF BytesInv
<1>4. ASSUME NEW d \in Clients, d # c PROVE KeysRead(d)' /\ BytesPut(d)'
  <2>1. client'[d] = client[d] /\ KeysRead(d) /\ BytesPut(d)
    BY <1>1, <1>4, OthersSame DEF BytesInv
  <2>2. ASSUME client[d].step = "record", client[d].cur \in DOMAIN node
        PROVE  Key(client[d]) \notin r.keys
    <3>1. client[d].op = "put_content"
      BY <2>2 DEF IInv, Shape
    <3>2. ~Past(client[d].cur)
      BY <2>2, <3>1 DEF Past, Uploads
    <3>3. client[d].cur \notin r.net
      BY <1>1, <1>3, <2>2 DEF KeysRead
    <3>4. Key(client[d])[1] = client[d].cur
      BY DEF Key
    <3>5. QED BY <1>1, <1>3, <3>2, <3>3, <3>4 DEF KeysRead
  <2>3. KeysRead(d)'
    BY <1>1, <2>1, KeysReadSame
  <2>4. BytesPut(d)'
    BY <1>1, <2>1, <2>2, BytesPutSame
  <2>5. QED BY <2>3, <2>4
<1>5. KeysKept'
  BY <1>1, KeysKeptSame DEF BytesInv
<1>6. ReachableRowsHaveBytes'
  BY <1>1, <1>3 DEF BytesInv, ReachableRowsHaveBytes, KeysRead
<1>7. QED BY <1>2, <1>4, <1>5, <1>6 DEF BytesInv

LEMMA BytesInvInductive ==
  ASSUME IInv, BytesInv, [D1Next]_d1Vars
  PROVE  BytesInv'
<1>1. torn => torn'
  BY DEF D1Next, Quiet, d1Vars, Request, GetAlias, Hop, Compress, MergeResolved, ReadVersion, BlobPut, RecordUpload,
         Network, SelectKeys, Delete, BlobDelete
<1>2. SUFFICES ASSUME ~torn, ~torn' PROVE BytesInv'
  BY <1>1 DEF BytesInv
<1>3. ASSUME NEW c \in Clients, Step(c) PROVE BytesInv'
  BY <1>2, <1>3, EarlyBytes, SelectKeysBytes, BlobPutBytes, RecordBytes, MergeBytes, DeleteBytes,
     BlobDeleteBytes DEF Step
<1>4. CASE UNCHANGED d1Vars
  BY <1>4 DEF d1Vars, BytesInv, KeysKept, ReachableRowsHaveBytes, KeysRead, BytesPut, Past, Uploads, Key
<1>5. QED BY <1>3, <1>4 DEF D1Next, Quiet, Step

LEMMA BytesInvInit ==
  ASSUME D1Init
  PROVE  BytesInv
<1>1. KeysKept /\ ReachableRowsHaveBytes
  BY DEF D1Init, KeysKept, ReachableRowsHaveBytes
<1>2. ASSUME NEW d \in Clients PROVE KeysRead(d) /\ BytesPut(d)
  <2>1. client[d].step = "free"
    BY DEF D1Init, Free
  <2>2. QED BY <2>1 DEF KeysRead, BytesPut
<1>3. QED BY <1>1, <1>2 DEF BytesInv

(* However uploads, deletes, merges and compressions interleave, the       *)
(* tables are whole: no cycle, no dangling redirect or alias, and no row   *)
(* of a work that is there without its bytes, as long as no merge moved    *)
(* rows that a delete or an upload had in hand.                            *)
THEOREM D1KeepsTables ==
  ASSUME Works \subseteq Ids, MaxRequests \in Nat
  PROVE  D1Spec => []D1TablesWhole
<1>1. IInv /\ BytesInv => D1TablesWhole
  BY DEF IInv, BytesInv, D1TablesWhole, ReachableRowsHaveBytes
<1>2. QED BY <1>1, InitInv, IInvInductive, BytesInvInit, BytesInvInductive, PTL DEF D1Spec
==============================================================================
