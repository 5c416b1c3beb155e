---------------------------- MODULE LibraryProofs ----------------------------
(***************************************************************************)
(* Theorems about Library, for any number of callers, works, roles and     *)
(* contents, and for both kinds of metadata store.                         *)
(***************************************************************************)
EXTENDS Library, RedirectsProofs, FiniteSetTheorems

(* What a use case has in hand at each step, and which one is at it. *)
Shape(r) ==
  /\ r.step \in {"resolve_live", "next_version", "blob_put", "record",
                 "current_artifact", "delete_network"} => r.cur \in Ids
  /\ r.step \in {"next_version", "blob_put", "record"} => r.op = "put_content"
  /\ r.step \in {"current_artifact", "blob_get"} => r.op = "get_content"
  /\ r.step \in {"delete_network", "blob_delete"} => r.op = "delete_work"

(* A put_content that has picked its version. *)
Picked(r) == r.step \in {"blob_put", "record"}

InFlight == {c \in Callers : req[c].step # "idle"}

(* Versions stay within the number of calls: no row is newer than u, no    *)
(* pick more than one newer, and each request in flight has a call of its  *)
(* own beyond the u that were needed to get to version u.                  *)
CountedTo(u) ==
  /\ \A r \in artifacts : r.version <= u
  /\ \A c \in Callers : Picked(req[c]) => req[c].version <= u + 1
  /\ u + Cardinality(InFlight) <= calls

IInv ==
  /\ TypeOK /\ Decreasing(merged_into)
  /\ \A c \in Callers : Shape(req[c])
  /\ \E u \in Nat : CountedTo(u)

LEMMA IdleRequest ==
  /\ Idle \in Requests /\ Shape(Idle) /\ Idle.step = "idle" /\ Idle.cur = NoId /\ Idle.keys = {}
  /\ ~Picked(Idle)
BY LibraryAssumption DEF Idle, Requests, Shape, Steps, Versions, Picked

LEMMA RequestFields ==
  ASSUME NEW r \in Requests
  PROVE  /\ r.op \in {"put_content", "get_content", "delete_work"} /\ r.step \in Steps
         /\ r.work \in Works /\ r.role \in Roles /\ r.body \in Bodies
         /\ r.cur \in Ids \union {NoId} /\ r.version \in Versions /\ r.keys \in SUBSET Keys
BY DEF Requests

LEMMA OneRequest ==
  ASSUME req \in [Callers -> Requests], NEW c \in Callers, NEW q, req' = [req EXCEPT ![c] = q]
  PROVE  req'[c] = q /\ \A d \in Callers : d # c => req'[d] = req[d]
OBVIOUS

(* The rows of a role, and the greatest of their versions. *)
LEMMA MaxProperty ==
  ASSUME NEW S \in SUBSET Nat, NEW x \in S, NEW u \in Nat, \A y \in S : y <= u
  PROVE  Max(S) \in S /\ \A y \in S : y <= Max(S)
<1> DEFINE U == {v \in Nat : \A y \in S : y <= v}
           m == Least(U)
<1>1. m \in U /\ \A v \in U : m <= v
  <2>1. U \in SUBSET Nat /\ U # {}
    OBVIOUS
  <2> HIDE DEF U
  <2>2. QED BY <2>1, LeastProperty
<1>2. m \in Nat /\ \A y \in S : y <= m
  BY <1>1
<1> HIDE DEF m
<1>3. m \in S
  <2> SUFFICES ASSUME m \notin S PROVE FALSE
    OBVIOUS
  <2>1. x \in Nat /\ x < m
    BY <1>2
  <2>2. m - 1 \in Nat
    BY <1>2, <2>1
  <2>3. \A y \in S : y <= m - 1
    <3>1. \A y \in Nat : y <= m /\ y # m => y <= m - 1
      BY <1>2
    <3>2. QED BY <1>2, <3>1
  <2>4. m <= m - 1
    BY <1>1, <2>2, <2>3
  <2>5. QED BY <1>2, <2>4
<1>4. \E y \in S : \A z \in S : y >= z
  BY <1>2, <1>3
<1>5. Max(S) \in S /\ \A z \in S : Max(S) >= z
  BY <1>4 DEF Max
<1>6. QED BY <1>5

LEMMA RowFields ==
  ASSUME IInv
  PROVE  \A r \in artifacts :
           /\ r \in Rows /\ r.node \in Ids /\ r.role \in Roles /\ r.version \in Versions
           /\ r.version \in Nat /\ r.key \in Keys /\ r.hash \in Bodies /\ r.current \in BOOLEAN
           /\ r.key.node \in Ids /\ r.node \in Nat /\ r.key.node \in Nat
<1>1. artifacts \subseteq Rows
  BY DEF IInv, TypeOK
<1>2. \A r \in Rows : /\ r.node \in Ids /\ r.role \in Roles /\ r.version \in Versions
                      /\ r.key \in Keys /\ r.hash \in Bodies /\ r.current \in BOOLEAN
  BY DEF Rows
<1>3. \A k \in Keys : k.node \in Ids
  BY DEF Keys
<1>4. Versions \subseteq Nat /\ Ids \subseteq Nat
  BY IdsAssumption, LibraryAssumption DEF Versions
<1>5. QED BY <1>1, <1>2, <1>3, <1>4

(* NEXT_VERSION is one more than every version of the role, and one more   *)
(* than one of them unless it is 1.                                        *)
LEMMA NextVersionProperty ==
  ASSUME IInv, NEW n, NEW role, NEW u \in Nat, \A r \in artifacts : r.version <= u
  PROVE  LET v == NextVersion(n, role)
         IN  /\ v \in Nat /\ v > 0 /\ v <= u + 1
             /\ \A r \in RowsOf(n, role) : r.version < v
             /\ v = 1 \/ \E r \in RowsOf(n, role) : r.version = v - 1
<1> DEFINE S == {0} \union {r.version : r \in RowsOf(n, role)}
<1>1. S \in SUBSET Nat /\ 0 \in S /\ \A y \in S : y <= u
  BY RowFields DEF RowsOf
<1>2. \A r \in RowsOf(n, role) : r.version \in S
  OBVIOUS
<1>3. \A y \in S : y = 0 \/ \E r \in RowsOf(n, role) : r.version = y
  OBVIOUS
<1>4. NextVersion(n, role) = 1 + Max(S)
  BY DEF NextVersion
<1> HIDE DEF S
<1>5. Max(S) \in S /\ \A y \in S : y <= Max(S)
  BY <1>1, MaxProperty
<1>6. Max(S) \in Nat /\ Max(S) <= u
  BY <1>1, <1>5
<1>7. \A r \in RowsOf(n, role) : r.version \in Nat /\ r.version <= Max(S)
  BY <1>1, <1>2, <1>5
<1>8. QED BY <1>3, <1>4, <1>5, <1>6, <1>7
------------------------------------------------------------------------------
(* What each action makes of its request. *)

SameCall(q, r) == q.op = r.op /\ q.work = r.work /\ q.role = r.role /\ q.body = r.body

LEMMA Goes ==
  ASSUME IInv, NEW c \in Callers, NEW q \in Requests, Shape(q), req' = [req EXCEPT ![c] = q]
  PROVE  /\ req' \in [Callers -> Requests] /\ \A d \in Callers : Shape(req'[d])
         /\ req'[c] = q /\ \A d \in Callers : d # c => req'[d] = req[d]
<1>1. req \in [Callers -> Requests] /\ \A d \in Callers : Shape(req[d])
  BY DEF IInv, TypeOK
<1>2. req'[c] = q /\ \A d \in Callers : d # c => req'[d] = req[d]
  BY <1>1, OneRequest
<1>3. req' \in [Callers -> Requests]
  BY <1>1
<1>4. QED BY <1>1, <1>2, <1>3

LEMMA Returns ==
  ASSUME IInv, NEW c \in Callers, Return(c)
  PROVE  /\ req' \in [Callers -> Requests] /\ \A d \in Callers : Shape(req'[d])
         /\ req'[c] = Idle /\ \A d \in Callers : d # c => req'[d] = req[d]
BY IdleRequest, Goes DEF Return

LEMMA BeginsFields ==
  ASSUME IInv, NEW c \in Callers, NEW op, Begins(c, op)
  PROVE  /\ req[c].step = "idle" /\ calls' = calls + 1 /\ calls' \in 0 .. MaxCalls
         /\ raced' \in BOOLEAN /\ clashed' \in BOOLEAN
         /\ ~raced' => ~raced /\ \A d \in Callers : req[d].step = "idle"
         /\ ~clashed' => /\ ~clashed
                         /\ op = "delete_work" => \A d \in Callers : req[d].step = "idle"
                         /\ \A d \in Callers : req[d].op = "delete_work" => req[d].step = "idle"
<1> DEFINE others == {d \in Callers \ {c} : req[d].step # "idle"}
           deletes == op = "delete_work" \/ \E d \in others : req[d].op = "delete_work"
<1>1. /\ req[c].step = "idle" /\ calls < MaxCalls /\ calls' = calls + 1
      /\ raced' = (raced \/ others # {})
      /\ clashed' = (clashed \/ (others # {} /\ deletes))
  BY DEF Begins
<1>2. calls' \in 0 .. MaxCalls
  BY <1>1, LibraryAssumption DEF IInv, TypeOK
<1>3. raced \in BOOLEAN /\ clashed \in BOOLEAN
  BY DEF IInv, TypeOK
<1>4. \A d \in Callers : d = c \/ d \in others \/ req[d].step = "idle"
  OBVIOUS
<1>5. others = {} => \A d \in Callers : req[d].step = "idle"
  BY <1>1, <1>4
<1>6. ASSUME ~clashed'
      PROVE  /\ ~clashed
             /\ op = "delete_work" => \A d \in Callers : req[d].step = "idle"
             /\ \A d \in Callers : req[d].op = "delete_work" => req[d].step = "idle"
  BY <1>1, <1>4, <1>5, <1>6
<1>7. QED BY <1>1, <1>2, <1>3, <1>5, <1>6

Calls(c) == CallPutContent(c) \/ CallGetContent(c) \/ CallDeleteWork(c)

LEMMA CallFields ==
  ASSUME IInv, NEW c \in Callers, Calls(c)
  PROVE  \E op \in {"put_content", "get_content", "delete_work"} :
           /\ Begins(c, op)
           /\ req' \in [Callers -> Requests] /\ \A d \in Callers : Shape(req'[d])
           /\ req'[c].step = "get_alias" /\ req'[c].op = op
           /\ \A d \in Callers : d # c => req'[d] = req[d]
           /\ UNCHANGED <<catalog, artifacts, blob, batched, failures>>
<1>1. PICK op \in {"put_content", "get_content", "delete_work"},
           w \in Works, role \in Roles, body \in Bodies : Call(c, op, w, role, body)
  <2>1. Idle.role \in Roles /\ Idle.body \in Bodies
    BY IdleRequest, RequestFields
  <2>2. CASE CallPutContent(c)
    BY <2>2, LibraryAssumption DEF CallPutContent
  <2>3. CASE CallGetContent(c)
    BY <2>1, <2>3, LibraryAssumption DEF CallGetContent
  <2>4. CASE CallDeleteWork(c)
    BY <2>1, <2>4, LibraryAssumption DEF CallDeleteWork
  <2>5. QED BY <2>2, <2>3, <2>4 DEF Calls
<1> DEFINE q == [Idle EXCEPT !.op = op, !.step = "get_alias", !.work = w,
                             !.role = role, !.body = body]
<1>2. q \in Requests /\ q.step = "get_alias" /\ q.op = op
  BY IdleRequest DEF Requests, Steps
<1>3. Shape(q)
  BY <1>2 DEF Shape
<1>4. req' = [req EXCEPT ![c] = q] /\ Begins(c, op)
      /\ UNCHANGED <<catalog, artifacts, blob, batched, failures>>
  BY <1>1 DEF Call
<1> HIDE DEF q
<1>5. QED BY <1>2, <1>3, <1>4, Goes

LEMMA GetAliasFields ==
  ASSUME IInv, NEW c \in Callers, GetAlias(c)
  PROVE  LET r == req[c]
             q == req'[c]
         IN  /\ req' \in [Callers -> Requests] /\ \A d \in Callers : Shape(req'[d])
             /\ \A d \in Callers : d # c => req'[d] = req[d]
             /\ r.step = "get_alias"
             /\ UNCHANGED <<catalog, artifacts, blob, batched, calls, failures, history>>
             /\ \/ q = Idle
                \/ /\ SameCall(q, r) /\ q.step = "resolve_live"
                   /\ q.cur = alias[r.work] /\ q.cur \in Ids
<1> DEFINE r == req[c]
           q == [r EXCEPT !.step = "resolve_live", !.cur = alias[r.work]]
<1>1. r \in Requests /\ r.work \in Works /\ alias[r.work] \in Ids \union {NoId}
  <2>1. r \in Requests
    BY DEF IInv, TypeOK
  <2>2. QED BY <2>1, RequestFields DEF IInv, TypeOK
<1>2. /\ r.step = "get_alias"
      /\ UNCHANGED <<catalog, artifacts, blob, batched, calls, failures, history>>
  BY DEF GetAlias
<1>3. CASE alias[r.work] = NoId
  BY <1>2, <1>3, Returns DEF GetAlias
<1>4. CASE alias[r.work] # NoId
  <2>1. alias[r.work] \in Ids
    BY <1>1, <1>4
  <2>2. /\ q \in Requests /\ SameCall(q, r)
        /\ q.step = "resolve_live" /\ q.cur = alias[r.work]
    BY <1>1, <2>1 DEF Requests, Steps, SameCall
  <2>3. Shape(q)
    BY <2>1, <2>2 DEF Shape
  <2>4. req' = [req EXCEPT ![c] = q]
    BY <1>4 DEF GetAlias
  <2> HIDE DEF q
  <2>5. QED BY <1>2, <2>1, <2>2, <2>3, <2>4, Goes
<1>5. QED BY <1>3, <1>4

LEMMA ResolveLiveFields ==
  ASSUME IInv, NEW c \in Callers, ResolveLive(c)
  PROVE  LET r == req[c]
             q == req'[c]
         IN  /\ req' \in [Callers -> Requests] /\ \A d \in Callers : Shape(req'[d])
             /\ \A d \in Callers : d # c => req'[d] = req[d]
             /\ r.step = "resolve_live" /\ r.cur \in Ids
             /\ UNCHANGED <<nodes, alias, artifacts, blob, batched, calls, failures, history>>
             /\ \/ q = Idle /\ UNCHANGED merged_into
                \/ /\ SameCall(q, r) /\ q.cur = Root(merged_into, r.cur) /\ q.cur \in Ids
                   /\ q.step = CASE r.op = "put_content" -> "next_version"
                                 [] r.op = "get_content" -> "current_artifact"
                                 [] OTHER -> "delete_network"
                   /\ Chain(merged_into, r.cur) \subseteq nodes
                   /\ merged_into' = Compressed(merged_into, r.cur)
<1> DEFINE r == req[c]
           next == CASE r.op = "put_content" -> "next_version"
                     [] r.op = "get_content" -> "current_artifact"
                     [] OTHER -> "delete_network"
           q == [r EXCEPT !.step = next, !.cur = Root(merged_into, r.cur)]
<1>1. /\ r \in Requests /\ Shape(r) /\ merged_into \in Redirection /\ Decreasing(merged_into)
      /\ r.op \in {"put_content", "get_content", "delete_work"}
  <2>1. r \in Requests
    BY DEF IInv, TypeOK
  <2>2. QED BY <2>1, RequestFields DEF IInv, TypeOK
<1>2. /\ r.step = "resolve_live"
      /\ UNCHANGED <<nodes, alias, artifacts, blob, batched, calls, failures, history>>
  BY DEF ResolveLive
<1>3. r.cur \in Ids
  BY <1>1, <1>2 DEF Shape
<1>4. CASE ~(Chain(merged_into, r.cur) \subseteq nodes)
  <2>1. Return(c) /\ UNCHANGED merged_into
    BY <1>4 DEF ResolveLive
  <2>2. QED BY <1>2, <1>3, <2>1, Returns
<1>5. CASE Chain(merged_into, r.cur) \subseteq nodes
  <2>1. Root(merged_into, r.cur) \in Ids
    BY <1>1, <1>3, RootLive
  <2>2. next \in Steps
    BY <1>1 DEF Steps
  <2>3. req' = [req EXCEPT ![c] = q] /\ merged_into' = Compressed(merged_into, r.cur)
    BY <1>5 DEF ResolveLive
  <2>4. \/ r.op = "put_content" /\ next = "next_version"
        \/ r.op = "get_content" /\ next = "current_artifact"
        \/ r.op = "delete_work" /\ next = "delete_network"
    BY <1>1
  <2> HIDE DEF next
  <2>5. q \in Requests /\ SameCall(q, r) /\ q.step = next /\ q.cur = Root(merged_into, r.cur)
    BY <1>1, <2>1, <2>2 DEF Requests, SameCall
  <2>6. Shape(q)
    <3> HIDE DEF q
    <3> QED BY <2>1, <2>4, <2>5 DEF Shape, SameCall
  <2> HIDE DEF q
  <2>7. /\ req' \in [Callers -> Requests] /\ \A d \in Callers : Shape(req'[d])
        /\ req'[c] = q /\ \A d \in Callers : d # c => req'[d] = req[d]
    BY <2>3, <2>5, <2>6, Goes
  <2>8. QED BY <1>2, <1>3, <1>5, <2>1, <2>3, <2>5, <2>7 DEF next
<1>6. QED BY <1>4, <1>5

LEMMA PickVersionFields ==
  ASSUME IInv, NEW c \in Callers, PickVersion(c)
  PROVE  LET r == req[c]
             q == req'[c]
         IN  /\ req' \in [Callers -> Requests] /\ \A d \in Callers : Shape(req'[d])
             /\ \A d \in Callers : d # c => req'[d] = req[d]
             /\ r.step = "next_version" /\ r.cur \in Ids
             /\ UNCHANGED <<catalog, artifacts, blob, batched, calls, failures, history>>
             /\ SameCall(q, r) /\ q.step = "blob_put" /\ q.cur = r.cur
             /\ q.version = NextVersion(r.cur, r.role)
             /\ \E u \in Nat : CountedTo(u) /\ q.version <= u + 1
<1> DEFINE r == req[c]
           v == NextVersion(r.cur, r.role)
           q == [r EXCEPT !.step = "blob_put", !.version = v]
<1>1. r \in Requests /\ Shape(r)
  BY DEF IInv, TypeOK
<1>2. /\ r.step = "next_version" /\ req' = [req EXCEPT ![c] = q]
      /\ UNCHANGED <<catalog, artifacts, blob, batched, calls, failures, history>>
  BY DEF PickVersion
<1>3. r.cur \in Ids /\ r.op = "put_content"
  BY <1>1, <1>2 DEF Shape
<1>4. PICK u \in Nat : CountedTo(u)
  BY DEF IInv
<1>5. v \in Nat /\ v > 0 /\ v <= u + 1
  BY <1>4, NextVersionProperty DEF CountedTo
<1> HIDE DEF v
<1>6. v \in Versions
  <2>1. IsFiniteSet(InFlight) /\ Cardinality(InFlight) \in Nat /\ InFlight # {}
    <3>1. c \in InFlight
      BY <1>2 DEF InFlight
    <3>2. IsFiniteSet(InFlight)
      BY LibraryAssumption, FS_Subset DEF InFlight
    <3>3. QED BY <3>1, <3>2, FS_CardinalityType
  <2>2. Cardinality(InFlight) # 0
    BY <2>1, FS_EmptySet
  <2>3. calls \in Nat /\ calls <= MaxCalls /\ MaxCalls \in Nat
    BY LibraryAssumption DEF IInv, TypeOK
  <2>4. u + Cardinality(InFlight) <= calls
    BY <1>4 DEF CountedTo
  <2>5. QED BY <1>5, <2>1, <2>2, <2>3, <2>4 DEF Versions
<1>7. q \in Requests /\ SameCall(q, r) /\ q.step = "blob_put" /\ q.cur = r.cur /\ q.version = v
  BY <1>1, <1>6 DEF Requests, Steps, SameCall
<1>8. Shape(q)
  <2> HIDE DEF q
  <2> QED BY <1>3, <1>7 DEF Shape, SameCall
<1> HIDE DEF q
<1>9. /\ req' \in [Callers -> Requests] /\ \A d \in Callers : Shape(req'[d])
      /\ req'[c] = q /\ \A d \in Callers : d # c => req'[d] = req[d]
  BY <1>2, <1>7, <1>8, Goes
<1>10. QED BY <1>2, <1>3, <1>4, <1>5, <1>7, <1>9 DEF v

LEMMA KeyType ==
  ASSUME NEW r \in Requests, r.cur \in Ids
  PROVE  /\ KeyOf(r) \in Keys /\ KeyOf(r).node = r.cur /\ KeyOf(r).role = r.role
         /\ KeyOf(r).version = r.version
BY DEF KeyOf, Keys, Requests

LEMMA BlobPutFields ==
  ASSUME IInv, NEW c \in Callers, BlobPut(c)
  PROVE  LET r == req[c]
             q == req'[c]
         IN  /\ req' \in [Callers -> Requests] /\ \A d \in Callers : Shape(req'[d])
             /\ \A d \in Callers : d # c => req'[d] = req[d]
             /\ r.step = "blob_put" /\ r.cur \in Ids /\ r.op = "put_content" /\ KeyOf(r) \in Keys
             /\ UNCHANGED <<catalog, artifacts, batched, calls, failures, history>>
             /\ blob' = [blob EXCEPT ![KeyOf(r)] = r.body] /\ r.body \in Bodies
             /\ SameCall(q, r) /\ q.step = "record" /\ q.cur = r.cur /\ q.version = r.version
<1> DEFINE r == req[c]
           q == [r EXCEPT !.step = "record"]
<1>1. r \in Requests /\ Shape(r) /\ r.body \in Bodies
  <2>1. r \in Requests /\ Shape(r)
    BY DEF IInv, TypeOK
  <2>2. QED BY <2>1, RequestFields
<1>2. /\ r.step = "blob_put" /\ req' = [req EXCEPT ![c] = q]
      /\ UNCHANGED <<catalog, artifacts, batched, calls, failures, history>>
      /\ blob' = [blob EXCEPT ![KeyOf(r)] = r.body]
  BY DEF BlobPut, Goto, IInv, TypeOK
<1>3. r.cur \in Ids /\ r.op = "put_content" /\ KeyOf(r) \in Keys
  BY <1>1, <1>2, KeyType DEF Shape
<1>4. /\ q \in Requests /\ SameCall(q, r) /\ q.step = "record" /\ q.cur = r.cur
      /\ q.version = r.version
  BY <1>1 DEF Requests, Steps, SameCall
<1>5. Shape(q)
  <2> HIDE DEF q
  <2> QED BY <1>3, <1>4 DEF Shape, SameCall
<1> HIDE DEF q
<1>6. /\ req' \in [Callers -> Requests] /\ \A d \in Callers : Shape(req'[d])
      /\ req'[c] = q /\ \A d \in Callers : d # c => req'[d] = req[d]
  BY <1>2, <1>4, <1>5, Goes
<1>7. QED BY <1>1, <1>2, <1>3, <1>4, <1>6

(* A row and what FLIP_CURRENT_OFF or a merge leaves of it. *)
SameBytes(x, o) == x.role = o.role /\ x.version = o.version /\ x.key = o.key /\ x.hash = o.hash

LEMMA FlippedRows ==
  ASSUME IInv, NEW n, NEW role
  PROVE  /\ \A x \in Flipped(n, role) : x \in Rows /\ \E o \in artifacts :
              /\ SameBytes(x, o) /\ x.node = o.node
              /\ IF o \in RowsOf(n, role) THEN ~x.current ELSE x = o
         /\ \A o \in artifacts : \E x \in Flipped(n, role) :
              /\ SameBytes(x, o) /\ x.node = o.node
              /\ o \notin RowsOf(n, role) => x = o
<1>1. ASSUME NEW o \in artifacts
      PROVE  LET x == [o EXCEPT !.current = FALSE]
             IN  x \in Rows /\ SameBytes(x, o) /\ x.node = o.node /\ ~x.current
  <2>1. o \in Rows
    BY RowFields
  <2>2. QED BY <2>1 DEF Rows, SameBytes
<1>2. \A x \in Flipped(n, role) :
        \/ x \in artifacts \ RowsOf(n, role)
        \/ \E o \in RowsOf(n, role) : x = [o EXCEPT !.current = FALSE]
  BY DEF Flipped
<1>3. \A o \in RowsOf(n, role) : o \in artifacts /\ [o EXCEPT !.current = FALSE] \in Flipped(n, role)
  BY DEF Flipped, RowsOf
<1>4. \A o \in artifacts : o \notin RowsOf(n, role) => o \in Flipped(n, role)
  BY DEF Flipped
<1>5. \A o : SameBytes(o, o)
  BY DEF SameBytes
<1>6. ASSUME NEW x \in Flipped(n, role)
      PROVE  x \in Rows /\ \E o \in artifacts :
              /\ SameBytes(x, o) /\ x.node = o.node
              /\ IF o \in RowsOf(n, role) THEN ~x.current ELSE x = o
  <2>1. CASE x \in artifacts \ RowsOf(n, role)
    BY <1>5, <2>1, RowFields
  <2>2. CASE \E o \in RowsOf(n, role) : x = [o EXCEPT !.current = FALSE]
    BY <1>1, <1>3, <2>2
  <2>3. QED BY <1>2, <2>1, <2>2
<1>7. ASSUME NEW o \in artifacts
      PROVE  \E x \in Flipped(n, role) :
              /\ SameBytes(x, o) /\ x.node = o.node
              /\ o \notin RowsOf(n, role) => x = o
  <2>1. CASE o \in RowsOf(n, role)
    BY <1>1, <1>3, <2>1
  <2>2. CASE o \notin RowsOf(n, role)
    BY <1>4, <1>5, <2>2
  <2>3. QED BY <2>1, <2>2
<1>8. QED BY <1>6, <1>7

(* A merge takes the loser's rows over unless their version is taken, and  *)
(* none of them as the current one where the survivor has one.             *)
LEMMA FoldedRows ==
  ASSUME IInv, NEW s \in Ids, NEW l \in Ids
  PROVE  /\ \A x \in ArtifactsFolded(s, l) : x \in Rows /\ \E o \in artifacts :
              /\ SameBytes(x, o)
              /\ IF o.node # l THEN x = o
                 ELSE /\ x.node = s /\ \A q \in RowsOf(s, o.role) : q.version # o.version
                      /\ x.current = (o.current /\ ~\E q \in RowsOf(s, o.role) : q.current)
         /\ \A o \in artifacts : o.node # l => o \in ArtifactsFolded(s, l)
         /\ \A o \in artifacts :
              o.node = l /\ (\A q \in RowsOf(s, o.role) : q.version # o.version)
              => \E x \in ArtifactsFolded(s, l) :
                   /\ SameBytes(x, o) /\ x.node = s
                   /\ o.current /\ (\A q \in RowsOf(s, o.role) : ~q.current) => x.current
<1> DEFINE demoted(role) == \E q \in RowsOf(s, role) : q.current
           taken(r) == \E q \in RowsOf(s, r.role) : q.version = r.version
           moved(r) == [r EXCEPT !.node = s, !.current = @ /\ ~demoted(r.role)]
<1>1. ASSUME NEW o \in artifacts
      PROVE  /\ moved(o) \in Rows /\ SameBytes(moved(o), o) /\ moved(o).node = s
             /\ moved(o).current = (o.current /\ ~demoted(o.role))
  <2>1. o \in Rows
    BY RowFields
  <2> HIDE DEF demoted
  <2>2. QED BY <2>1 DEF Rows, SameBytes
<1>2. ArtifactsFolded(s, l) =
        {r \in artifacts : r.node # l}
          \union {moved(r) : r \in {q \in artifacts : q.node = l /\ ~taken(q)}}
  BY DEF ArtifactsFolded
<1>3. \A o : SameBytes(o, o)
  BY DEF SameBytes
<1> HIDE DEF moved
<1>4. ASSUME NEW x \in ArtifactsFolded(s, l)
      PROVE  x \in Rows /\ \E o \in artifacts :
              /\ SameBytes(x, o)
              /\ IF o.node # l THEN x = o
                 ELSE /\ x.node = s /\ \A q \in RowsOf(s, o.role) : q.version # o.version
                      /\ x.current = (o.current /\ ~\E q \in RowsOf(s, o.role) : q.current)
  <2>1. CASE x \in artifacts /\ x.node # l
    BY <1>3, <2>1, RowFields
  <2>2. CASE \E o \in artifacts : o.node = l /\ ~taken(o) /\ x = moved(o)
    <3>1. PICK o \in artifacts : o.node = l /\ ~taken(o) /\ x = moved(o)
      BY <2>2
    <3>2. x.current = (o.current /\ ~demoted(o.role))
      BY <1>1, <3>1
    <3>3. QED BY <1>1, <3>1, <3>2
  <2>3. QED BY <1>2, <2>1, <2>2
<1>5. ASSUME NEW o \in artifacts, o.node = l, ~taken(o)
      PROVE  \E x \in ArtifactsFolded(s, l) :
               /\ SameBytes(x, o) /\ x.node = s
               /\ o.current /\ (\A q \in RowsOf(s, o.role) : ~q.current) => x.current
  BY <1>1, <1>2, <1>5
<1>6. QED BY <1>2, <1>4, <1>5

NewRow(r) == [node |-> r.cur, role |-> r.role, version |-> r.version,
              key |-> KeyOf(r), hash |-> r.body, current |-> TRUE]

LEMMA NewRowFields ==
  ASSUME NEW r \in Requests, r.cur \in Ids
  PROVE  LET x == NewRow(r)
         IN  /\ x \in Rows /\ x.node = r.cur /\ x.role = r.role /\ x.version = r.version
             /\ x.key = KeyOf(r) /\ x.hash = r.body /\ x.current
<1>1. KeyOf(r) \in Keys
  BY KeyType
<1>2. QED BY <1>1 DEF NewRow, Rows, Requests

LEMMA RecordFields ==
  ASSUME IInv, NEW c \in Callers, Record(c) \/ TornRecord(c)
  PROVE  LET r == req[c]
             free == \A q \in RowsOf(r.cur, r.role) : q.version # r.version
         IN  /\ req' \in [Callers -> Requests] /\ \A d \in Callers : Shape(req'[d])
             /\ req'[c] = Idle /\ \A d \in Callers : d # c => req'[d] = req[d]
             /\ r.step = "record" /\ r.cur \in Ids /\ r.op = "put_content" /\ r \in Requests
             /\ UNCHANGED <<catalog, blob, batched, calls, history>>
             /\ failures' \in 0 .. MaxFailures /\ (failures' = 0 => failures = 0)
             /\ \/ /\ free /\ artifacts' = Flipped(r.cur, r.role) \union {NewRow(r)}
                   /\ failures' = failures
                \/ ~free /\ batched /\ UNCHANGED artifacts
                \/ /\ ~batched /\ artifacts' = Flipped(r.cur, r.role)
                   /\ free => failures' = failures + 1
<1> DEFINE r == req[c]
           free == \A q \in RowsOf(r.cur, r.role) : q.version # r.version
<1>1. /\ r.step = "record" /\ Return(c)
      /\ UNCHANGED <<catalog, blob, batched, calls, history>>
  BY DEF Record, TornRecord
<1>2. r \in Requests /\ r.cur \in Ids /\ r.op = "put_content"
  BY <1>1 DEF IInv, TypeOK, Shape
<1>3. failures \in 0 .. MaxFailures
  BY DEF IInv, TypeOK
<1>4. /\ failures' \in 0 .. MaxFailures /\ (failures' = 0 => failures = 0)
      /\ \/ /\ free /\ artifacts' = Flipped(r.cur, r.role) \union {NewRow(r)}
            /\ failures' = failures
         \/ ~free /\ batched /\ UNCHANGED artifacts
         \/ /\ ~batched /\ artifacts' = Flipped(r.cur, r.role)
            /\ free => failures' = failures + 1
  <2>1. CASE Record(c)
    <3>1. UNCHANGED failures
      BY <2>1 DEF Record
    <3>2. artifacts' = IF free THEN Flipped(r.cur, r.role) \union {NewRow(r)}
                       ELSE IF batched THEN artifacts ELSE Flipped(r.cur, r.role)
      BY <2>1 DEF Record, NewRow
    <3>3. batched \in BOOLEAN
      BY DEF IInv, TypeOK
    <3> HIDE DEF free
    <3>4. QED BY <1>3, <3>1, <3>2, <3>3
  <2>2. CASE TornRecord(c)
    <3>1. /\ ~batched /\ artifacts' = Flipped(r.cur, r.role)
          /\ failures < MaxFailures /\ failures' = failures + 1
      BY <2>2 DEF TornRecord
    <3> HIDE DEF free
    <3>2. QED BY <1>3, <3>1, LibraryAssumption
  <2>3. QED BY <2>1, <2>2
<1>5. QED BY <1>1, <1>2, <1>4, Returns

LEMMA CurrentArtifactFields ==
  ASSUME IInv, NEW c \in Callers, CurrentArtifact(c)
  PROVE  LET r == req[c]
             q == req'[c]
         IN  /\ req' \in [Callers -> Requests] /\ \A d \in Callers : Shape(req'[d])
             /\ \A d \in Callers : d # c => req'[d] = req[d]
             /\ r.step = "current_artifact" /\ r.cur \in Ids
             /\ UNCHANGED <<catalog, artifacts, blob, batched, calls, failures, history>>
             /\ \/ q = Idle
                \/ /\ SameCall(q, r) /\ q.step = "blob_get" /\ q.op = "get_content"
                   /\ \E o \in artifacts : q.keys = {o.key}
<1> DEFINE r == req[c]
<1>1. r \in Requests /\ Shape(r)
  BY DEF IInv, TypeOK
<1>2. /\ r.step = "current_artifact"
      /\ UNCHANGED <<catalog, artifacts, blob, batched, calls, failures, history>>
      /\ \/ Return(c)
         \/ \E o \in RowsOf(r.cur, r.role) :
              req' = [req EXCEPT ![c] = [r EXCEPT !.step = "blob_get", !.keys = {o.key}]]
  BY DEF CurrentArtifact
<1>3. r.cur \in Ids /\ r.op = "get_content"
  BY <1>1, <1>2 DEF Shape
<1>4. CASE Return(c)
  BY <1>2, <1>3, <1>4, Returns
<1>5. ASSUME NEW o \in artifacts,
             req' = [req EXCEPT ![c] = [r EXCEPT !.step = "blob_get", !.keys = {o.key}]]
      PROVE  /\ req' \in [Callers -> Requests] /\ \A d \in Callers : Shape(req'[d])
             /\ \A d \in Callers : d # c => req'[d] = req[d]
             /\ SameCall(req'[c], r) /\ req'[c].step = "blob_get" /\ req'[c].op = "get_content"
             /\ req'[c].keys = {o.key}
  <2> DEFINE q == [r EXCEPT !.step = "blob_get", !.keys = {o.key}]
  <2>1. o.key \in Keys
    BY RowFields
  <2>2. /\ q \in Requests /\ SameCall(q, r) /\ q.step = "blob_get" /\ q.keys = {o.key}
        /\ q.op = r.op
    BY <1>1, <2>1 DEF Requests, Steps, SameCall
  <2>3. Shape(q)
    <3> HIDE DEF q
    <3> QED BY <1>3, <2>2 DEF Shape
  <2>4. req' = [req EXCEPT ![c] = q]
    BY <1>5
  <2> HIDE DEF q
  <2>5. QED BY <1>3, <2>2, <2>3, <2>4, Goes
<1>6. QED BY <1>2, <1>3, <1>4, <1>5 DEF RowsOf

(* BlobGet ends the call, and so does a failure anywhere. *)
LEMMA EndFields ==
  ASSUME IInv, NEW c \in Callers, BlobGet(c) \/ Fail(c)
  PROVE  /\ req' \in [Callers -> Requests] /\ \A d \in Callers : Shape(req'[d])
         /\ req'[c] = Idle /\ \A d \in Callers : d # c => req'[d] = req[d]
         /\ req[c].step # "idle"
         /\ UNCHANGED <<catalog, artifacts, blob, batched, calls, history>>
         /\ failures' \in 0 .. MaxFailures /\ (failures' = 0 => failures = 0)
         /\ BlobGet(c) \/ failures' # 0
<1>1. failures \in 0 .. MaxFailures
  BY DEF IInv, TypeOK
<1>2. CASE BlobGet(c)
  BY <1>1, <1>2, Returns DEF BlobGet
<1>3. CASE Fail(c)
  BY <1>1, <1>3, Returns, LibraryAssumption DEF Fail
<1>4. QED BY <1>2, <1>3

LEMMA DeleteNetworkFields ==
  ASSUME IInv, NEW c \in Callers, DeleteNetwork(c)
  PROVE  LET r == req[c]
             q == req'[c]
             net == NetworkOf(merged_into, nodes, r.cur)
         IN  /\ req' \in [Callers -> Requests] /\ \A d \in Callers : Shape(req'[d])
             /\ \A d \in Callers : d # c => req'[d] = req[d]
             /\ r.step = "delete_network" /\ r.cur \in Ids /\ r.op = "delete_work"
             /\ r.cur \in net
             /\ UNCHANGED <<blob, batched, calls, failures, history>>
             /\ nodes' = nodes \ net
             /\ merged_into' = [n \in Ids |-> IF n \in net THEN NoId ELSE merged_into[n]]
             /\ alias' = [w \in Works |-> IF alias[w] \in net THEN NoId ELSE alias[w]]
             /\ artifacts' = {o \in artifacts : o.node \notin net}
             /\ \/ q = Idle /\ \A o \in artifacts : o.node \notin net
                \/ /\ SameCall(q, r) /\ q.step = "blob_delete"
                   /\ \A k \in q.keys : \E o \in artifacts : o.node \in net /\ o.key = k
                   /\ \A o \in artifacts : o.node \in net => o.key \in q.keys
<1> DEFINE r == req[c]
           net == NetworkOf(merged_into, nodes, r.cur)
           keys == {o.key : o \in {p \in artifacts : p.node \in net}}
           q == [r EXCEPT !.step = "blob_delete", !.keys = keys]
<1>1. r \in Requests /\ Shape(r)
  BY DEF IInv, TypeOK
<1>2. /\ r.step = "delete_network"
      /\ UNCHANGED <<blob, batched, calls, failures, history>>
      /\ nodes' = nodes \ net
      /\ merged_into' = [n \in Ids |-> IF n \in net THEN NoId ELSE merged_into[n]]
      /\ alias' = [w \in Works |-> IF alias[w] \in net THEN NoId ELSE alias[w]]
      /\ artifacts' = {o \in artifacts : o.node \notin net}
      /\ IF keys = {} THEN Return(c) ELSE req' = [req EXCEPT ![c] = q]
  BY DEF DeleteNetwork, IInv, TypeOK
<1>3. r.cur \in Ids /\ r.op = "delete_work"
  BY <1>1, <1>2 DEF Shape
<1>4. r.cur \in net
  BY DEF NetworkOf
<1> HIDE DEF net
<1>5. CASE keys = {}
  <2>1. \A o \in artifacts : o.node \notin net
    BY <1>5
  <2>2. Return(c)
    BY <1>2, <1>5
  <2>3. QED BY <1>2, <1>3, <1>4, <2>1, <2>2, Returns DEF net
<1>6. CASE keys # {}
  <2>1. keys \in SUBSET Keys
    BY RowFields
  <2>2. /\ \A k \in keys : \E o \in artifacts : o.node \in net /\ o.key = k
        /\ \A o \in artifacts : o.node \in net => o.key \in keys
    OBVIOUS
  <2> HIDE DEF keys
  <2>3. q \in Requests /\ SameCall(q, r) /\ q.step = "blob_delete" /\ q.keys = keys
    BY <1>1, <2>1 DEF Requests, Steps, SameCall
  <2>4. Shape(q)
    <3> HIDE DEF q
    <3> QED BY <1>3, <2>3 DEF Shape, SameCall
  <2>5. req' = [req EXCEPT ![c] = q]
    BY <1>2, <1>6
  <2> HIDE DEF q
  <2>6. /\ req' \in [Callers -> Requests] /\ \A d \in Callers : Shape(req'[d])
        /\ req'[c] = q /\ \A d \in Callers : d # c => req'[d] = req[d]
    BY <2>3, <2>4, <2>5, Goes
  <2>7. QED BY <1>2, <1>3, <1>4, <2>2, <2>3, <2>6 DEF net
<1>7. QED BY <1>5, <1>6

LEMMA BlobDeleteFields ==
  ASSUME IInv, NEW c \in Callers, BlobDelete(c)
  PROVE  LET r == req[c]
             q == req'[c]
         IN  /\ req' \in [Callers -> Requests] /\ \A d \in Callers : Shape(req'[d])
             /\ \A d \in Callers : d # c => req'[d] = req[d]
             /\ r.step = "blob_delete" /\ r.op = "delete_work"
             /\ UNCHANGED <<catalog, artifacts, batched, calls, history>>
             /\ failures' \in 0 .. MaxFailures /\ (failures' = 0 => failures = 0)
             /\ \E k \in r.keys :
                  /\ k \in Keys
                  /\ \/ blob' = [blob EXCEPT ![k] = NoBody]
                     \/ UNCHANGED blob /\ failures' # 0
                  /\ \/ q = Idle /\ r.keys = {k}
                     \/ SameCall(q, r) /\ q.step = "blob_delete" /\ q.keys = r.keys \ {k}
<1> DEFINE r == req[c]
<1>1. r \in Requests /\ Shape(r)
  BY DEF IInv, TypeOK
<1>2. PICK k \in r.keys :
        /\ \/ blob' = [blob EXCEPT ![k] = NoBody] /\ UNCHANGED failures
           \/ failures < MaxFailures /\ failures' = failures + 1 /\ UNCHANGED blob
        /\ IF r.keys = {k} THEN Return(c)
           ELSE req' = [req EXCEPT ![c] = [r EXCEPT !.keys = @ \ {k}]]
  BY DEF BlobDelete
<1>3. r.step = "blob_delete" /\ UNCHANGED <<catalog, artifacts, batched, calls, history>>
  BY DEF BlobDelete
<1>4. r.op = "delete_work" /\ k \in Keys /\ r.keys \in SUBSET Keys
  BY <1>1, <1>3, RequestFields DEF Shape
<1>5. /\ failures' \in 0 .. MaxFailures /\ (failures' = 0 => failures = 0)
      /\ \/ blob' = [blob EXCEPT ![k] = NoBody]
         \/ UNCHANGED blob /\ failures' # 0
  BY <1>2, LibraryAssumption DEF IInv, TypeOK
<1>6. CASE r.keys = {k}
  BY <1>2, <1>3, <1>4, <1>5, <1>6, Returns
<1>7. CASE r.keys # {k}
  <2> DEFINE left == r.keys \ {k}
             q == [r EXCEPT !.keys = left]
  <2>0. left \in SUBSET Keys
    BY <1>4
  <2> HIDE DEF left
  <2>1. q \in Requests /\ SameCall(q, r) /\ q.step = "blob_delete" /\ q.keys = left
    BY <1>1, <1>3, <2>0 DEF Requests, SameCall
  <2>2. Shape(q)
    <3> HIDE DEF q
    <3> QED BY <1>4, <2>1 DEF Shape, SameCall
  <2>3. req' = [req EXCEPT ![c] = q]
    BY <1>2, <1>7 DEF left
  <2> HIDE DEF q
  <2>4. /\ req' \in [Callers -> Requests] /\ \A d \in Callers : Shape(req'[d])
        /\ req'[c] = q /\ \A d \in Callers : d # c => req'[d] = req[d]
    BY <2>1, <2>2, <2>3, Goes
  <2>5. QED BY <1>3, <1>4, <1>5, <2>1, <2>4 DEF left
<1>8. QED BY <1>6, <1>7

LEMMA MergeFields ==
  ASSUME IInv, NEW c \in Callers, Merge(c)
  PROVE  /\ Begins(c, "put_work") /\ UNCHANGED <<nodes, blob, batched, req, failures>>
         /\ \E s, l \in Ids :
              /\ <<s, l>> \in Bridges /\ s < l /\ s \in nodes /\ l \in nodes
              /\ merged_into[s] = NoId /\ merged_into[l] = NoId
              /\ merged_into' = [merged_into EXCEPT ![l] = s]
              /\ alias' = [w \in Works |-> IF alias[w] = l THEN s ELSE alias[w]]
              /\ artifacts' = ArtifactsFolded(s, l)
<1>1. Begins(c, "put_work") /\ UNCHANGED <<nodes, blob, batched, req, failures>>
  BY DEF Merge
<1>2. PICK b \in Bridges :
        /\ {b[1], b[2]} \subseteq nodes
        /\ merged_into[b[1]] = NoId /\ merged_into[b[2]] = NoId
        /\ merged_into' = [merged_into EXCEPT ![b[2]] = b[1]]
        /\ alias' = [w \in Works |-> IF alias[w] = b[2] THEN b[1] ELSE alias[w]]
        /\ artifacts' = ArtifactsFolded(b[1], b[2])
  BY DEF Merge
<1>3. b[1] \in Ids /\ b[2] \in Ids /\ b = <<b[1], b[2]>> /\ b[1] < b[2]
  BY LibraryAssumption
<1>4. QED BY <1>1, <1>2, <1>3

(* Every step of a request but its arrival. *)
Proceeds(c) ==
  \/ GetAlias(c) \/ ResolveLive(c) \/ PickVersion(c) \/ BlobPut(c) \/ Record(c) \/ TornRecord(c)
  \/ CurrentArtifact(c) \/ BlobGet(c) \/ DeleteNetwork(c) \/ BlobDelete(c) \/ Fail(c)
------------------------------------------------------------------------------
(* The invariant is inductive. *)

LEMMA InFlightFinite ==
  ASSUME IInv
  PROVE  IsFiniteSet(InFlight) /\ Cardinality(InFlight) \in Nat
BY LibraryAssumption, FS_Subset, FS_CardinalityType DEF InFlight

(* A step of a request that leaves the versions as they are. *)
LEMMA CountedOn ==
  ASSUME IInv, NEW c \in Callers, NEW u \in Nat, CountedTo(u), req[c].step # "idle",
         \A d \in Callers : d # c => req'[d] = req[d], calls' = calls,
         \A x \in artifacts' : \E o \in artifacts : x.version = o.version,
         Picked(req'[c]) => req'[c].version <= u + 1
  PROVE  CountedTo(u)'
<1>1. InFlight' \subseteq InFlight
  BY DEF InFlight
<1>2. Cardinality(InFlight') \in Nat /\ Cardinality(InFlight') <= Cardinality(InFlight)
  BY <1>1, InFlightFinite, FS_Subset, FS_CardinalityType
<1>3. Cardinality(InFlight) \in Nat /\ calls \in Nat /\ u + Cardinality(InFlight) <= calls
  BY InFlightFinite, LibraryAssumption DEF CountedTo, IInv, TypeOK
<1>4. \A x \in artifacts' : x.version <= u
  BY DEF CountedTo
<1>5. \A d \in Callers : Picked(req'[d]) => req'[d].version <= u + 1
  BY DEF CountedTo
<1>6. u + Cardinality(InFlight') <= calls'
  BY <1>2, <1>3
<1>7. QED BY <1>4, <1>5, <1>6 DEF CountedTo

(* A new version costs the request that records it. *)
LEMMA CountedRecord ==
  ASSUME IInv, NEW c \in Callers, NEW u \in Nat, CountedTo(u), req[c].step # "idle",
         \A d \in Callers : d # c => req'[d] = req[d], calls' = calls, req'[c] = Idle,
         \A x \in artifacts' : x.version <= u + 1
  PROVE  CountedTo(u + 1)'
<1>1. c \in InFlight /\ InFlight' = InFlight \ {c}
  BY IdleRequest DEF InFlight
<1>2. Cardinality(InFlight') = Cardinality(InFlight) - 1
  BY <1>1, InFlightFinite, FS_RemoveElement
<1>3. Cardinality(InFlight) \in Nat /\ calls \in Nat /\ u + Cardinality(InFlight) <= calls
  BY InFlightFinite, LibraryAssumption DEF CountedTo, IInv, TypeOK
<1>4. \A d \in Callers : Picked(req[d]) => req[d].version \in Nat /\ req[d].version <= u + 1
  BY RequestFields, LibraryAssumption DEF CountedTo, IInv, TypeOK, Versions
<1>5. \A d \in Callers : Picked(req'[d]) => req'[d].version <= (u + 1) + 1
  BY <1>4, IdleRequest
<1>6. (u + 1) + Cardinality(InFlight') <= calls'
  BY <1>2, <1>3
<1>7. QED BY <1>5, <1>6 DEF CountedTo

LEMMA CountedCall ==
  ASSUME IInv, NEW c \in Callers, NEW u \in Nat, CountedTo(u), calls' = calls + 1,
         \A d \in Callers : d # c => req'[d] = req[d], ~Picked(req'[c]),
         \A x \in artifacts' : \E o \in artifacts : x.version = o.version
  PROVE  CountedTo(u)'
<1>1. InFlight' \subseteq InFlight \union {c}
  BY DEF InFlight
<1>2. IsFiniteSet(InFlight) /\ Cardinality(InFlight) \in Nat
  BY InFlightFinite
<1> DEFINE S == InFlight
           U == S \union {c}
<1> HIDE DEF S
<1>3. IsFiniteSet(U) /\ Cardinality(U) \in Nat /\ Cardinality(U) <= Cardinality(S) + 1
  <2>1. IsFiniteSet(S) /\ Cardinality(S) \in Nat
    BY <1>2 DEF S
  <2>2. CASE c \in S
    <3>1. U = S
      BY <2>2
    <3> HIDE DEF U
    <3>2. QED BY <2>1, <3>1
  <2>3. CASE c \notin S
    <3>1. IsFiniteSet(U) /\ Cardinality(U) = Cardinality(S) + 1
      BY <2>1, <2>3, FS_AddElement
    <3> HIDE DEF U
    <3>2. QED BY <2>1, <3>1
  <2>4. QED BY <2>2, <2>3
<1>4. Cardinality(InFlight') \in Nat /\ Cardinality(InFlight') <= Cardinality(U)
  BY <1>1, <1>3, FS_Subset, FS_CardinalityType DEF S
<1>5. Cardinality(S) \in Nat /\ calls \in Nat /\ u + Cardinality(S) <= calls
  BY <1>2, LibraryAssumption DEF S, CountedTo, IInv, TypeOK
<1> HIDE DEF U
<1>6. u + Cardinality(InFlight') <= calls'
  BY <1>3, <1>4, <1>5
<1>7. QED BY <1>6 DEF CountedTo

LEMMA CallStep ==
  ASSUME IInv, NEW c \in Callers, Calls(c)
  PROVE  IInv'
<1>1. PICK op \in {"put_content", "get_content", "delete_work"} :
        /\ Begins(c, op)
        /\ req' \in [Callers -> Requests] /\ \A d \in Callers : Shape(req'[d])
        /\ req'[c].step = "get_alias" /\ req'[c].op = op
        /\ \A d \in Callers : d # c => req'[d] = req[d]
        /\ UNCHANGED <<catalog, artifacts, blob, batched, failures>>
  BY CallFields
<1>2. /\ calls' = calls + 1 /\ calls' \in 0 .. MaxCalls
      /\ raced' \in BOOLEAN /\ clashed' \in BOOLEAN
  BY <1>1, BeginsFields
<1>3. TypeOK' /\ Decreasing(merged_into)'
  BY <1>1, <1>2 DEF IInv, TypeOK, catalog
<1>4. PICK u \in Nat : CountedTo(u)
  BY DEF IInv
<1>5. ~Picked(req'[c])
  BY <1>1 DEF Picked
<1>6. CountedTo(u)'
  BY <1>1, <1>2, <1>4, <1>5, CountedCall
<1>7. QED BY <1>1, <1>3, <1>6 DEF IInv

LEMMA MergeStep ==
  ASSUME IInv, NEW c \in Callers, Merge(c)
  PROVE  IInv'
<1>1. /\ req[c].step = "idle" /\ calls' = calls + 1 /\ calls' \in 0 .. MaxCalls
      /\ raced' \in BOOLEAN /\ clashed' \in BOOLEAN
      /\ UNCHANGED <<nodes, blob, batched, req, failures>>
  BY MergeFields, BeginsFields
<1>2. PICK s \in Ids, l \in Ids :
        /\ s < l /\ merged_into[s] = NoId /\ merged_into[l] = NoId
        /\ merged_into' = [merged_into EXCEPT ![l] = s]
        /\ alias' = [w \in Works |-> IF alias[w] = l THEN s ELSE alias[w]]
        /\ artifacts' = ArtifactsFolded(s, l)
  BY MergeFields
<1>3. merged_into' \in Redirection /\ Decreasing(merged_into')
  BY <1>2, MergedRoots DEF IInv, TypeOK
<1>4. alias' \in [Works -> Ids \union {NoId}]
  BY <1>2 DEF IInv, TypeOK
<1>5. \A x \in artifacts' : x \in Rows /\ \E o \in artifacts : x.version = o.version
  BY <1>2, FoldedRows DEF SameBytes
<1>6. TypeOK'
  BY <1>1, <1>3, <1>4, <1>5 DEF IInv, TypeOK
<1>7. PICK u \in Nat : CountedTo(u)
  BY DEF IInv
<1>8. ~Picked(req'[c])
  BY <1>1 DEF Picked
<1>9. CountedTo(u)'
  BY <1>1, <1>5, <1>7, <1>8, CountedCall
<1>10. \A d \in Callers : Shape(req[d])'
  BY <1>1 DEF IInv
<1>11. QED BY <1>3, <1>6, <1>9, <1>10 DEF IInv

(* What every step of a request but its arrival has in common. *)
LEMMA ProceedsFields ==
  ASSUME IInv, NEW c \in Callers, Proceeds(c)
  PROVE  /\ req[c].step # "idle"
         /\ req' \in [Callers -> Requests] /\ \A d \in Callers : Shape(req'[d])
         /\ \A d \in Callers : d # c => req'[d] = req[d]
         /\ UNCHANGED <<batched, calls, history>>
         /\ failures' \in 0 .. MaxFailures /\ (failures' = 0 => failures = 0)
<1>0. failures \in 0 .. MaxFailures
  BY DEF IInv, TypeOK
<1>1. CASE GetAlias(c)
  BY <1>0, <1>1, GetAliasFields
<1>2. CASE ResolveLive(c)
  BY <1>0, <1>2, ResolveLiveFields
<1>3. CASE PickVersion(c)
  BY <1>0, <1>3, PickVersionFields
<1>4. CASE BlobPut(c)
  BY <1>0, <1>4, BlobPutFields
<1>5. CASE Record(c) \/ TornRecord(c)
  BY <1>5, RecordFields
<1>6. CASE CurrentArtifact(c)
  BY <1>0, <1>6, CurrentArtifactFields
<1>7. CASE BlobGet(c) \/ Fail(c)
  BY <1>7, EndFields
<1>8. CASE DeleteNetwork(c)
  BY <1>0, <1>8, DeleteNetworkFields
<1>9. CASE BlobDelete(c)
  BY <1>9, BlobDeleteFields
<1>10. QED BY <1>1, <1>2, <1>3, <1>4, <1>5, <1>6, <1>7, <1>8, <1>9 DEF Proceeds

(* The steps that leave the tables alone, the redirects apart. *)
LEMMA TablesKept ==
  ASSUME IInv, NEW c \in Callers,
         \/ GetAlias(c) \/ ResolveLive(c) \/ PickVersion(c) \/ BlobPut(c)
         \/ CurrentArtifact(c) \/ BlobGet(c) \/ BlobDelete(c) \/ Fail(c)
  PROVE  UNCHANGED <<nodes, alias, artifacts>>
<1>1. CASE GetAlias(c)
  BY <1>1, GetAliasFields DEF catalog
<1>2. CASE ResolveLive(c)
  BY <1>2, ResolveLiveFields
<1>3. CASE PickVersion(c)
  BY <1>3, PickVersionFields DEF catalog
<1>4. CASE BlobPut(c)
  BY <1>4, BlobPutFields DEF catalog
<1>5. CASE CurrentArtifact(c)
  BY <1>5, CurrentArtifactFields DEF catalog
<1>6. CASE BlobGet(c) \/ Fail(c)
  BY <1>6, EndFields DEF catalog
<1>7. CASE BlobDelete(c)
  BY <1>7, BlobDeleteFields DEF catalog
<1>8. QED BY <1>1, <1>2, <1>3, <1>4, <1>5, <1>6, <1>7
LEMMA ProceedsStep ==
  ASSUME IInv, NEW c \in Callers, Proceeds(c)
  PROVE  IInv'
<1>1. /\ req[c].step # "idle"
      /\ req' \in [Callers -> Requests] /\ \A d \in Callers : Shape(req'[d])
      /\ \A d \in Callers : d # c => req'[d] = req[d]
      /\ UNCHANGED <<batched, calls, history>> /\ failures' \in 0 .. MaxFailures
  BY ProceedsFields
<1>2. /\ nodes \subseteq Ids /\ merged_into \in Redirection /\ Decreasing(merged_into)
      /\ alias \in [Works -> Ids \union {NoId}] /\ blob \in [Keys -> Bodies \union {NoBody}]
  BY DEF IInv, TypeOK
<1>3. /\ nodes' \subseteq Ids /\ alias' \in [Works -> Ids \union {NoId}]
      /\ merged_into' \in Redirection /\ Decreasing(merged_into')
  <2>1. CASE DeleteNetwork(c)
    <3> DEFINE net == NetworkOf(merged_into, nodes, req[c].cur)
    <3>1. /\ nodes' = nodes \ net
          /\ merged_into' = [n \in Ids |-> IF n \in net THEN NoId ELSE merged_into[n]]
          /\ alias' = [w \in Works |-> IF alias[w] \in net THEN NoId ELSE alias[w]]
      BY <2>1, DeleteNetworkFields
    <3> HIDE DEF net
    <3>2. QED BY <1>2, <3>1 DEF Redirection, Decreasing
  <2>2. CASE ResolveLive(c)
    <3>1. UNCHANGED <<nodes, alias>>
      BY <2>2, ResolveLiveFields
    <3>2. req[c].cur \in Ids
          /\ (merged_into' = merged_into \/ merged_into' = Compressed(merged_into, req[c].cur))
      BY <2>2, ResolveLiveFields
    <3>3. merged_into' \in Redirection /\ Decreasing(merged_into')
      BY <1>2, <3>2, CompressedDecreases
    <3>4. QED BY <1>2, <3>1, <3>3
  <2>3. CASE UNCHANGED catalog
    BY <1>2, <2>3 DEF catalog
  <2>4. QED
    BY <2>1, <2>2, <2>3, GetAliasFields, PickVersionFields, BlobPutFields, RecordFields,
       CurrentArtifactFields, EndFields, BlobDeleteFields DEF Proceeds
<1>4. blob' \in [Keys -> Bodies \union {NoBody}]
  <2>1. CASE BlobPut(c)
    BY <1>2, <2>1, BlobPutFields
  <2>2. CASE BlobDelete(c)
    <3>1. UNCHANGED blob \/ \E k \in Keys : blob' = [blob EXCEPT ![k] = NoBody]
      BY <2>2, BlobDeleteFields
    <3>2. QED BY <1>2, <3>1
  <2>3. CASE UNCHANGED blob
    BY <1>2, <2>3
  <2>4. QED
    BY <2>1, <2>2, <2>3, GetAliasFields, ResolveLiveFields, PickVersionFields, RecordFields,
       CurrentArtifactFields, EndFields, DeleteNetworkFields DEF Proceeds
<1>5. /\ \A x \in artifacts' : x \in Rows
      /\ \E u \in Nat : CountedTo(u)'
  <2>1. CASE Record(c) \/ TornRecord(c)
    <3> DEFINE r == req[c]
               flipped == Flipped(r.cur, r.role)
    <3>1. PICK u \in Nat : CountedTo(u)
      BY DEF IInv
    <3>2. /\ r \in Requests /\ r.cur \in Ids /\ r.step = "record" /\ req'[c] = Idle
          /\ artifacts' = artifacts \/ artifacts' = flipped \/ artifacts' = flipped \union {NewRow(r)}
      BY <2>1, RecordFields
    <3>3. NewRow(r) \in Rows /\ NewRow(r).version = r.version
      BY <3>2, NewRowFields
    <3>4. r.version <= u + 1
      BY <3>1, <3>2 DEF CountedTo, Picked
    <3>5. \A x \in artifacts : x \in Rows /\ x.version \in Nat /\ x.version <= u
      BY <3>1, RowFields DEF CountedTo
    <3>6. \A x \in flipped : x \in Rows /\ \E o \in artifacts : x.version = o.version
      BY FlippedRows DEF SameBytes
    <3> HIDE DEF flipped
    <3>7. \A x \in artifacts' : x \in Rows
      BY <3>2, <3>3, <3>5, <3>6
    <3>8. \A x \in artifacts' : x.version <= u + 1
      BY <3>2, <3>3, <3>4, <3>5, <3>6
    <3>9. CountedTo(u + 1)' /\ u + 1 \in Nat
      BY <1>1, <3>1, <3>2, <3>8, CountedRecord
    <3>10. QED BY <3>7, <3>9
  <2>2. CASE ~(Record(c) \/ TornRecord(c))
    <3>1. artifacts' \subseteq artifacts
      <4>1. CASE DeleteNetwork(c)
        BY <4>1, DeleteNetworkFields
      <4>2. CASE ~DeleteNetwork(c)
        BY <2>2, <4>2, TablesKept DEF Proceeds
      <4>3. QED BY <4>1, <4>2
    <3>2. \E u \in Nat : CountedTo(u) /\ (Picked(req'[c]) => req'[c].version <= u + 1)
      <4>1. CASE PickVersion(c)
        BY <4>1, PickVersionFields
      <4>2. CASE BlobPut(c)
        <5>1. req[c].step = "blob_put" /\ req'[c].version = req[c].version
          BY <4>2, BlobPutFields
        <5>2. QED BY <5>1 DEF IInv, CountedTo, Picked
      <4>3. CASE ~Picked(req'[c])
        BY <4>3 DEF IInv
      <4>4. ASSUME GetAlias(c) \/ BlobGet(c) \/ Fail(c) \/ CurrentArtifact(c)
                   \/ DeleteNetwork(c) \/ BlobDelete(c)
            PROVE  req'[c].step \in {"idle", "resolve_live", "blob_get", "blob_delete"}
        BY <4>4, GetAliasFields, EndFields, CurrentArtifactFields, DeleteNetworkFields,
           BlobDeleteFields, IdleRequest
      <4>5. ASSUME ResolveLive(c)
            PROVE  req'[c].step \in {"idle", "next_version", "current_artifact", "delete_network"}
        BY <4>5, ResolveLiveFields, IdleRequest
      <4>6. QED BY <2>2, <4>1, <4>2, <4>3, <4>4, <4>5 DEF Proceeds, Picked
    <3>3. PICK u \in Nat : CountedTo(u) /\ (Picked(req'[c]) => req'[c].version <= u + 1)
      BY <3>2
    <3>4. \A x \in artifacts' : \E o \in artifacts : x.version = o.version
      BY <3>1
    <3>5. CountedTo(u)'
      BY <1>1, <3>3, <3>4, CountedOn
    <3>6. QED BY <3>1, <3>5, RowFields
  <2>3. QED BY <2>1, <2>2
<1>6. TypeOK'
  BY <1>1, <1>3, <1>4, <1>5 DEF IInv, TypeOK, history
<1>7. QED BY <1>1, <1>3, <1>5, <1>6 DEF IInv

LEMMA Initial == Init => IInv
<1> SUFFICES ASSUME Init PROVE IInv
  OBVIOUS
<1>1. TypeOK
  <2>1. nodes \subseteq Ids /\ alias \in [Works -> Ids \union {NoId}]
    BY LibraryAssumption DEF Init
  <2>2. merged_into \in Redirection /\ blob \in [Keys -> Bodies \union {NoBody}]
    BY DEF Init, Redirection
  <2>3. req \in [Callers -> Requests]
    BY IdleRequest DEF Init
  <2>4. calls \in 0 .. MaxCalls /\ failures \in 0 .. MaxFailures
    BY LibraryAssumption DEF Init
  <2>5. QED BY <2>1, <2>2, <2>3, <2>4 DEF Init, TypeOK
<1>2. Decreasing(merged_into)
  BY DEF Init, Decreasing
<1>3. \A c \in Callers : req[c] = Idle
  BY DEF Init
<1>4. InFlight = {}
  BY <1>3, IdleRequest DEF InFlight
<1>5. CountedTo(0)
  BY <1>3, <1>4, IdleRequest, FS_EmptySet DEF CountedTo, Init
<1>6. QED BY <1>1, <1>2, <1>3, <1>5, IdleRequest DEF IInv

(* Every step is one of a request, its arrival apart, or changes nothing. *)
LEMMA StepKinds ==
  ASSUME [Next]_vars
  PROVE  \/ \E c \in Callers : Calls(c) \/ Merge(c) \/ Proceeds(c)
         \/ UNCHANGED vars
BY DEF Next, Quiet, Calls, Proceeds

LEMMA Unchanged ==
  ASSUME IInv, UNCHANGED vars
  PROVE  IInv'
BY DEF IInv, TypeOK, CountedTo, InFlight, vars

LEMMA Inductive == IInv /\ [Next]_vars => IInv'
BY StepKinds, CallStep, MergeStep, ProceedsStep, Unchanged

LEMMA Invariant == Spec => []IInv
<1>1. QED BY Initial, Inductive, PTL DEF Spec

(* Every variable stays within its type: in particular versions never      *)
(* outgrow the number of calls, however they overlap.                      *)
THEOREM LibraryTyped == Spec => []TypeOK
<1>1. IInv => TypeOK
  BY DEF IInv
<1>2. QED BY <1>1, Invariant, PTL
------------------------------------------------------------------------------
(* What a step may do to the rows. *)

LEMMA RowsEqual ==
  ASSUME NEW x \in Rows, NEW y \in Rows, SameBytes(x, y), x.node = y.node, x.current = y.current
  PROVE  x = y
BY DEF Rows, SameBytes

(* A record whose version is still free. *)
Records(c) ==
  LET r == req[c] IN
  /\ r \in Requests /\ r.cur \in Ids /\ r.step = "record"
  /\ \A q \in RowsOf(r.cur, r.role) : q.version # r.version
  /\ artifacts' = Flipped(r.cur, r.role) \union {NewRow(r)}
  /\ UNCHANGED <<catalog, blob, failures>>

(* One that is not, or that is cut short, on SQLite. *)
Flips(c) ==
  LET r == req[c] IN
  ~batched /\ r.step = "record" /\ r.cur \in Ids /\ artifacts' = Flipped(r.cur, r.role)

Folds(s, l) ==
  /\ s < l /\ Live(s) /\ Live(l) /\ UNCHANGED <<nodes, blob, req>>
  /\ merged_into' = [merged_into EXCEPT ![l] = s] /\ <<s, l>> \in Bridges
  /\ artifacts' = ArtifactsFolded(s, l)

Erases(net) ==
  nodes' = nodes \ net /\ artifacts' = {o \in artifacts : o.node \notin net}

LEMMA RowSteps ==
  ASSUME IInv, [Next]_vars
  PROVE  \/ UNCHANGED artifacts
         \/ \E c \in Callers : Flips(c) \/ Records(c)
         \/ \E s, l \in Ids : Folds(s, l)
         \/ \E net : Erases(net)
<1>1. ASSUME NEW c \in Callers, Calls(c)
      PROVE  UNCHANGED artifacts
  BY <1>1, CallFields
<1>2. ASSUME NEW c \in Callers, Merge(c)
      PROVE  \E s, l \in Ids : Folds(s, l)
  BY <1>2, MergeFields DEF Folds, Live
<1>3. ASSUME NEW c \in Callers, Record(c) \/ TornRecord(c)
      PROVE  UNCHANGED artifacts \/ Flips(c) \/ Records(c)
  <2> DEFINE r == req[c]
             free == \A q \in RowsOf(r.cur, r.role) : q.version # r.version
  <2>1. /\ r \in Requests /\ r.cur \in Ids /\ r.step = "record"
        /\ UNCHANGED <<catalog, blob, batched, calls, history>>
        /\ \/ /\ free /\ artifacts' = Flipped(r.cur, r.role) \union {NewRow(r)}
              /\ failures' = failures
           \/ ~free /\ batched /\ UNCHANGED artifacts
           \/ ~batched /\ artifacts' = Flipped(r.cur, r.role)
    BY <1>3, RecordFields
  <2>2. QED BY <2>1 DEF Flips, Records
<1>4. ASSUME NEW c \in Callers, DeleteNetwork(c)
      PROVE  \E net : Erases(net)
  BY <1>4, DeleteNetworkFields DEF Erases
<1>5. ASSUME NEW c \in Callers, Proceeds(c),
             ~(Record(c) \/ TornRecord(c)), ~DeleteNetwork(c)
      PROVE  UNCHANGED artifacts
  BY <1>5, TablesKept DEF Proceeds
<1>6. CASE UNCHANGED vars
  BY <1>6 DEF vars
<1>7. QED BY <1>1, <1>2, <1>3, <1>4, <1>5, <1>6, StepKinds

(* A work that is gone or merged away never comes back. *)
LEMMA LiveBefore ==
  ASSUME IInv, [Next]_vars, NEW n \in Ids, Live(n)'
  PROVE  Live(n)
<1>1. n \in nodes' /\ merged_into'[n] = NoId
  BY DEF Live
<1>2. CASE UNCHANGED catalog
  BY <1>1, <1>2 DEF Live, catalog
<1>3. ASSUME NEW c \in Callers, Merge(c)
      PROVE  Live(n)
  <2>1. PICK s \in Ids, l \in Ids :
          Live(s) /\ Live(l) /\ merged_into' = [merged_into EXCEPT ![l] = s]
    BY <1>3, MergeFields DEF Live
  <2>2. UNCHANGED nodes
    BY <1>3, MergeFields
  <2>3. n = l \/ merged_into[n] = NoId
    BY <1>1, <2>1 DEF IInv, TypeOK, Redirection
  <2>4. QED BY <1>1, <2>1, <2>2, <2>3 DEF Live
<1>4. ASSUME NEW c \in Callers, ResolveLive(c)
      PROVE  Live(n)
  <2> DEFINE cur == req[c].cur
  <2>1. UNCHANGED nodes /\ cur \in Ids
        /\ (UNCHANGED merged_into \/ merged_into' = Compressed(merged_into, cur))
    BY <1>4, ResolveLiveFields
  <2>2. Root(merged_into, cur) \in Ids
    BY <2>1, RootLive DEF IInv, TypeOK
  <2>3. merged_into[n] = NoId
    BY <1>1, <2>1, <2>2, IdsAssumption DEF Compressed
  <2>4. QED BY <1>1, <2>1, <2>3 DEF Live
<1>5. ASSUME NEW c \in Callers, DeleteNetwork(c)
      PROVE  Live(n)
  <2> DEFINE net == NetworkOf(merged_into, nodes, req[c].cur)
  <2>1. /\ nodes' = nodes \ net
        /\ merged_into' = [m \in Ids |-> IF m \in net THEN NoId ELSE merged_into[m]]
    BY <1>5, DeleteNetworkFields
  <2> HIDE DEF net
  <2>2. QED BY <1>1, <2>1 DEF Live
<1>6. ASSUME NEW c \in Callers, Calls(c)
      PROVE  UNCHANGED catalog
  BY <1>6, CallFields
<1>7. ASSUME NEW c \in Callers, Proceeds(c), ~ResolveLive(c), ~DeleteNetwork(c)
      PROVE  UNCHANGED catalog
  BY <1>7, GetAliasFields, PickVersionFields, BlobPutFields, RecordFields,
     CurrentArtifactFields, EndFields, BlobDeleteFields DEF Proceeds
<1>8. CASE UNCHANGED vars
  BY <1>2, <1>8 DEF vars, catalog
<1>9. QED BY <1>2, <1>3, <1>4, <1>5, <1>6, <1>7, <1>8, StepKinds

(* Every row comes from one that was there, or is the one recorded. *)
LEMMA RowOrigin ==
  ASSUME IInv, [Next]_vars, NEW x \in artifacts'
  PROVE  \/ \E o \in artifacts : SameBytes(x, o) /\ x.node <= o.node
         \/ \E c \in Callers : Records(c) /\ x = NewRow(req[c])
<1>1. \A o \in artifacts : SameBytes(o, o) /\ o.node <= o.node /\ o.node \in Nat
  BY RowFields DEF SameBytes
<1>2. CASE artifacts' \subseteq artifacts
  BY <1>1, <1>2
<1>3. ASSUME NEW c \in Callers, Flips(c) \/ Records(c)
      PROVE  \/ \E o \in artifacts : SameBytes(x, o) /\ x.node <= o.node
             \/ Records(c) /\ x = NewRow(req[c])
  <2>1. x \in Flipped(req[c].cur, req[c].role) \/ (Records(c) /\ x = NewRow(req[c]))
    BY <1>3 DEF Flips, Records
  <2>2. QED BY <1>1, <2>1, FlippedRows
<1>4. ASSUME NEW s \in Ids, NEW l \in Ids, Folds(s, l)
      PROVE  \E o \in artifacts : SameBytes(x, o) /\ x.node <= o.node
  <2>1. x \in ArtifactsFolded(s, l) /\ s < l /\ s \in Nat /\ l \in Nat
    BY <1>4, IdsAssumption DEF Folds
  <2>2. QED BY <1>1, <2>1, FoldedRows
<1>5. ASSUME NEW net, Erases(net)
      PROVE  artifacts' \subseteq artifacts
  BY <1>5 DEF Erases
<1>6. QED BY <1>2, <1>3, <1>4, <1>5, RowSteps
------------------------------------------------------------------------------
(* The versions of a role, whatever overlaps. *)

(* A merge moves rows to a smaller id only, so a row whose key names its   *)
(* own work was uploaded to it.                                            *)
KeysAbove == \A r \in artifacts : r.node <= r.key.node

SameRole(r, q) == q.node = r.node /\ q.role = r.role

PrimaryKey == \A r, q \in artifacts : SameRole(r, q) /\ q.version = r.version => q = r

OneFlag == \A r, q \in artifacts : SameRole(r, q) /\ r.current /\ q.current => q = r

SomeCurrent == \A r \in artifacts : \E q \in artifacts : SameRole(r, q) /\ q.current

(* No version of a live work is missing, so a version that is free and     *)
(* follows one that is not is newer than all.                              *)
Gapless ==
  \A r \in artifacts : Live(r.node) /\ r.version > 1
    => \E q \in artifacts : SameRole(r, q) /\ q.version = r.version - 1

NextInLine ==
  \A c \in Callers : LET r == req[c] IN
    Picked(r) /\ Live(r.cur) /\ r.version > 1
    => \E q \in artifacts : q.node = r.cur /\ q.role = r.role /\ q.version = r.version - 1

OwnIsNewest ==
  \A r, q \in artifacts :
    SameRole(r, q) /\ r.current /\ Live(r.node) /\ q.key.node = q.node
    /\ (batched \/ r.key.node = r.node) => q.version <= r.version

Tidy ==
  /\ IInv /\ KeysAbove /\ PrimaryKey /\ OneFlag /\ Gapless /\ NextInLine /\ OwnIsNewest
  /\ batched => SomeCurrent

LEMMA KeysAboveStep ==
  ASSUME IInv, KeysAbove, [Next]_vars
  PROVE  KeysAbove'
<1> SUFFICES ASSUME NEW x \in artifacts'
             PROVE  x.node <= x.key.node
  BY DEF KeysAbove
<1>1. ASSUME NEW o \in artifacts, SameBytes(x, o), x.node <= o.node
      PROVE  x.node <= x.key.node
  <2>1. o.node <= o.key.node /\ x.key = o.key /\ o.node \in Nat /\ o.key.node \in Nat
    BY <1>1, RowFields DEF KeysAbove, SameBytes
  <2>2. x.node \in Nat
    <3>1. IInv'
      BY Inductive
    <3>2. x \in Rows
      BY <3>1 DEF IInv, TypeOK
    <3>3. QED BY <3>2, IdsAssumption DEF Rows
  <2>3. QED BY <1>1, <2>1, <2>2
<1>2. ASSUME NEW c \in Callers, Records(c), x = NewRow(req[c])
      PROVE  x.node <= x.key.node
  <2>1. x.node = req[c].cur /\ x.key.node = req[c].cur /\ req[c].cur \in Nat
    BY <1>2, NewRowFields, KeyType, IdsAssumption DEF Records
  <2>2. QED BY <2>1
<1>3. QED BY <1>1, <1>2, RowOrigin

LEMMA RowTypeNext ==
  ASSUME IInv, [Next]_vars
  PROVE  artifacts' \subseteq Rows
BY Inductive DEF IInv, TypeOK

LEMMA PrimaryKeyStep ==
  ASSUME IInv, PrimaryKey, OneFlag, [Next]_vars
  PROVE  PrimaryKey' /\ OneFlag'
<1> SUFFICES ASSUME NEW x \in artifacts', NEW y \in artifacts', SameRole(x, y),
                    x.version = y.version \/ (x.current /\ y.current)
             PROVE  y = x
  BY DEF PrimaryKey, OneFlag
<1>1. x \in Rows /\ y \in Rows /\ x.node = y.node /\ x.role = y.role
  BY RowTypeNext DEF SameRole
<1>2. \A o, p \in artifacts :
        SameRole(o, p) /\ (o.version = p.version \/ (o.current /\ p.current)) => o = p
  BY DEF PrimaryKey, OneFlag
<1>3. CASE artifacts' \subseteq artifacts
  BY <1>2, <1>3
<1>4. ASSUME NEW c \in Callers, Flips(c) \/ Records(c)
      PROVE  y = x
  <2> DEFINE r == req[c]
             flipped == Flipped(r.cur, r.role)
  <2>1. \A z \in flipped : \E o \in artifacts :
          /\ SameBytes(z, o) /\ z.node = o.node
          /\ IF o \in RowsOf(r.cur, r.role) THEN ~z.current ELSE z = o
    BY FlippedRows
  <2>2. \A z \in flipped : z \in Rows /\ z.current \in BOOLEAN
    BY FlippedRows DEF Rows
  <2>3. ASSUME NEW u \in flipped, NEW v \in flipped, SameRole(u, v),
               u.version = v.version \/ (u.current /\ v.current)
        PROVE  u = v
    <3>1. PICK o \in artifacts :
            /\ SameBytes(u, o) /\ u.node = o.node
            /\ IF o \in RowsOf(r.cur, r.role) THEN ~u.current ELSE u = o
      BY <2>1
    <3>2. PICK p \in artifacts :
            /\ SameBytes(v, p) /\ v.node = p.node
            /\ IF p \in RowsOf(r.cur, r.role) THEN ~v.current ELSE v = p
      BY <2>1
    <3>3. SameRole(o, p) /\ o.version = u.version /\ p.version = v.version
      BY <2>3, <3>1, <3>2 DEF SameRole, SameBytes
    <3>4. CASE u.current /\ v.current
      BY <1>2, <3>1, <3>2, <3>3, <3>4
    <3>5. CASE u.version = v.version
      <4>1. o = p
        BY <1>2, <3>3, <3>5
      <4>2. CASE o \in RowsOf(r.cur, r.role)
        <5>1. u.current = v.current
          BY <2>2, <3>1, <3>2, <4>1, <4>2
        <5>2. SameBytes(u, v) /\ u.node = v.node
          BY <3>1, <3>2, <4>1 DEF SameBytes
        <5>3. QED BY <2>2, <5>1, <5>2, RowsEqual
      <4>3. CASE o \notin RowsOf(r.cur, r.role)
        BY <3>1, <3>2, <4>1, <4>3
      <4>4. QED BY <4>2, <4>3
    <3>6. QED BY <2>3, <3>4, <3>5
  <2>4. ASSUME NEW u \in flipped, Records(c), u.node = r.cur, u.role = r.role
        PROVE  ~u.current /\ u.version # r.version
    <3>1. PICK o \in artifacts :
            /\ SameBytes(u, o) /\ u.node = o.node
            /\ IF o \in RowsOf(r.cur, r.role) THEN ~u.current ELSE u = o
      BY <2>1
    <3>2. o \in RowsOf(r.cur, r.role) /\ o.version = u.version
      BY <2>4, <3>1 DEF SameBytes, RowsOf
    <3>3. QED BY <2>4, <3>1, <3>2 DEF Records
  <2>5. CASE Flips(c)
    BY <2>3, <2>5 DEF Flips
  <2>6. CASE Records(c)
    <3> DEFINE new == NewRow(r)
    <3>1. artifacts' = flipped \union {new}
      BY <2>6 DEF Records
    <3>2. new.node = r.cur /\ new.role = r.role /\ new.version = r.version
      BY <2>6, NewRowFields DEF Records
    <3>3. x \in flipped \/ x = new
      BY <3>1
    <3>4. y \in flipped \/ y = new
      BY <3>1
    <3> HIDE DEF new, flipped
    <3>5. CASE x \in flipped /\ y \in flipped
      BY <2>3, <3>5
    <3>6. CASE x \in flipped /\ y = new
      BY <1>1, <2>4, <2>6, <3>2, <3>6
    <3>7. CASE x = new /\ y \in flipped
      BY <1>1, <2>4, <2>6, <3>2, <3>7
    <3>8. QED BY <3>3, <3>4, <3>5, <3>6, <3>7
  <2>7. QED BY <1>4, <2>5, <2>6
<1>5. ASSUME NEW s \in Ids, NEW l \in Ids, Folds(s, l)
      PROVE  y = x
  <2> DEFINE From(z, o) ==
        /\ SameBytes(z, o)
        /\ IF o.node # l THEN z = o
           ELSE /\ z.node = s /\ \A q \in RowsOf(s, o.role) : q.version # o.version
                /\ z.current = (o.current /\ ~\E q \in RowsOf(s, o.role) : q.current)
  <2>1. artifacts' = ArtifactsFolded(s, l)
    BY <1>5 DEF Folds
  <2>2. PICK o \in artifacts : From(x, o)
    BY <2>1, FoldedRows
  <2>3. PICK p \in artifacts : From(y, p)
    BY <2>1, FoldedRows
  <2>4. o.role = p.role /\ o.version = x.version /\ p.version = y.version
    BY <1>1, <2>2, <2>3 DEF SameBytes
  <2>5. CASE o.node # l /\ p.node # l
    BY <1>2, <2>2, <2>3, <2>5
  <2>6. CASE o.node = l /\ p.node = l
    <3>1. o = p
      BY <1>2, <2>2, <2>3, <2>4, <2>6 DEF SameRole
    <3>2. x.current = y.current /\ SameBytes(x, y)
      BY <2>2, <2>3, <2>6, <3>1 DEF SameBytes
    <3>3. QED BY <1>1, <3>2, RowsEqual
  <2>7. CASE o.node = l /\ p.node # l
    <3>1. p \in RowsOf(s, o.role) /\ y = p
      BY <1>1, <2>2, <2>3, <2>4, <2>7 DEF RowsOf
    <3>2. p.version # o.version /\ (x.current => ~p.current)
      BY <2>2, <2>7, <3>1
    <3>3. QED BY <2>4, <3>1, <3>2
  <2>8. CASE o.node # l /\ p.node = l
    <3>1. o \in RowsOf(s, p.role) /\ x = o
      BY <1>1, <2>2, <2>3, <2>4, <2>8 DEF RowsOf
    <3>2. p.version # o.version /\ (y.current => ~o.current)
      BY <2>3, <2>8, <3>1
    <3>3. QED BY <2>4, <3>1, <3>2
  <2>9. QED BY <2>5, <2>6, <2>7, <2>8
<1>6. ASSUME NEW net, Erases(net)
      PROVE  artifacts' \subseteq artifacts
  BY <1>6 DEF Erases
<1>7. QED BY <1>3, <1>4, <1>5, <1>6, RowSteps
(* The rows of a work that stays live stay with it. *)
LEMMA RowsStay ==
  ASSUME IInv, [Next]_vars, NEW o \in artifacts, Live(o.node)'
  PROVE  \E x \in artifacts' : SameBytes(x, o) /\ x.node = o.node
<1>1. SameBytes(o, o) /\ o.node \in Ids
  BY RowFields DEF SameBytes
<1>2. ASSUME NEW c \in Callers, Flips(c) \/ Records(c)
      PROVE  \E x \in artifacts' : SameBytes(x, o) /\ x.node = o.node
  <2>1. \E x \in Flipped(req[c].cur, req[c].role) : SameBytes(x, o) /\ x.node = o.node
    BY FlippedRows
  <2>2. QED BY <1>2, <2>1 DEF Flips, Records
<1>3. ASSUME NEW s \in Ids, NEW l \in Ids, Folds(s, l)
      PROVE  o \in artifacts'
  <2>1. merged_into'[l] = s /\ s # NoId
    BY <1>3, IdsAssumption DEF Folds, IInv, TypeOK, Redirection
  <2>2. o.node # l
    BY <2>1 DEF Live
  <2>3. QED BY <1>3, <2>2, FoldedRows DEF Folds
<1>4. ASSUME NEW net, Erases(net)
      PROVE  o \in artifacts'
  BY <1>4 DEF Erases, Live
<1>5. QED BY <1>1, <1>2, <1>3, <1>4, RowSteps

(* A free version of a live work is newer than all it has. *)
LEMMA FreeIsNewest ==
  ASSUME IInv, Gapless, NEW n \in Ids, Live(n), NEW role, NEW v \in Nat, v > 0,
         \A q \in RowsOf(n, role) : q.version # v,
         NEW p \in RowsOf(n, role)
  PROVE  p.version < v
<1> DEFINE S == {w \in Nat : w > v /\ \E q \in RowsOf(n, role) : q.version = w}
<1> SUFFICES ASSUME ~(p.version < v) PROVE FALSE
  OBVIOUS
<1>1. p.version \in S
  <2>1. p.version \in Nat
    BY RowFields DEF RowsOf
  <2>2. p.version # v
    OBVIOUS
  <2>3. QED BY <2>1, <2>2
<1>2. S \in SUBSET Nat /\ S # {}
  BY <1>1
<1> DEFINE m == Least(S)
<1>3. m \in S /\ \A w \in S : m <= w
  <2> HIDE DEF S
  <2>1. QED BY <1>2, LeastProperty
<1>4. PICK q \in RowsOf(n, role) : q.version = m
  BY <1>3
<1>5. m \in Nat /\ m > v /\ m - 1 \in Nat /\ m > 1 /\ m - 1 >= v
  BY <1>3
<1> HIDE DEF m
<1>6. PICK q1 \in artifacts : SameRole(q, q1) /\ q1.version = m - 1
  BY <1>4, <1>5 DEF Gapless, RowsOf
<1>7. q1 \in RowsOf(n, role)
  BY <1>4, <1>6 DEF RowsOf, SameRole
<1>8. m - 1 # v
  BY <1>6, <1>7
<1>9. m - 1 \in S
  BY <1>5, <1>6, <1>7, <1>8
<1>10. m <= m - 1
  BY <1>3, <1>9
<1>11. QED BY <1>5, <1>10

(* A version, once picked, stays the request's. *)
LEMMA PickedBefore ==
  ASSUME IInv, [Next]_vars, NEW c \in Callers, Picked(req'[c])
  PROVE  \/ PickVersion(c)
         \/ /\ Picked(req[c]) /\ req'[c].cur = req[c].cur /\ req'[c].role = req[c].role
            /\ req'[c].version = req[c].version
<1>1. CASE req'[c] = req[c]
  BY <1>1
<1>2. ASSUME NEW d \in Callers, Calls(d) \/ Merge(d) \/ Proceeds(d), d # c
      PROVE  req'[c] = req[c]
  BY <1>2, CallFields, MergeFields, ProceedsFields
<1>3. CASE Calls(c)
  BY <1>3, CallFields DEF Picked
<1>4. CASE Merge(c)
  BY <1>1, <1>4, MergeFields
<1>5. CASE BlobPut(c)
  BY <1>5, BlobPutFields DEF Picked, SameCall
<1>6. CASE Proceeds(c) /\ ~PickVersion(c) /\ ~BlobPut(c)
  <2>1. req'[c].step \in {"idle", "resolve_live", "next_version", "current_artifact", "blob_get",
                          "delete_network", "blob_delete"}
    <3>1. CASE ResolveLive(c)
      BY <3>1, ResolveLiveFields, IdleRequest
    <3>2. CASE GetAlias(c) \/ CurrentArtifact(c) \/ DeleteNetwork(c) \/ BlobDelete(c)
      BY <3>2, GetAliasFields, CurrentArtifactFields, DeleteNetworkFields, BlobDeleteFields,
         IdleRequest
    <3>3. CASE Record(c) \/ TornRecord(c) \/ BlobGet(c) \/ Fail(c)
      BY <3>3, RecordFields, EndFields, IdleRequest
    <3>4. QED BY <1>6, <3>1, <3>2, <3>3 DEF Proceeds
  <2>2. QED BY <2>1 DEF Picked
<1>7. CASE UNCHANGED vars
  BY <1>1, <1>7 DEF vars
<1>8. QED BY <1>2, <1>1, <1>3, <1>4, <1>5, <1>6, <1>7, StepKinds

LEMMA NextInLineStep ==
  ASSUME IInv, NextInLine, [Next]_vars
  PROVE  NextInLine'
<1> SUFFICES ASSUME NEW c \in Callers, Picked(req'[c]), NEW n, n = req'[c].cur, Live(n)',
                    req'[c].version > 1
             PROVE  \E q \in artifacts' : /\ q.node = req'[c].cur /\ q.role = req'[c].role
                                          /\ q.version = req'[c].version - 1
  BY DEF NextInLine, Live, Picked
<1>0. n \in Ids
  BY Inductive DEF IInv, Shape, Picked
<1>1. \E q \in artifacts : /\ q.node = req'[c].cur /\ q.role = req'[c].role
                           /\ q.version = req'[c].version - 1
  <2>1. CASE PickVersion(c)
    <3> DEFINE r == req[c]
               q == req'[c]
    <3>1. q.role = r.role /\ q.cur = r.cur /\ q.version = NextVersion(r.cur, r.role)
      BY <2>1, PickVersionFields DEF SameCall
    <3>2. PICK u \in Nat : \A o \in artifacts : o.version <= u
      BY DEF IInv, CountedTo
    <3>3. q.version = 1 \/ \E o \in RowsOf(r.cur, r.role) : o.version = q.version - 1
      BY <3>1, <3>2, NextVersionProperty
    <3>4. q.version # 1
      <4>1. q.version \in Nat
        BY Inductive, RequestFields, LibraryAssumption DEF IInv, TypeOK, Versions
      <4>2. QED BY <4>1
    <3>5. QED BY <3>1, <3>3, <3>4 DEF RowsOf
  <2>2. CASE ~PickVersion(c)
    <3>1. /\ Picked(req[c]) /\ req'[c].cur = req[c].cur /\ req'[c].role = req[c].role
          /\ req'[c].version = req[c].version
      BY <2>2, PickedBefore
    <3>2. Live(n) /\ n = req[c].cur
      BY <1>0, <3>1, LiveBefore
    <3>3. QED BY <3>1, <3>2 DEF NextInLine
  <2>3. QED BY <2>1, <2>2
<1>2. PICK o \in artifacts : /\ o.node = req'[c].cur /\ o.role = req'[c].role
                             /\ o.version = req'[c].version - 1
  BY <1>1
<1>3. o.node = n
  BY <1>2
<1>4. Live(o.node)'
  BY <1>3 DEF Live
<1>5. QED BY <1>2, <1>4, RowsStay DEF SameBytes
LEMMA GaplessStep ==
  ASSUME IInv, Gapless, NextInLine, [Next]_vars
  PROVE  Gapless'
<1> SUFFICES ASSUME NEW x \in artifacts', Live(x.node)', x.version > 1
             PROVE  \E q \in artifacts' : SameRole(x, q) /\ q.version = x.version - 1
  BY DEF Gapless
<1>0. x \in Rows /\ x.node \in Ids
  BY RowTypeNext DEF Rows
<1>1. Live(x.node)
  BY <1>0, LiveBefore
(* The version below stays where it is. *)
<1>2. ASSUME NEW q \in artifacts, q.node = x.node, q.role = x.role, q.version = x.version - 1
      PROVE  \E z \in artifacts' : SameRole(x, z) /\ z.version = x.version - 1
  <2>1. Live(q.node)'
    BY <1>2 DEF Live
  <2>2. QED BY <1>2, <2>1, RowsStay DEF SameBytes, SameRole
<1>3. ASSUME NEW o \in artifacts, SameBytes(x, o), x.node = o.node
      PROVE  \E q \in artifacts' : SameRole(x, q) /\ q.version = x.version - 1
  <2>1. \E q \in artifacts : SameRole(o, q) /\ q.version = o.version - 1
    BY <1>1, <1>3 DEF Gapless, SameBytes
  <2>2. QED BY <1>2, <1>3, <2>1 DEF SameBytes, SameRole
<1>4. CASE x \in artifacts
  BY <1>3, <1>4 DEF SameBytes
<1>5. ASSUME NEW c \in Callers, Flips(c) \/ Records(c)
      PROVE  \E q \in artifacts' : SameRole(x, q) /\ q.version = x.version - 1
  <2> DEFINE r == req[c]
  <2>1. CASE x \in Flipped(r.cur, r.role)
    BY <1>3, <2>1, FlippedRows
  <2>2. CASE Records(c) /\ x = NewRow(r)
    <3>1. x.node = r.cur /\ x.role = r.role /\ x.version = r.version /\ r.step = "record"
      BY <2>2, NewRowFields DEF Records
    <3>2. Live(r.cur) /\ Picked(r) /\ r.version > 1
      BY <1>1, <3>1 DEF Picked
    <3>3. \E q \in artifacts : q.node = r.cur /\ q.role = r.role /\ q.version = r.version - 1
      BY <3>2 DEF NextInLine
    <3>4. QED BY <1>2, <3>1, <3>3
  <2>3. QED BY <1>5, <2>1, <2>2 DEF Flips, Records
<1>6. ASSUME NEW s \in Ids, NEW l \in Ids, Folds(s, l)
      PROVE  \E q \in artifacts' : SameRole(x, q) /\ q.version = x.version - 1
  <2>1. /\ artifacts' = ArtifactsFolded(s, l) /\ Live(l) /\ s # l
    BY <1>6, IdsAssumption DEF Folds
  <2>2. PICK o \in artifacts :
          SameBytes(x, o) /\ (IF o.node # l THEN x = o ELSE x.node = s)
    BY <2>1, FoldedRows
  <2>3. CASE o.node # l
    BY <1>4, <2>2, <2>3
  <2>4. CASE o.node = l
    <3>1. PICK q \in artifacts : q.node = l /\ q.role = o.role /\ q.version = o.version - 1
      BY <2>1, <2>2, <2>4 DEF Gapless, SameBytes, SameRole
    <3>2. q.role = x.role /\ q.version = x.version - 1 /\ x.node = s
      BY <2>2, <2>4, <3>1 DEF SameBytes
    <3>3. CASE \E p \in RowsOf(s, q.role) : p.version = q.version
      BY <1>2, <3>2, <3>3 DEF RowsOf
    <3>4. CASE \A p \in RowsOf(s, q.role) : p.version # q.version
      <4>1. \E z \in artifacts' : SameBytes(z, q) /\ z.node = s
        BY <2>1, <3>1, <3>4, FoldedRows
      <4>2. QED BY <3>2, <4>1 DEF SameBytes, SameRole
    <3>5. QED BY <3>3, <3>4
  <2>5. QED BY <2>3, <2>4
<1>7. ASSUME NEW net, Erases(net)
      PROVE  x \in artifacts
  BY <1>7 DEF Erases
<1>8. QED BY <1>4, <1>5, <1>6, <1>7, RowSteps

(* Where record is a transaction, a role keeps a current version. *)
LEMMA SomeCurrentStep ==
  ASSUME IInv, SomeCurrent, batched, [Next]_vars
  PROVE  SomeCurrent'
<1> SUFFICES ASSUME NEW x \in artifacts'
             PROVE  \E q \in artifacts' : SameRole(x, q) /\ q.current
  BY DEF SomeCurrent
<1>1. CASE UNCHANGED artifacts
  BY <1>1 DEF SomeCurrent
<1>2. ASSUME NEW c \in Callers, Records(c)
      PROVE  \E q \in artifacts' : SameRole(x, q) /\ q.current
  <2> DEFINE r == req[c]
             new == NewRow(r)
             flipped == Flipped(r.cur, r.role)
  <2>1. artifacts' = flipped \union {new}
    BY <1>2 DEF Records
  <2>2. new.node = r.cur /\ new.role = r.role /\ new.current
    BY <1>2, NewRowFields DEF Records
  <2> HIDE DEF new
  <2>3. CASE x.node = r.cur /\ x.role = r.role
    BY <2>1, <2>2, <2>3 DEF SameRole
  <2>4. CASE ~(x.node = r.cur /\ x.role = r.role)
    <3>1. x \in flipped
      BY <2>1, <2>2, <2>4
    <3>2. PICK o \in artifacts : SameBytes(x, o) /\ x.node = o.node
      BY <3>1, FlippedRows
    <3>3. PICK q \in artifacts : SameRole(o, q) /\ q.current
      BY DEF SomeCurrent
    <3>4. q \notin RowsOf(r.cur, r.role)
      BY <2>4, <3>2, <3>3 DEF SameRole, SameBytes, RowsOf
    <3>5. q \in artifacts'
      BY <2>1, <3>4, FlippedRows
    <3>6. QED BY <3>2, <3>3, <3>5 DEF SameRole, SameBytes
  <2>5. QED BY <2>3, <2>4
<1>3. ASSUME NEW s \in Ids, NEW l \in Ids, Folds(s, l)
      PROVE  \E q \in artifacts' : SameRole(x, q) /\ q.current
  <2>1. artifacts' = ArtifactsFolded(s, l) /\ s # l
    BY <1>3, IdsAssumption DEF Folds
  <2>2. PICK o \in artifacts :
          SameBytes(x, o) /\ (IF o.node # l THEN x = o ELSE x.node = s)
    BY <2>1, FoldedRows
  <2>3. ASSUME NEW p \in artifacts, p.node = x.node, p.role = x.role, p.node # l
        PROVE  \E q \in artifacts' : SameRole(x, q) /\ q.current
    <3>1. PICK q \in artifacts : SameRole(p, q) /\ q.current
      BY DEF SomeCurrent
    <3>2. q \in artifacts'
      BY <2>1, <2>3, <3>1, FoldedRows DEF SameRole
    <3>3. QED BY <2>3, <3>1, <3>2 DEF SameRole
  <2>4. CASE o.node # l
    BY <2>2, <2>3, <2>4
  <2>5. CASE o.node = l /\ \E p \in RowsOf(s, o.role) : TRUE
    BY <2>1, <2>2, <2>3, <2>5 DEF RowsOf, SameBytes
  <2>6. CASE o.node = l /\ ~\E p \in RowsOf(s, o.role) : TRUE
    <3>1. PICK q \in artifacts : SameRole(o, q) /\ q.current
      BY DEF SomeCurrent
    <3>2. q.node = l /\ q.role = o.role
      BY <2>6, <3>1 DEF SameRole
    <3>3. \E z \in artifacts' : SameBytes(z, q) /\ z.node = s /\ z.current
      BY <2>1, <2>6, <3>1, <3>2, FoldedRows
    <3>4. QED BY <2>2, <2>6, <3>2, <3>3 DEF SameBytes, SameRole
  <2>7. QED BY <2>4, <2>5, <2>6
<1>4. ASSUME NEW net, Erases(net)
      PROVE  \E q \in artifacts' : SameRole(x, q) /\ q.current
  BY <1>4 DEF Erases, SomeCurrent, SameRole
<1>5. QED BY <1>1, <1>2, <1>3, <1>4, RowSteps DEF Flips

LEMMA OwnIsNewestStep ==
  ASSUME Tidy, [Next]_vars
  PROVE  OwnIsNewest'
<1> SUFFICES ASSUME NEW x \in artifacts', NEW y \in artifacts', SameRole(x, y), x.current,
                    Live(x.node)', y.key.node = y.node, batched' \/ x.key.node = x.node
             PROVE  y.version <= x.version
  BY DEF OwnIsNewest
<1>0. /\ x \in Rows /\ x.node \in Ids /\ y.node = x.node /\ y.role = x.role
      /\ x.version \in Nat /\ batched' = batched
  <2>1. artifacts' \subseteq Rows
    BY RowTypeNext DEF Tidy
  <2>2. batched' = batched
    <3>1. ASSUME NEW c \in Callers, Calls(c) \/ Merge(c) \/ Proceeds(c)
          PROVE  batched' = batched
      BY <3>1, CallFields, MergeFields, ProceedsFields DEF Tidy
    <3>2. QED BY <3>1, StepKinds DEF vars
  <2>3. Versions \subseteq Nat
    BY LibraryAssumption DEF Versions
  <2>4. QED BY <2>1, <2>2, <2>3 DEF Rows, SameRole
<1>1. Live(x.node) /\ IInv
  BY <1>0, LiveBefore DEF Tidy
<1>2. ASSUME NEW o \in artifacts, NEW p \in artifacts, x = o, SameBytes(y, p), y.node = p.node
      PROVE  y.version <= x.version
  BY <1>0, <1>1, <1>2 DEF Tidy, OwnIsNewest, SameBytes, SameRole
<1>3. CASE artifacts' \subseteq artifacts
  BY <1>2, <1>3 DEF SameBytes
<1>4. ASSUME NEW c \in Callers, Flips(c) \/ Records(c)
      PROVE  y.version <= x.version
  <2> DEFINE r == req[c]
             flipped == Flipped(r.cur, r.role)
             new == NewRow(r)
  <2>1. \A z \in flipped : \E o \in artifacts :
          /\ SameBytes(z, o) /\ z.node = o.node
          /\ IF o \in RowsOf(r.cur, r.role) THEN ~z.current ELSE z = o
    BY <1>1, FlippedRows
  <2>2. /\ x \in flipped \/ (Records(c) /\ x = new)
        /\ y \in flipped \/ (Records(c) /\ y = new)
    BY <1>4 DEF Flips, Records
  <2>3. Records(c) => new.node = r.cur /\ new.role = r.role /\ new.version = r.version
    BY NewRowFields DEF Records
  <2> HIDE DEF flipped, new
  <2>4. CASE x \in flipped /\ y \in flipped
    BY <1>2, <2>1, <2>4
  <2>5. CASE x \in flipped /\ Records(c) /\ y = new
    <3>1. PICK o \in artifacts : x = o /\ o \notin RowsOf(r.cur, r.role)
      BY <2>1, <2>5
    <3>2. x.node = r.cur /\ x.role = r.role
      BY <1>0, <2>3, <2>5
    <3>3. QED BY <3>1, <3>2 DEF RowsOf
  <2>6. CASE Records(c) /\ x = new /\ y \in flipped
    <3>1. PICK p \in artifacts : SameBytes(y, p) /\ y.node = p.node
      BY <2>1, <2>6
    <3>2. p \in RowsOf(r.cur, r.role) /\ p.version = y.version
      BY <1>0, <2>3, <2>6, <3>1 DEF RowsOf, SameBytes
    <3>3. Live(r.cur) /\ r.cur \in Ids /\ r.version = x.version
      BY <1>0, <1>1, <2>3, <2>6
    <3>4. r.version \in Nat /\ r.version > 0
      BY <2>6, RequestFields, LibraryAssumption DEF Records, Versions
    <3>5. p.version < r.version /\ p.version \in Nat
      BY <1>1, <2>6, <3>2, <3>3, <3>4, FreeIsNewest, RowFields DEF Records, Tidy
    <3>6. QED BY <3>2, <3>3, <3>4, <3>5
  <2>7. CASE Records(c) /\ x = new /\ y = new
    BY <1>0, <2>7
  <2>8. QED BY <2>2, <2>4, <2>5, <2>6, <2>7
<1>5. ASSUME NEW s \in Ids, NEW l \in Ids, Folds(s, l)
      PROVE  y.version <= x.version
  <2>1. artifacts' = ArtifactsFolded(s, l) /\ s < l /\ s \in Nat /\ l \in Nat
    BY <1>5, IdsAssumption DEF Folds
  <2> DEFINE From(z, o) ==
        /\ SameBytes(z, o)
        /\ IF o.node # l THEN z = o
           ELSE /\ z.node = s /\ \A q \in RowsOf(s, o.role) : q.version # o.version
                /\ z.current = (o.current /\ ~\E q \in RowsOf(s, o.role) : q.current)
  <2>a. IInv
    BY DEF Tidy
  <2>b. \A z \in artifacts' : \E o \in artifacts : From(z, o)
    BY <2>a, <2>1, FoldedRows
  <2>2. PICK o \in artifacts : From(x, o)
    BY <2>b
  <2>3. PICK p \in artifacts : SameBytes(y, p) /\ (IF p.node # l THEN y = p ELSE y.node = s)
    BY <1>1, <2>1, FoldedRows
  <2>4. /\ o.node <= o.key.node /\ p.node <= p.key.node
        /\ o.node \in Nat /\ o.key.node \in Nat /\ p.node \in Nat /\ p.key.node \in Nat
    BY <1>1, RowFields DEF Tidy, KeysAbove
  <2>5. p.node # l /\ y = p
    <3>1. CASE p.node = l
      <4>1. y.key.node = p.key.node /\ y.node = s
        BY <2>3, <3>1 DEF SameBytes
      <4>2. p.key.node = s
        BY <4>1
      <4>3. QED BY <2>1, <2>4, <3>1, <4>2
    <3>2. QED BY <2>3, <3>1
  <2>6. CASE o.node # l
    BY <1>2, <2>2, <2>5, <2>6 DEF SameBytes
  <2>7. CASE o.node = l
    <3>1. x.key.node = o.key.node /\ x.node = s /\ x.role = o.role
      BY <2>2, <2>7 DEF SameBytes
    <3>2. x.key.node # x.node
      BY <2>1, <2>4, <2>7, <3>1
    <3>3. batched
      BY <1>0, <3>2
    <3>4. PICK q \in artifacts : SameRole(p, q) /\ q.current
      BY <3>3 DEF Tidy, SomeCurrent
    <3>5. q \in RowsOf(s, o.role)
      BY <1>0, <2>5, <3>1, <3>4 DEF SameRole, RowsOf
    <3>6. QED BY <2>2, <2>7, <3>4, <3>5
  <2>8. QED BY <2>6, <2>7
<1>6. ASSUME NEW net, Erases(net)
      PROVE  artifacts' \subseteq artifacts
  BY <1>6 DEF Erases
<1>7. QED BY <1>1, <1>3, <1>4, <1>5, <1>6, RowSteps

LEMMA TidyInitial == Init => Tidy
<1> SUFFICES ASSUME Init PROVE Tidy
  OBVIOUS
<1>1. IInv /\ artifacts = {} /\ \A c \in Callers : req[c] = Idle
  BY Initial DEF Init
<1>2. QED
  BY <1>1, IdleRequest DEF Tidy, KeysAbove, PrimaryKey, OneFlag, SomeCurrent, Gapless, NextInLine,
     OwnIsNewest

LEMMA BatchedStays ==
  ASSUME IInv, [Next]_vars
  PROVE  batched' = batched
<1>1. ASSUME NEW c \in Callers, Calls(c) \/ Merge(c) \/ Proceeds(c)
      PROVE  batched' = batched
  BY <1>1, CallFields, MergeFields, ProceedsFields
<1>2. QED BY <1>1, StepKinds DEF vars

LEMMA TidyStep == Tidy /\ [Next]_vars => Tidy'
<1> SUFFICES ASSUME Tidy, [Next]_vars PROVE Tidy'
  OBVIOUS
<1>1. IInv'
  BY Inductive DEF Tidy
<1>2. KeysAbove' /\ PrimaryKey' /\ OneFlag' /\ Gapless' /\ NextInLine' /\ OwnIsNewest'
  BY KeysAboveStep, PrimaryKeyStep, GaplessStep, NextInLineStep, OwnIsNewestStep DEF Tidy
<1>3. (batched => SomeCurrent)'
  BY SomeCurrentStep, BatchedStays DEF Tidy
<1>4. QED BY <1>1, <1>2, <1>3 DEF Tidy

LEMMA AlwaysTidy == Spec => []Tidy
<1>1. QED BY TidyInitial, TidyStep, PTL DEF Spec

(* A role has at most one current version, and no version uploaded to a    *)
(* live work is newer than it, in every order of the backend calls of any  *)
(* number of uploads, reads, merges and deletes, and with records that are *)
(* torn.                                                                   *)
THEOREM NewestIsCurrent == Spec => []CurrentIsNewest
<1>1. Tidy => CurrentIsNewest
  BY DEF Tidy, CurrentIsNewest, OneFlag, OwnIsNewest, SameRole
<1>2. QED BY <1>1, AlwaysTidy, PTL
------------------------------------------------------------------------------
(* Bytes, as long as no delete overlaps another request. *)

(* Each row belongs to a work that is there and names bytes that are, under *)
(* the id of a work that is there and that redirects where its own does.   *)
RowsBacked ==
  \A r \in artifacts :
    /\ r.node \in nodes /\ r.key.node \in nodes /\ blob[r.key] # NoBody
    /\ Root(merged_into, r.key.node) = Root(merged_into, r.node)

(* What a request at some step relies on. *)
Holds(r) ==
  /\ r.step \in {"next_version", "blob_put", "record"} => r.cur \in nodes
  /\ r.step = "record" => blob[KeyOf(r)] # NoBody
  /\ r.step = "blob_get" => \A k \in r.keys : blob[k] # NoBody
  /\ r.step = "delete_network" => Live(r.cur)
  /\ r.step = "blob_delete" => \A k \in r.keys : k.node \notin nodes

DeletesAlone ==
  \A c, d \in Callers : c # d /\ req[c].op = "delete_work" /\ req[c].step # "idle"
                        => req[d].step = "idle"

Backed == RowsBacked /\ DeletesAlone /\ \A c \in Callers : Holds(req[c])

LEMMA ProceedsCall ==
  ASSUME IInv, NEW c \in Callers, Proceeds(c)
  PROVE  req'[c] = Idle \/ req'[c].op = req[c].op
<1>1. CASE GetAlias(c) \/ CurrentArtifact(c) \/ DeleteNetwork(c) \/ BlobDelete(c)
  BY <1>1, GetAliasFields, CurrentArtifactFields, DeleteNetworkFields, BlobDeleteFields
     DEF SameCall
<1>2. CASE ResolveLive(c)
  BY <1>2, ResolveLiveFields DEF SameCall
<1>3. CASE PickVersion(c) \/ BlobPut(c)
  BY <1>3, PickVersionFields, BlobPutFields DEF SameCall
<1>4. CASE Record(c) \/ TornRecord(c) \/ BlobGet(c) \/ Fail(c)
  BY <1>4, RecordFields, EndFields
<1>5. QED BY <1>1, <1>2, <1>3, <1>4 DEF Proceeds

LEMMA IdleHolds ==
  ASSUME NEW r, r.step \in {"idle", "get_alias", "resolve_live", "current_artifact"}
  PROVE  Holds(r) /\ Holds(r)'
BY DEF Holds

LEMMA OthersHold ==
  ASSUME IInv, DeletesAlone, NEW c \in Callers, NEW d \in Callers, d # c,
         req[c].step # "idle", Holds(req[d]),
         \/ req[c].op = "delete_work"
         \/ UNCHANGED nodes /\ \A k \in Keys : blob[k] # NoBody => blob'[k] # NoBody
  PROVE  Holds(req[d])' \/ req'[d] # req[d]
<1> SUFFICES ASSUME req'[d] = req[d] PROVE Holds(req[d])'
  OBVIOUS
<1> DEFINE r == req[d]
<1>1. r \in Requests /\ Shape(r)
  BY DEF IInv, TypeOK
<1>2. CASE r.step = "idle"
  BY <1>2 DEF Holds
<1>3. CASE r.step # "idle"
  <2>1. r.op # "delete_work" /\ req[c].op # "delete_work"
    BY <1>3 DEF DeletesAlone
  <2>2. UNCHANGED nodes /\ \A k \in Keys : blob[k] # NoBody => blob'[k] # NoBody
    BY <2>1
  <2>3. r.step \notin {"delete_network", "blob_delete"}
    BY <1>1, <2>1 DEF Shape
  <2>4. r.step = "record" => KeyOf(r) \in Keys
    BY <1>1, KeyType DEF Shape
  <2>5. r.keys \subseteq Keys
    BY <1>1, RequestFields
  <2>6. KeyOf(req[d])' = KeyOf(r)
    BY DEF KeyOf
  <2>7. QED BY <2>2, <2>3, <2>4, <2>5, <2>6 DEF Holds
<1>4. QED BY <1>2, <1>3

LEMMA CallsBacked ==
  ASSUME IInv, Backed, NEW c \in Callers, Calls(c), ~clashed'
  PROVE  Backed'
<1>1. PICK op \in {"put_content", "get_content", "delete_work"} :
        /\ Begins(c, op) /\ req'[c].step = "get_alias" /\ req'[c].op = op
        /\ \A d \in Callers : d # c => req'[d] = req[d]
        /\ UNCHANGED <<catalog, artifacts, blob, batched, failures>>
  BY CallFields
<1>2. /\ op = "delete_work" => \A d \in Callers : req[d].step = "idle"
      /\ \A d \in Callers : req[d].op = "delete_work" => req[d].step = "idle"
  BY <1>1, BeginsFields
<1>3. RowsBacked'
  BY <1>1 DEF Backed, RowsBacked, catalog
<1>4. DeletesAlone'
  BY <1>1, <1>2 DEF DeletesAlone
<1>5. ASSUME NEW d \in Callers
      PROVE  Holds(req[d])'
  <2>1. CASE d = c
    BY <1>1, <2>1 DEF Holds
  <2>2. CASE d # c
    <3>1. req'[d] = req[d] /\ Holds(req[d]) /\ UNCHANGED <<nodes, merged_into, blob>>
      BY <1>1, <2>2 DEF Backed, catalog
    <3>2. QED BY <3>1 DEF Holds, KeyOf, Live
  <2>3. QED BY <2>1, <2>2
<1>6. QED BY <1>3, <1>4, <1>5 DEF Backed

LEMMA MergeBacked ==
  ASSUME IInv, Backed, NEW c \in Callers, Merge(c), ~clashed'
  PROVE  Backed'
<1>1. UNCHANGED <<nodes, blob, req>>
  BY MergeFields
<1>2. PICK s \in Ids, l \in Ids :
        /\ s < l /\ s \in nodes /\ l \in nodes
        /\ merged_into[s] = NoId /\ merged_into[l] = NoId
        /\ merged_into' = [merged_into EXCEPT ![l] = s]
        /\ artifacts' = ArtifactsFolded(s, l)
  BY MergeFields
<1>3. /\ merged_into \in Redirection /\ Decreasing(merged_into)
      /\ \A x \in Ids : Root(merged_into', x) = IF Root(merged_into, x) = l THEN s
                                                ELSE Root(merged_into, x)
      /\ Root(merged_into, l) = l /\ Root(merged_into, s) = s /\ s # l
  <2>1. merged_into \in Redirection /\ Decreasing(merged_into)
    BY DEF IInv, TypeOK
  <2>2. \A x \in Ids : Root(merged_into', x) = IF Root(merged_into, x) = l THEN s
                                               ELSE Root(merged_into, x)
    <3>1. s < l /\ merged_into[s] = NoId /\ merged_into[l] = NoId
      BY <1>2
    <3>2. \A x \in Ids : Root([merged_into EXCEPT ![l] = s], x) =
                         IF Root(merged_into, x) = l THEN s ELSE Root(merged_into, x)
      BY <2>1, <3>1, MergedRoots
    <3>3. QED BY <1>2, <3>2
  <2>3. Root(merged_into, l) = l /\ Root(merged_into, s) = s
    BY <1>2, <2>1, RootStep
  <2>4. s # l
    BY <1>2, IdsAssumption
  <2>5. QED BY <2>1, <2>2, <2>3, <2>4
<1>4. RowsBacked'
  <2> SUFFICES ASSUME NEW x \in artifacts'
               PROVE  /\ x.node \in nodes /\ x.key.node \in nodes /\ blob[x.key] # NoBody
                      /\ Root(merged_into', x.key.node) = Root(merged_into', x.node)
    BY <1>1 DEF RowsBacked
  <2>1. PICK o \in artifacts :
          SameBytes(x, o) /\ (IF o.node # l THEN x = o ELSE x.node = s)
    BY <1>2, FoldedRows
  <2>2. /\ o.node \in nodes /\ o.key.node \in nodes /\ blob[o.key] # NoBody
        /\ Root(merged_into, o.key.node) = Root(merged_into, o.node)
        /\ o.node \in Ids /\ o.key.node \in Ids
    BY RowFields DEF Backed, RowsBacked
  <2>3. x.key = o.key
    BY <2>1 DEF SameBytes
  <2>4. CASE o.node # l
    BY <1>3, <2>1, <2>2, <2>4
  <2>5. CASE o.node = l
    BY <1>2, <1>3, <2>1, <2>2, <2>3, <2>5
  <2>6. QED BY <2>4, <2>5
<1>5. \A d \in Callers : req[d].op = "delete_work" => req[d].step = "idle"
  BY MergeFields, BeginsFields
<1>6. ASSUME NEW d \in Callers
      PROVE  Holds(req[d])'
  <2>1. Holds(req[d]) /\ Shape(req[d])
    BY DEF Backed, IInv
  <2>2. req[d].step \notin {"delete_network", "blob_delete"}
    BY <1>5, <2>1 DEF Shape
  <2>3. QED BY <1>1, <2>1, <2>2 DEF Holds, KeyOf
<1>7. DeletesAlone'
  BY <1>1 DEF Backed, DeletesAlone
<1>8. QED BY <1>4, <1>6, <1>7 DEF Backed
(* Where the redirects lead does not change while nothing merges or goes. *)
LEMMA ResolveRoots ==
  ASSUME IInv, NEW c \in Callers, ResolveLive(c)
  PROVE  \A x \in Ids : Root(merged_into', x) = Root(merged_into, x)
<1>1. /\ merged_into \in Redirection /\ Decreasing(merged_into) /\ req[c].cur \in Ids
      /\ (UNCHANGED merged_into \/ merged_into' = Compressed(merged_into, req[c].cur))
  BY ResolveLiveFields DEF IInv, TypeOK
<1>2. QED BY <1>1, CompressedRoots

LEMMA ResolvedLive ==
  ASSUME IInv, NEW c \in Callers, ResolveLive(c), req'[c] # Idle
  PROVE  req'[c].cur \in nodes' /\ merged_into'[req'[c].cur] = NoId
<1> DEFINE r == req[c]
           top == Root(merged_into, r.cur)
<1>1. /\ UNCHANGED nodes /\ r.cur \in Ids /\ req'[c].cur = top
      /\ Chain(merged_into, r.cur) \subseteq nodes
      /\ merged_into' = Compressed(merged_into, r.cur)
  BY ResolveLiveFields
<1>2. top \in Chain(merged_into, r.cur) /\ merged_into[top] = NoId /\ top \in Ids
  BY <1>1, RootProperty, RootLive DEF IInv, TypeOK
<1>3. merged_into'[top] = NoId /\ top \in nodes
  BY <1>1, <1>2 DEF Compressed
<1>4. QED BY <1>1, <1>3

LEMMA RecordBacked ==
  ASSUME IInv, RowsBacked, NEW c \in Callers, Holds(req[c]), Record(c) \/ TornRecord(c)
  PROVE  RowsBacked'
<1> DEFINE r == req[c]
           flipped == Flipped(r.cur, r.role)
<1>1. /\ r \in Requests /\ r.cur \in Ids /\ r.step = "record"
      /\ UNCHANGED <<nodes, merged_into, blob>>
      /\ artifacts' = artifacts \/ artifacts' = flipped \/ artifacts' = flipped \union {NewRow(r)}
  BY RecordFields DEF catalog
<1>2. ASSUME NEW x \in artifacts'
      PROVE  \/ \E o \in artifacts : x.key = o.key /\ x.node = o.node
             \/ x.key = KeyOf(r) /\ x.node = r.cur
  <2>1. x \in artifacts \/ x \in flipped \/ x = NewRow(r)
    BY <1>1
  <2>2. NewRow(r).key = KeyOf(r) /\ NewRow(r).node = r.cur
    BY <1>1, NewRowFields
  <2>3. x \in flipped => \E o \in artifacts : x.key = o.key /\ x.node = o.node
    BY FlippedRows DEF SameBytes
  <2>4. QED BY <2>1, <2>2, <2>3
<1>3. r.cur \in nodes /\ blob[KeyOf(r)] # NoBody /\ KeyOf(r).node = r.cur
  BY <1>1, KeyType DEF Holds
<1>4. QED BY <1>1, <1>2, <1>3 DEF RowsBacked

(* What a delete takes: every row of the work's network, whose bytes all   *)
(* belong to works of the network too.                                     *)
LEMMA DeleteTakes ==
  ASSUME IInv, RowsBacked, NEW c \in Callers, Live(req[c].cur), DeleteNetwork(c)
  PROVE  LET net == NetworkOf(merged_into, nodes, req[c].cur)
         IN  /\ \A o \in artifacts : o.node \in net <=> o.key.node \in net
             /\ \A x \in Ids : Root(merged_into, x) # req[c].cur
                               => Root(merged_into', x) = Root(merged_into, x)
             /\ \A x \in net : x \in nodes /\ Root(merged_into, x) = req[c].cur
             /\ \A x \in nodes : Root(merged_into, x) = req[c].cur => x \in net
<1> DEFINE n == req[c].cur
           net == NetworkOf(merged_into, nodes, n)
           k == [x \in Ids |-> IF x \in net THEN NoId ELSE merged_into[x]]
<1>1. /\ merged_into \in Redirection /\ Decreasing(merged_into) /\ nodes \in SUBSET Ids
      /\ n \in nodes /\ merged_into[n] = NoId
  BY DEF IInv, TypeOK, Live
<1>2. /\ net \subseteq nodes /\ \A x \in net : Root(merged_into, x) = n
      /\ \A x \in nodes : Root(merged_into, x) = n => x \in net
      /\ \A x \in Ids : Root(merged_into, x) # n => Root(k, x) = Root(merged_into, x)
  <2> HIDE DEF n
  <2>1. QED BY <1>1, NetworkRoots
<1>3. merged_into' = k
  BY DeleteNetworkFields
<1> HIDE DEF k, net
<1>4. \A o \in artifacts : o.node \in net <=> o.key.node \in net
  BY <1>2 DEF RowsBacked
<1>5. QED BY <1>2, <1>3, <1>4 DEF net

LEMMA DeleteBacked ==
  ASSUME IInv, RowsBacked, NEW c \in Callers, Holds(req[c]), DeleteNetwork(c)
  PROVE  RowsBacked' /\ Holds(req[c])'
<1> DEFINE n == req[c].cur
           net == NetworkOf(merged_into, nodes, n)
<1>1. /\ req[c].step = "delete_network" /\ UNCHANGED blob
      /\ nodes' = nodes \ net
      /\ artifacts' = {o \in artifacts : o.node \notin net}
      /\ \/ req'[c] = Idle
         \/ /\ req'[c].step = "blob_delete"
            /\ \A k \in req'[c].keys : \E o \in artifacts : o.node \in net /\ o.key = k
  BY DeleteNetworkFields
<1>2. Live(n)
  BY <1>1 DEF Holds
<1>3. /\ \A o \in artifacts : o.node \in net <=> o.key.node \in net
      /\ \A x \in Ids : Root(merged_into, x) # n => Root(merged_into', x) = Root(merged_into, x)
      /\ \A x \in nodes : Root(merged_into, x) = n => x \in net
  BY <1>2, DeleteTakes
<1> HIDE DEF net
<1>4. RowsBacked'
  <2> SUFFICES ASSUME NEW o \in artifacts, o.node \notin net
               PROVE  /\ o.node \in nodes \ net /\ o.key.node \in nodes \ net
                      /\ blob[o.key] # NoBody
                      /\ Root(merged_into', o.key.node) = Root(merged_into', o.node)
    BY <1>1 DEF RowsBacked
  <2>1. /\ o.node \in nodes /\ o.key.node \in nodes /\ blob[o.key] # NoBody
        /\ Root(merged_into, o.key.node) = Root(merged_into, o.node)
        /\ o.node \in Ids /\ o.key.node \in Ids
    BY RowFields DEF RowsBacked
  <2>2. o.key.node \notin net /\ Root(merged_into, o.node) # n
    BY <1>3, <2>1
  <2>3. QED BY <1>3, <2>1, <2>2
<1>5. Holds(req[c])'
  <2>1. CASE req'[c] = Idle
    BY <2>1, IdleRequest DEF Holds
  <2>2. CASE req'[c].step = "blob_delete"
                /\ \A k \in req'[c].keys : \E o \in artifacts : o.node \in net /\ o.key = k
    <3>1. \A k \in req'[c].keys : k.node \in net
      BY <1>3, <2>2
    <3>2. QED BY <1>1, <2>2, <3>1 DEF Holds
  <2>3. QED BY <1>1, <2>1, <2>2
<1>6. QED BY <1>4, <1>5

LEMMA ProceedsBacked ==
  ASSUME IInv, Backed, NEW c \in Callers, Proceeds(c)
  PROVE  Backed'
<1> DEFINE r == req[c]
           q == req'[c]
<1>1. /\ r.step # "idle" /\ \A d \in Callers : d # c => req'[d] = req[d]
      /\ req' \in [Callers -> Requests] /\ \A d \in Callers : Shape(req'[d])
  BY ProceedsFields
<1>2. DeletesAlone'
  BY <1>1, ProceedsCall, IdleRequest DEF Backed, DeletesAlone
<1>3. Holds(r) /\ r \in Requests /\ Shape(r) /\ RowsBacked /\ DeletesAlone
  BY DEF Backed, IInv, TypeOK
<1>4. ASSUME \/ r.op = "delete_work"
             \/ UNCHANGED nodes /\ \A k \in Keys : blob[k] # NoBody => blob'[k] # NoBody,
             RowsBacked', Holds(req[c])'
      PROVE  Backed'
  <2>1. ASSUME NEW d \in Callers PROVE Holds(req[d])'
    <3>1. CASE d = c
      BY <1>4, <3>1
    <3>2. CASE d # c
      <4>1. Holds(req[d]) /\ req'[d] = req[d]
        BY <1>1, <3>2 DEF Backed
      <4>2. QED BY <1>1, <1>3, <1>4, <3>2, <4>1, OthersHold
    <3>3. QED BY <3>1, <3>2
  <2>2. QED BY <1>2, <1>4, <2>1 DEF Backed
<1>5. CASE GetAlias(c) \/ PickVersion(c) \/ CurrentArtifact(c) \/ BlobGet(c) \/ Fail(c)
  <2>1. UNCHANGED <<nodes, merged_into, artifacts, blob>>
    BY <1>5, GetAliasFields, PickVersionFields, CurrentArtifactFields, EndFields DEF catalog
  <2>2. RowsBacked'
    BY <1>3, <2>1 DEF RowsBacked
  <2>3. \/ q.step \in {"idle", "resolve_live"}
        \/ q.step = "blob_put" /\ q.cur = r.cur /\ r.step = "next_version"
        \/ q.step = "blob_get" /\ \E o \in artifacts : q.keys = {o.key}
    BY <1>5, GetAliasFields, PickVersionFields, CurrentArtifactFields, EndFields, IdleRequest
  <2>4. Holds(req[c])'
    BY <1>3, <2>1, <2>3 DEF Holds, RowsBacked
  <2>5. QED BY <1>4, <2>1, <2>2, <2>4
<1>6. CASE ResolveLive(c)
  <2>1. /\ UNCHANGED <<nodes, artifacts, blob>>
        /\ q = Idle \/ q.step \in {"next_version", "current_artifact", "delete_network"}
    BY <1>6, ResolveLiveFields
  <2>2. RowsBacked'
    BY <1>3, <1>6, <2>1, ResolveRoots, RowFields DEF RowsBacked
  <2>3. Holds(req[c])'
    <3>1. CASE q = Idle
      BY <3>1, IdleRequest DEF Holds
    <3>2. CASE q # Idle
      BY <1>6, <2>1, <3>2, ResolvedLive DEF Holds, Live
    <3>3. QED BY <3>1, <3>2
  <2>4. QED BY <1>4, <2>1, <2>2, <2>3
<1>7. CASE BlobPut(c)
  <2>1. /\ UNCHANGED <<nodes, merged_into, artifacts>> /\ r.step = "blob_put"
        /\ blob' = [blob EXCEPT ![KeyOf(r)] = r.body] /\ r.body \in Bodies /\ KeyOf(r) \in Keys
        /\ q.step = "record" /\ q.cur = r.cur /\ q.role = r.role /\ q.version = r.version
    BY <1>7, BlobPutFields DEF catalog, SameCall
  <2>2. /\ \A k \in Keys : blob[k] # NoBody => blob'[k] # NoBody
        /\ blob'[KeyOf(r)] # NoBody
    BY <2>1, LibraryAssumption DEF IInv, TypeOK
  <2>3. RowsBacked'
    BY <1>3, <2>1, <2>2, RowFields DEF RowsBacked
  <2>4. KeyOf(req[c])' = KeyOf(r)
    BY <2>1 DEF KeyOf
  <2>5. Holds(req[c])'
    BY <1>3, <2>1, <2>2, <2>4 DEF Holds
  <2>6. QED BY <1>4, <2>1, <2>2, <2>3, <2>5
<1>8. CASE Record(c) \/ TornRecord(c)
  <2>1. UNCHANGED <<nodes, blob>> /\ q = Idle
    BY <1>8, RecordFields DEF catalog
  <2>2. Holds(req[c])'
    BY <2>1, IdleRequest DEF Holds
  <2>3. QED BY <1>3, <1>4, <1>8, <2>1, <2>2, RecordBacked
<1>9. CASE DeleteNetwork(c)
  BY <1>3, <1>4, <1>9, DeleteNetworkFields, DeleteBacked
<1>10. CASE BlobDelete(c)
  <2>1. /\ UNCHANGED <<nodes, merged_into, artifacts>> /\ r.step = "blob_delete"
        /\ r.op = "delete_work"
        /\ \E k \in r.keys : k \in Keys /\ (blob' = [blob EXCEPT ![k] = NoBody] \/ UNCHANGED blob)
        /\ q = Idle \/ (q.step = "blob_delete" /\ q.keys \subseteq r.keys)
    BY <1>10, BlobDeleteFields DEF catalog
  <2>2. \A k \in r.keys : k.node \notin nodes
    BY <1>3, <2>1 DEF Holds
  <2>3. \A o \in artifacts : o.key \in Keys /\ o.key \notin r.keys
    BY <1>3, <2>2, RowFields DEF RowsBacked
  <2>4. \A o \in artifacts : blob'[o.key] = blob[o.key]
    BY <2>1, <2>3 DEF IInv, TypeOK
  <2>5. RowsBacked'
    BY <1>3, <2>1, <2>4 DEF RowsBacked
  <2>6. Holds(req[c])'
    BY <2>1, <2>2, IdleRequest DEF Holds
  <2>7. QED BY <1>4, <2>1, <2>5, <2>6
<1>11. QED BY <1>5, <1>6, <1>7, <1>8, <1>9, <1>10 DEF Proceeds
LEMMA ClashedStays ==
  ASSUME IInv, [Next]_vars, ~clashed'
  PROVE  ~clashed
<1>1. ASSUME NEW c \in Callers, Calls(c) \/ Merge(c)
      PROVE  ~clashed
  BY <1>1, CallFields, MergeFields, BeginsFields
<1>2. ASSUME NEW c \in Callers, Proceeds(c)
      PROVE  ~clashed
  BY <1>2, ProceedsFields DEF history
<1>3. QED BY <1>1, <1>2, StepKinds DEF vars

Served == Tidy /\ (~clashed => Backed)

LEMMA ServedInitial == Init => Served
<1> SUFFICES ASSUME Init PROVE Served
  OBVIOUS
<1>1. Tidy /\ artifacts = {} /\ \A c \in Callers : req[c] = Idle
  BY TidyInitial DEF Init
<1>2. QED
  BY <1>1, IdleRequest DEF Served, Backed, RowsBacked, DeletesAlone, Holds

LEMMA ServedStep == Served /\ [Next]_vars => Served'
<1> SUFFICES ASSUME Served, [Next]_vars PROVE Served'
  OBVIOUS
<1>1. Tidy' /\ Tidy /\ IInv
  BY TidyStep DEF Served, Tidy
<1>2. ASSUME ~clashed' PROVE Backed'
  <2>1. Backed
    BY <1>1, <1>2, ClashedStays DEF Served
  <2>2. CASE UNCHANGED vars
    BY <2>1, <2>2 DEF vars, Backed, RowsBacked, DeletesAlone, Holds, KeyOf, Live
  <2>3. QED
    BY <1>1, <1>2, <2>1, <2>2, CallsBacked, MergeBacked, ProceedsBacked, StepKinds
<1>3. QED BY <1>1, <1>2 DEF Served

LEMMA AlwaysServed == Spec => []Served
<1>1. QED BY ServedInitial, ServedStep, PTL DEF Spec

(* Where record is one transaction a role that has versions always has one *)
(* current version; and on either store a get_content that was given a     *)
(* descriptor finds its bytes, as long as no delete_work has overlapped    *)
(* another request.                                                        *)
THEOREM BytesServed == Spec => []VersionsServed
<1>1. Served => VersionsServed
  <2> SUFFICES ASSUME Served PROVE VersionsServed
    OBVIOUS
  <2>1. ASSUME batched PROVE OneCurrent
    <3> SUFFICES ASSUME NEW r \in artifacts
                 PROVE  \E q \in RowsOf(r.node, r.role) :
                          q.current /\ \A p \in RowsOf(r.node, r.role) : p.current => p = q
      BY DEF OneCurrent
    <3>1. PICK q \in artifacts : SameRole(r, q) /\ q.current
      BY <2>1 DEF Served, Tidy, SomeCurrent
    <3>2. \A p \in RowsOf(r.node, r.role) : p.current => p = q
      BY <3>1 DEF Served, Tidy, OneFlag, SameRole, RowsOf
    <3>3. QED BY <3>1, <3>2 DEF RowsOf, SameRole
  <2>2. ASSUME ~clashed PROVE ReadsFindBytes
    BY <2>2 DEF Served, Backed, Holds, ReadsFindBytes
  <2>3. QED BY <2>1, <2>2 DEF VersionsServed
<1>2. QED BY <1>1, AlwaysServed, PTL
------------------------------------------------------------------------------
(* Rows and bytes, with requests one at a time. *)

KeysMatch ==
  \A r \in artifacts :
    /\ r.key.role = r.role /\ r.key.version = r.version
    /\ blob[r.key] = r.hash /\ Live(r.node)

OneAtATime ==
  \A c, d \in Callers : c # d => req[c].step = "idle" \/ req[d].step = "idle"

(* The version a put_content has picked is still free. *)
Fresh(r) ==
  /\ r.step \in {"next_version", "blob_put", "record"} => Live(r.cur)
  /\ Picked(r) => \A q \in RowsOf(r.cur, r.role) : q.version # r.version
  /\ r.step = "record" => blob[KeyOf(r)] = r.body

(* While no request was cut short, every blob is a row's, or the one that  *)
(* is about to be recorded or deleted, or one that a merge dropped.        *)
Accounted(k) ==
  /\ Live(k.node) => \/ \E r \in artifacts : r.key = k
                     \/ \E c \in Callers : req[c].step = "record" /\ KeyOf(req[c]) = k
  /\ k.node \notin nodes => \/ \E b \in Bridges : k.node = b[2]
                            \/ \E c \in Callers : req[c].step = "blob_delete" /\ k \in req[c].keys

AllAccounted == failures = 0 => \A k \in Keys : blob[k] # NoBody => Accounted(k)

Losers == \A n \in Ids : merged_into[n] # NoId => \E b \in Bridges : n = b[2]

Serial ==
  /\ Backed /\ KeysMatch /\ OneAtATime /\ (\A c \in Callers : Fresh(req[c])) /\ AllAccounted

Matched == Served /\ Losers /\ (~raced => ~clashed /\ Serial)

LEMMA LosersStep ==
  ASSUME IInv, Losers, [Next]_vars
  PROVE  Losers'
<1> SUFFICES ASSUME NEW n \in Ids, merged_into'[n] # NoId
             PROVE  \E b \in Bridges : n = b[2]
  BY DEF Losers
<1>1. CASE merged_into'[n] = merged_into[n]
  BY <1>1 DEF Losers
<1>2. ASSUME NEW c \in Callers, Merge(c)
      PROVE  \E b \in Bridges : n = b[2]
  <2>1. PICK s \in Ids, l \in Ids :
          <<s, l>> \in Bridges /\ merged_into' = [merged_into EXCEPT ![l] = s]
    BY <1>2, MergeFields
  <2>2. CASE n = l
    BY <2>1, <2>2
  <2>3. CASE n # l
    BY <1>1, <2>1, <2>3 DEF IInv, TypeOK, Redirection
  <2>4. QED BY <2>2, <2>3
<1>3. ASSUME NEW c \in Callers, ResolveLive(c)
      PROVE  merged_into[n] # NoId
  BY <1>3, ResolveLiveFields DEF Compressed
<1>4. ASSUME NEW c \in Callers, DeleteNetwork(c)
      PROVE  merged_into'[n] = merged_into[n]
  <2> DEFINE net == NetworkOf(merged_into, nodes, req[c].cur)
  <2>1. merged_into' = [m \in Ids |-> IF m \in net THEN NoId ELSE merged_into[m]]
    BY <1>4, DeleteNetworkFields
  <2> HIDE DEF net
  <2>2. QED BY <2>1
<1>5. ASSUME NEW c \in Callers,
             Calls(c) \/ (Proceeds(c) /\ ~ResolveLive(c) /\ ~DeleteNetwork(c))
      PROVE  merged_into' = merged_into
  BY <1>5, CallFields, GetAliasFields, PickVersionFields, BlobPutFields, RecordFields,
     CurrentArtifactFields, EndFields, BlobDeleteFields DEF Proceeds, catalog
<1>6. QED BY <1>1, <1>2, <1>3, <1>4, <1>5, StepKinds DEF vars, Losers

(* Two rows with one key are one row. *)
LEMMA OneRowPerKey ==
  ASSUME Served, Serial, NEW r \in artifacts
  PROVE  /\ Root(merged_into, r.key.node) = r.node
         /\ Live(r.key.node) => r.key.node = r.node
         /\ \A q \in artifacts : q.key = r.key => q = r
<1>1. IInv /\ merged_into \in Redirection /\ Decreasing(merged_into)
  BY DEF Served, Tidy, IInv, TypeOK
<1>2. \A o \in artifacts : Root(merged_into, o.key.node) = o.node
  <2> SUFFICES ASSUME NEW o \in artifacts
               PROVE  Root(merged_into, o.key.node) = o.node
    OBVIOUS
  <2>1. /\ Root(merged_into, o.key.node) = Root(merged_into, o.node)
        /\ o.node \in Ids /\ merged_into[o.node] = NoId
    BY <1>1, RowFields DEF Serial, Backed, RowsBacked, KeysMatch, Live
  <2>2. QED BY <1>1, <2>1, RootStep
<1>3. Live(r.key.node) => r.key.node = r.node
  BY <1>1, <1>2, RowFields, RootStep DEF Live
<1>4. ASSUME NEW q \in artifacts, q.key = r.key
      PROVE  q = r
  <2>1. q.node = r.node /\ q.role = r.role /\ q.version = r.version
    BY <1>2, <1>4 DEF Serial, KeysMatch
  <2>2. QED BY <2>1 DEF Served, Tidy, PrimaryKey, SameRole
<1>5. QED BY <1>2, <1>3, <1>4

(* Bytes that a row names are never overwritten nor deleted. *)
LEMMA BytesStay ==
  ASSUME Served, Serial, [Next]_vars, NEW o \in artifacts
  PROVE  blob'[o.key] = blob[o.key]
<1>1. IInv /\ blob \in [Keys -> Bodies \union {NoBody}] /\ o.key \in Keys
  <2>1. IInv
    BY DEF Served, Tidy
  <2>2. QED BY <2>1, RowFields DEF IInv, TypeOK
<1>2. ASSUME NEW c \in Callers, BlobPut(c)
      PROVE  blob'[o.key] = blob[o.key]
  <2> DEFINE r == req[c]
  <2>1. /\ r.step = "blob_put" /\ r.cur \in Ids /\ KeyOf(r) \in Keys
        /\ blob' = [blob EXCEPT ![KeyOf(r)] = r.body]
    BY <1>1, <1>2, BlobPutFields
  <2>2. /\ r \in Requests /\ Live(r.cur) /\ \A q \in RowsOf(r.cur, r.role) : q.version # r.version
    BY <1>1, <2>1 DEF Serial, Fresh, Picked, IInv, TypeOK
  <2>3. ASSUME o.key = KeyOf(r) PROVE FALSE
    <3>1. o.key.node = r.cur /\ o.key.role = r.role /\ o.key.version = r.version
      BY <2>1, <2>2, <2>3, KeyType
    <3>2. o.node = r.cur
      BY <2>2, <3>1, OneRowPerKey
    <3>3. o.role = r.role /\ o.version = r.version
      BY <3>1 DEF Serial, KeysMatch
    <3>4. QED BY <2>2, <3>2, <3>3 DEF RowsOf
  <2>4. QED BY <1>1, <2>1, <2>3
<1>3. ASSUME NEW c \in Callers, BlobDelete(c)
      PROVE  blob'[o.key] = blob[o.key]
  <2>1. /\ req[c].step = "blob_delete"
        /\ \E k \in req[c].keys : blob' = [blob EXCEPT ![k] = NoBody] \/ UNCHANGED blob
    BY <1>1, <1>3, BlobDeleteFields
  <2>2. o.key \notin req[c].keys
    BY <2>1 DEF Serial, Backed, RowsBacked, Holds
  <2>3. QED BY <1>1, <2>1, <2>2
<1>4. ASSUME NEW c \in Callers,
             Calls(c) \/ Merge(c) \/ (Proceeds(c) /\ ~BlobPut(c) /\ ~BlobDelete(c))
      PROVE  blob' = blob
  BY <1>1, <1>4, CallFields, MergeFields, GetAliasFields, ResolveLiveFields, PickVersionFields,
     RecordFields, CurrentArtifactFields, EndFields, DeleteNetworkFields DEF Proceeds
<1>5. QED BY <1>2, <1>3, <1>4, StepKinds DEF vars
LEMMA IdleFresh ==
  ASSUME NEW r, r.step \in {"idle", "get_alias", "resolve_live", "current_artifact", "blob_get",
                            "delete_network", "blob_delete"}
  PROVE  Fresh(r) /\ Fresh(r)'
BY DEF Fresh, Picked

LEMMA CallsSerial ==
  ASSUME Served, Serial, NEW c \in Callers, Calls(c), ~raced'
  PROVE  /\ KeysMatch' /\ OneAtATime' /\ AllAccounted' /\ \A d \in Callers : Fresh(req[d])'
<1>0. IInv
  BY DEF Served, Tidy
<1>1. /\ \A d \in Callers : req[d].step = "idle"
      /\ req'[c].step = "get_alias" /\ \A d \in Callers : d # c => req'[d] = req[d]
      /\ UNCHANGED <<nodes, merged_into, alias, artifacts, blob, failures>>
  BY <1>0, CallFields, BeginsFields DEF catalog
<1>2. KeysMatch'
  BY <1>1 DEF Serial, KeysMatch, Live
<1>3. OneAtATime'
  BY <1>1 DEF OneAtATime
<1>4. AllAccounted'
  BY <1>1 DEF Serial, AllAccounted, Accounted, Live
<1>5. \A d \in Callers : req'[d].step \in {"idle", "get_alias"}
  BY <1>1
<1>6. ASSUME NEW d \in Callers PROVE Fresh(req[d])'
  BY <1>5 DEF Fresh, Picked
<1>7. QED BY <1>2, <1>3, <1>4, <1>6

LEMMA MergeSerial ==
  ASSUME Served, Serial, NEW c \in Callers, Merge(c), ~raced', [Next]_vars
  PROVE  /\ KeysMatch' /\ OneAtATime' /\ AllAccounted' /\ \A d \in Callers : Fresh(req[d])'
<1>0. IInv
  BY DEF Served, Tidy
<1>1. /\ \A d \in Callers : req[d].step = "idle"
      /\ UNCHANGED <<nodes, req, blob, failures>>
  BY <1>0, MergeFields, BeginsFields
<1>2. PICK s \in Ids, l \in Ids :
        /\ s < l /\ s \in nodes /\ l \in nodes
        /\ merged_into[s] = NoId /\ merged_into[l] = NoId
        /\ merged_into' = [merged_into EXCEPT ![l] = s]
        /\ artifacts' = ArtifactsFolded(s, l)
  BY <1>0, MergeFields
<1>3. /\ s # l /\ merged_into \in Redirection
      /\ \A n \in Ids : n # l => (Live(n)' <=> Live(n))
      /\ ~Live(l)'
  <2>1. s # l /\ s # NoId /\ merged_into \in Redirection
    BY <1>0, <1>2, IdsAssumption DEF IInv, TypeOK
  <2>2. QED BY <1>1, <1>2, <2>1 DEF Live, Redirection
<1>4. KeysMatch'
  <2> SUFFICES ASSUME NEW x \in artifacts'
               PROVE  /\ x.key.role = x.role /\ x.key.version = x.version
                      /\ blob[x.key] = x.hash /\ x.node \in nodes' /\ merged_into'[x.node] = NoId
    BY <1>1 DEF KeysMatch, Live
  <2>1. PICK o \in artifacts :
          SameBytes(x, o) /\ (IF o.node # l THEN x = o ELSE x.node = s)
    BY <1>0, <1>2, FoldedRows
  <2>2. /\ o.key.role = o.role /\ o.key.version = o.version /\ blob[o.key] = o.hash
        /\ Live(o.node) /\ o.node \in Ids
    BY <1>0, RowFields DEF Serial, KeysMatch
  <2>3. CASE o.node # l
    BY <1>3, <2>1, <2>2, <2>3 DEF Live
  <2>4. CASE o.node = l
    BY <1>1, <1>2, <1>3, <2>1, <2>2, <2>4 DEF Live, SameBytes, Redirection
  <2>5. QED BY <2>3, <2>4
<1>5. AllAccounted'
  <2> SUFFICES ASSUME failures = 0, NEW k \in Keys, blob[k] # NoBody
               PROVE  Accounted(k)'
    BY <1>1 DEF AllAccounted
  <2>1. Accounted(k) /\ k.node \in Ids
    BY DEF Serial, AllAccounted, Keys
  <2>2. ASSUME Live(k.node)' PROVE \E r \in artifacts' : r.key = k
    <3>1. Live(k.node) /\ k.node # l
      BY <1>3, <2>1, <2>2
    <3>2. PICK o \in artifacts : o.key = k
      BY <1>1, <2>1, <3>1 DEF Accounted
    <3>3. o.node # l
      BY <3>1, <3>2, OneRowPerKey
    <3>4. QED BY <1>0, <1>2, <3>2, <3>3, FoldedRows
  <2>3. ASSUME k.node \notin nodes' PROVE \E b \in Bridges : k.node = b[2]
    BY <1>1, <2>1, <2>3 DEF Accounted
  <2>4. QED BY <2>2, <2>3 DEF Accounted
<1>6. ASSUME NEW d \in Callers PROVE Fresh(req[d])'
  BY <1>1 DEF Fresh, Picked
<1>7. OneAtATime'
  BY <1>1 DEF OneAtATime
<1>8. QED BY <1>4, <1>5, <1>6, <1>7

LEMMA KeysMatchStep ==
  ASSUME Served, Serial, NEW c \in Callers, Proceeds(c), [Next]_vars
  PROVE  KeysMatch'
<1>0. IInv /\ RowsBacked
  BY DEF Served, Tidy, Serial, Backed
<1> DEFINE r == req[c]
<1>1. ASSUME NEW o \in artifacts
      PROVE  /\ o.key.role = o.role /\ o.key.version = o.version /\ o.node \in Ids
             /\ blob'[o.key] = o.hash /\ Live(o.node)
  BY <1>0, RowFields, BytesStay DEF Serial, KeysMatch
<1>2. CASE Record(c) \/ TornRecord(c)
  <2> DEFINE flipped == Flipped(r.cur, r.role)
  <2>1. /\ r \in Requests /\ r.cur \in Ids /\ r.step = "record" /\ KeyOf(r) \in Keys
        /\ UNCHANGED <<nodes, merged_into, blob>>
        /\ \/ artifacts' = artifacts \/ artifacts' = flipped
           \/ artifacts' = flipped \union {NewRow(r)}
    BY <1>0, <1>2, RecordFields, KeyType DEF catalog
  <2>2. ASSUME NEW x \in flipped
        PROVE  /\ x.key.role = x.role /\ x.key.version = x.version
               /\ blob'[x.key] = x.hash /\ Live(x.node)
    BY <1>0, <1>1, FlippedRows DEF SameBytes
  <2>3. LET x == NewRow(r) IN /\ x.key.role = x.role /\ x.key.version = x.version
                              /\ blob'[x.key] = x.hash /\ Live(x.node)
    <3>1. Live(r.cur) /\ blob[KeyOf(r)] = r.body
      BY <2>1 DEF Serial, Fresh
    <3>2. QED BY <2>1, <3>1, NewRowFields, KeyType
  <2>4. ASSUME NEW x \in artifacts'
        PROVE  /\ x.key.role = x.role /\ x.key.version = x.version
               /\ blob'[x.key] = x.hash /\ Live(x.node)
    <3>1. x \in artifacts \/ x \in flipped \/ x = NewRow(r)
      BY <2>1
    <3>2. QED BY <1>1, <2>2, <2>3, <3>1
  <2>5. QED BY <2>1, <2>4 DEF KeysMatch, Live
<1>3. CASE ~(Record(c) \/ TornRecord(c))
  <2>1. artifacts' \subseteq artifacts
    BY <1>0, <1>3, DeleteNetworkFields, TablesKept DEF Proceeds
  <2>2. ASSUME NEW o \in artifacts, o \in artifacts'
        PROVE  o.node \in nodes' /\ merged_into'[o.node] = NoId
    <3>1. o.node \in Ids /\ o.node \in nodes /\ merged_into[o.node] = NoId
      BY <1>1 DEF Live
    <3>2. CASE DeleteNetwork(c)
      <4> DEFINE net == NetworkOf(merged_into, nodes, r.cur)
      <4>1. /\ nodes' = nodes \ net
            /\ merged_into' = [n \in Ids |-> IF n \in net THEN NoId ELSE merged_into[n]]
            /\ artifacts' = {p \in artifacts : p.node \notin net}
        BY <1>0, <3>2, DeleteNetworkFields
      <4> HIDE DEF net
      <4>2. QED BY <2>2, <3>1, <4>1
    <3>3. CASE ResolveLive(c)
      BY <1>0, <3>1, <3>3, ResolveLiveFields DEF Compressed
    <3>4. CASE ~DeleteNetwork(c) /\ ~ResolveLive(c)
      <4>1. UNCHANGED <<nodes, merged_into>>
        BY <1>0, <1>3, <3>4, GetAliasFields, PickVersionFields, BlobPutFields,
           CurrentArtifactFields, EndFields, BlobDeleteFields DEF Proceeds, catalog
      <4>2. QED BY <3>1, <4>1
    <3>5. QED BY <3>2, <3>3, <3>4
  <2>3. QED BY <1>1, <2>1, <2>2 DEF KeysMatch, Live
<1>4. QED BY <1>2, <1>3

LEMMA FreshStep ==
  ASSUME Served, Serial, NEW c \in Callers, Proceeds(c)
  PROVE  OneAtATime' /\ \A d \in Callers : Fresh(req[d])'
<1> DEFINE r == req[c]
           q == req'[c]
<1>0. IInv /\ r \in Requests /\ Fresh(r) /\ blob \in [Keys -> Bodies \union {NoBody}]
  BY DEF Served, Tidy, Serial, IInv, TypeOK
<1>1. /\ r.step # "idle" /\ \A d \in Callers : d # c => req'[d] = req[d]
  BY <1>0, ProceedsFields
<1>2. \A d \in Callers : d # c => req'[d].step = "idle"
  BY <1>1 DEF Serial, OneAtATime
<1>3. OneAtATime'
  BY <1>2 DEF OneAtATime
<1>4. Fresh(req[c])'
  <2>1. CASE ResolveLive(c)
    <3>1. CASE q = Idle
      BY <3>1, IdleRequest DEF Fresh, Picked
    <3>2. CASE q # Idle
      <4>1. q.cur \in nodes' /\ merged_into'[q.cur] = NoId
        BY <1>0, <2>1, <3>2, ResolvedLive
      <4>2. q.step \in {"next_version", "current_artifact", "delete_network"}
        BY <1>0, <2>1, <3>2, ResolveLiveFields
      <4>3. QED BY <4>1, <4>2 DEF Fresh, Picked, Live
    <3>3. QED BY <3>1, <3>2
  <2>2. CASE PickVersion(c)
    <3>1. /\ UNCHANGED <<nodes, merged_into, artifacts>> /\ r.step = "next_version"
          /\ q.role = r.role /\ q.cur = r.cur /\ q.step = "blob_put"
          /\ q.version = NextVersion(r.cur, r.role)
      BY <1>0, <2>2, PickVersionFields DEF SameCall, catalog
    <3>2. PICK u \in Nat : \A o \in artifacts : o.version <= u
      BY <1>0 DEF IInv, CountedTo
    <3>3. \A o \in RowsOf(r.cur, r.role) : o.version < q.version
      BY <1>0, <3>1, <3>2, NextVersionProperty
    <3>4. \A o \in RowsOf(r.cur, r.role) : o.version # q.version
      <4>1. \A o \in RowsOf(r.cur, r.role) : o.version \in Nat
        BY <1>0, RowFields DEF RowsOf
      <4>2. QED BY <3>3, <4>1
    <3>5. \A o \in artifacts' : o.node = q.cur /\ o.role = q.role => o.version # q.version
      BY <3>1, <3>4 DEF RowsOf
    <3>6. QED BY <1>0, <3>1, <3>5 DEF Fresh, Picked, Live, RowsOf
  <2>3. CASE BlobPut(c)
    <3>1. /\ UNCHANGED <<nodes, merged_into, artifacts>> /\ r.step = "blob_put"
          /\ q.role = r.role /\ q.cur = r.cur /\ q.version = r.version /\ q.body = r.body
          /\ blob' = [blob EXCEPT ![KeyOf(r)] = r.body] /\ KeyOf(r) \in Keys
      BY <1>0, <2>3, BlobPutFields DEF SameCall, catalog
    <3>2. KeyOf(req[c])' = KeyOf(r) /\ blob'[KeyOf(r)] = q.body
      BY <1>0, <3>1 DEF KeyOf
    <3>3. QED BY <1>0, <3>1, <3>2 DEF Fresh, Picked, Live, RowsOf
  <2>4. CASE ~ResolveLive(c) /\ ~PickVersion(c) /\ ~BlobPut(c)
    <3>1. q.step \in {"idle", "resolve_live", "blob_get", "blob_delete"}
      BY <1>0, <2>4, GetAliasFields, RecordFields, CurrentArtifactFields, EndFields,
         DeleteNetworkFields, BlobDeleteFields, IdleRequest DEF Proceeds
    <3>2. QED BY <3>1 DEF Fresh, Picked
  <2>5. QED BY <2>1, <2>2, <2>3, <2>4
<1>5. ASSUME NEW d \in Callers PROVE Fresh(req[d])'
  <2>1. CASE d = c
    BY <1>4, <2>1
  <2>2. CASE d # c
    BY <1>2, <2>2 DEF Fresh, Picked
  <2>3. QED BY <2>1, <2>2
<1>6. QED BY <1>3, <1>5
LEMMA AccountedStep ==
  ASSUME Served, Serial, Losers, NEW c \in Callers, Proceeds(c), [Next]_vars
  PROVE  AllAccounted'
<1> DEFINE r == req[c]
           q == req'[c]
<1>0. /\ IInv /\ r \in Requests /\ Fresh(r) /\ RowsBacked /\ Holds(r) /\ Shape(r)
      /\ blob \in [Keys -> Bodies \union {NoBody}]
  BY DEF Served, Tidy, Serial, Backed, IInv, TypeOK
<1>1. /\ r.step # "idle" /\ \A d \in Callers : d # c => req'[d] = req[d]
      /\ failures' = 0 => failures = 0
  BY <1>0, ProceedsFields
<1>2. \A d \in Callers : d # c => req[d].step = "idle"
  BY <1>1 DEF Serial, OneAtATime
<1> SUFFICES ASSUME failures' = 0, NEW k \in Keys, blob'[k] # NoBody
             PROVE  Accounted(k)'
  BY DEF AllAccounted
<1>3. /\ failures = 0 /\ k.node \in Ids
      /\ blob[k] # NoBody => Accounted(k)
  BY <1>1 DEF Serial, AllAccounted, Keys
<1>4. Live(k.node)' => Live(k.node)
  BY <1>0, <1>3, LiveBefore
(* Only the request itself can be about to record or delete a blob. *)
<1>5. ASSUME blob[k] # NoBody
      PROVE  /\ Live(k.node) => \/ \E o \in artifacts : o.key = k
                                \/ r.step = "record" /\ KeyOf(r) = k
             /\ k.node \notin nodes => \/ \E b \in Bridges : k.node = b[2]
                                       \/ r.step = "blob_delete" /\ k \in r.keys
  <2>1. \A d \in Callers : req[d].step \in {"record", "blob_delete"} => d = c
    BY <1>2
  <2>2. QED BY <1>3, <1>5, <2>1 DEF Accounted
<1>6. CASE /\ ~(Record(c) \/ TornRecord(c)) /\ ~BlobPut(c)
           /\ ~DeleteNetwork(c) /\ ~BlobDelete(c)
  <2>1. UNCHANGED <<nodes, artifacts>>
    BY <1>0, <1>6, TablesKept DEF Proceeds
  <2>2. blob' = blob /\ r.step \notin {"record", "blob_delete"}
    <3>1. ~Fail(c)
      BY <1>0, EndFields, <1>3 DEF Fail, IInv, TypeOK
    <3>2. CASE GetAlias(c) \/ ResolveLive(c) \/ PickVersion(c) \/ CurrentArtifact(c)
      BY <1>0, <3>2, GetAliasFields, ResolveLiveFields, PickVersionFields, CurrentArtifactFields
    <3>3. CASE BlobGet(c)
      BY <3>3 DEF BlobGet
    <3>4. QED BY <1>6, <3>1, <3>2, <3>3 DEF Proceeds
  <2>3. QED BY <1>4, <1>5, <2>1, <2>2 DEF Accounted
<1>7. CASE BlobPut(c)
  <2>1. /\ UNCHANGED <<nodes, artifacts>> /\ r.step = "blob_put" /\ r.cur \in Ids
        /\ blob' = [blob EXCEPT ![KeyOf(r)] = r.body] /\ KeyOf(r) \in Keys
        /\ q.step = "record" /\ q.role = r.role /\ q.cur = r.cur /\ q.version = r.version
    BY <1>0, <1>7, BlobPutFields DEF SameCall, catalog
  <2>2. KeyOf(req[c])' = KeyOf(r) /\ KeyOf(r).node \in nodes
    BY <1>0, <2>1, KeyType DEF KeyOf, Fresh, Live
  <2>3. CASE k = KeyOf(r)
    BY <2>1, <2>2, <2>3 DEF Accounted
  <2>4. CASE k # KeyOf(r)
    <3>1. blob[k] # NoBody
      BY <1>0, <2>1, <2>4
    <3>2. QED BY <1>4, <1>5, <2>1, <3>1 DEF Accounted
  <2>5. QED BY <2>3, <2>4
<1>8. CASE Record(c) \/ TornRecord(c)
  <2> DEFINE flipped == Flipped(r.cur, r.role)
             free == \A p \in RowsOf(r.cur, r.role) : p.version # r.version
  <2>1. /\ r.step = "record" /\ r.cur \in Ids /\ UNCHANGED <<nodes, blob>>
        /\ \/ free /\ artifacts' = flipped \union {NewRow(r)}
           \/ ~free
           \/ free => failures' = failures + 1
    BY <1>0, <1>8, RecordFields DEF catalog
  <2>2. free
    BY <1>0, <2>1 DEF Fresh, Picked
  <2>3. artifacts' = flipped \union {NewRow(r)}
    BY <1>3, <2>1, <2>2
  <2>4. NewRow(r).key = KeyOf(r)
    BY <1>0, <2>1, NewRowFields
  <2>5. \A o \in artifacts : \E x \in artifacts' : x.key = o.key
    BY <1>0, <2>3, FlippedRows DEF SameBytes
  <2>6. QED BY <1>4, <1>5, <2>1, <2>3, <2>4, <2>5 DEF Accounted
<1>9. CASE DeleteNetwork(c)
  <2> DEFINE net == NetworkOf(merged_into, nodes, r.cur)
  <2>1. /\ UNCHANGED blob /\ nodes' = nodes \ net /\ r.step = "delete_network"
        /\ artifacts' = {o \in artifacts : o.node \notin net}
        /\ \/ q = Idle /\ \A o \in artifacts : o.node \notin net
           \/ /\ q.step = "blob_delete"
              /\ \A o \in artifacts : o.node \in net => o.key \in q.keys
    BY <1>0, <1>9, DeleteNetworkFields
  <2>2. Live(r.cur)
    BY <1>0, <2>1 DEF Holds
  <2>3. /\ \A o \in artifacts : o.node \in net <=> o.key.node \in net
        /\ \A x \in net : x \in nodes /\ Root(merged_into, x) = r.cur
    BY <1>0, <1>9, <2>2, DeleteTakes
  <2> HIDE DEF net
  <2>4. ASSUME Live(k.node)' PROVE \E o \in artifacts' : o.key = k
    <3>1. PICK o \in artifacts : o.key = k
      BY <1>4, <1>5, <2>1, <2>4
    <3>2. k.node \notin net
      BY <2>1, <2>4 DEF Live
    <3>3. QED BY <2>1, <2>3, <3>1, <3>2
  <2>5. ASSUME k.node \notin nodes'
        PROVE  \/ \E b \in Bridges : k.node = b[2]
               \/ q.step = "blob_delete" /\ k \in q.keys
    <3>1. CASE k.node \notin nodes
      BY <1>5, <2>1, <3>1
    <3>2. CASE merged_into[k.node] # NoId
      BY <1>3, <3>2 DEF Losers
    <3>3. CASE Live(k.node)
      <4>1. PICK o \in artifacts : o.key = k
        BY <1>5, <2>1, <3>3
      <4>2. k.node \in net
        BY <2>1, <2>5, <3>3 DEF Live
      <4>3. QED BY <2>1, <2>3, <4>1, <4>2
    <3>4. QED BY <3>1, <3>2, <3>3 DEF Live
  <2>6. QED BY <2>4, <2>5 DEF Accounted
<1>10. CASE BlobDelete(c)
  <2>1. /\ UNCHANGED <<nodes, artifacts>> /\ r.step = "blob_delete"
        /\ \E d \in r.keys :
             /\ d \in Keys
             /\ blob' = [blob EXCEPT ![d] = NoBody]
             /\ \/ q = Idle /\ r.keys = {d}
                \/ q.step = "blob_delete" /\ q.keys = r.keys \ {d}
    BY <1>0, <1>10, BlobDeleteFields DEF catalog, SameCall
  <2>2. blob[k] # NoBody /\ (k \in r.keys => q.step = "blob_delete" /\ k \in q.keys)
    BY <1>0, <2>1
  <2>3. QED BY <1>4, <1>5, <2>1, <2>2 DEF Accounted
<1>11. QED BY <1>6, <1>7, <1>8, <1>9, <1>10

LEMMA RacedStays ==
  ASSUME IInv, [Next]_vars, ~raced'
  PROVE  ~raced
<1>1. ASSUME NEW c \in Callers, Calls(c) \/ Merge(c)
      PROVE  ~raced
  BY <1>1, CallFields, MergeFields, BeginsFields
<1>2. ASSUME NEW c \in Callers, Proceeds(c)
      PROVE  ~raced
  BY <1>2, ProceedsFields DEF history
<1>3. QED BY <1>1, <1>2, StepKinds DEF vars

(* A clash is an overlap. *)
LEMMA ClashRaces ==
  ASSUME IInv, [Next]_vars, ~raced', ~clashed
  PROVE  ~clashed'
<1>1. ASSUME NEW c \in Callers, NEW op, Begins(c, op)
      PROVE  ~clashed'
  BY <1>1, BeginsFields DEF Begins
<1>2. ASSUME NEW c \in Callers, Calls(c) \/ Merge(c)
      PROVE  ~clashed'
  BY <1>1, <1>2, CallFields, MergeFields
<1>3. ASSUME NEW c \in Callers, Proceeds(c)
      PROVE  ~clashed'
  BY <1>3, ProceedsFields DEF history
<1>4. QED BY <1>2, <1>3, StepKinds DEF vars

LEMMA MatchedInitial == Init => Matched
<1> SUFFICES ASSUME Init PROVE Matched
  OBVIOUS
<1>1. /\ Served /\ ~clashed /\ artifacts = {} /\ \A c \in Callers : req[c] = Idle
      /\ \A k \in Keys : blob[k] = NoBody
      /\ \A n \in Ids : merged_into[n] = NoId
  BY ServedInitial DEF Init
<1>2. Losers /\ KeysMatch /\ OneAtATime /\ AllAccounted
  BY <1>1, IdleRequest DEF Losers, KeysMatch, OneAtATime, AllAccounted
<1>3. \A c \in Callers : Fresh(req[c])
  BY <1>1, IdleRequest DEF Fresh
<1>4. QED BY <1>1, <1>2, <1>3 DEF Matched, Serial, Served

LEMMA MatchedStep == Matched /\ [Next]_vars => Matched'
<1> SUFFICES ASSUME Matched, [Next]_vars PROVE Matched'
  OBVIOUS
<1>1. IInv /\ Served' /\ Losers'
  BY ServedStep, LosersStep DEF Matched, Served, Tidy
<1>2. ASSUME ~raced' PROVE ~clashed' /\ Serial'
  <2>1. ~clashed /\ Serial /\ ~clashed'
    BY <1>1, <1>2, RacedStays, ClashRaces DEF Matched
  <2>2. Backed'
    BY <1>1, <2>1 DEF Served
  <2>3. KeysMatch' /\ OneAtATime' /\ AllAccounted' /\ \A c \in Callers : Fresh(req[c])'
    <3>1. CASE UNCHANGED vars
      BY <2>1, <3>1 DEF vars, Serial, KeysMatch, OneAtATime, AllAccounted, Accounted, Fresh,
         Picked, RowsOf, KeyOf, Live
    <3>2. QED
      BY <1>2, <2>1, <3>1, StepKinds, CallsSerial, MergeSerial, KeysMatchStep, FreshStep,
         AccountedStep DEF Matched
  <2>4. QED BY <2>1, <2>2, <2>3 DEF Serial
<1>3. QED BY <1>1, <1>2 DEF Matched

LEMMA AlwaysMatched == Spec => []Matched
<1>1. QED BY MatchedInitial, MatchedStep, PTL DEF Spec

(* With requests one at a time, merges among them and any of them cut      *)
(* short, every row's hash is that of the bytes under its key; and if none *)
(* was cut short, live works' blobs and rows correspond one to one and     *)
(* deleted works leave none behind.                                        *)
THEOREM SerialRowsMatch == Spec => []SerialRowsMatchBytes
<1>1. Matched => SerialRowsMatchBytes
  <2> SUFFICES ASSUME Matched, ~raced
               PROVE  RowsMatchBytes /\ OneRowPerBlob /\ DeleteErases
    BY DEF SerialRowsMatchBytes
  <2>1. Served /\ Serial
    BY DEF Matched
  <2>2. RowsMatchBytes
    BY <2>1 DEF RowsMatchBytes, Serial, KeysMatch
  <2>3. ASSUME AllIdle, failures = 0, NEW k \in Keys, blob[k] # NoBody
        PROVE  /\ Live(k.node) => \E r \in artifacts : r.key = k
               /\ k.node \in nodes \/ \E b \in Bridges : k.node = b[2]
    BY <2>1, <2>3 DEF Serial, AllAccounted, Accounted, AllIdle
  <2>4. \A r, q \in artifacts : q.key = r.key => q = r
    BY <2>1, OneRowPerKey
  <2>5. OneRowPerBlob
    BY <2>3, <2>4 DEF OneRowPerBlob, Live
  <2>6. DeleteErases
    BY <2>3 DEF DeleteErases
  <2>7. QED BY <2>2, <2>5, <2>6
<1>2. QED BY <1>1, AlwaysMatched, PTL
------------------------------------------------------------------------------
LEMMA RetainedStep ==
  ASSUME IInv, [Next]_vars
  PROVE  HistoryRetained
<1> SUFFICES ASSUME NEW o \in artifacts, o.node \in nodes'
             PROVE  \/ \E x \in artifacts' : x.key = o.key
                    \/ \E n \in nodes : merged_into[n] = NoId /\ merged_into'[n] # NoId
  BY DEF HistoryRetained
<1>1. ASSUME NEW c \in Callers, Flips(c) \/ Records(c)
      PROVE  \E x \in artifacts' : x.key = o.key
  <2>1. \E x \in Flipped(req[c].cur, req[c].role) : x.key = o.key
    BY FlippedRows DEF SameBytes
  <2>2. QED BY <1>1, <2>1 DEF Flips, Records
<1>2. ASSUME NEW s \in Ids, NEW l \in Ids, Folds(s, l)
      PROVE  \E n \in nodes : merged_into[n] = NoId /\ merged_into'[n] # NoId
  <2>1. l \in nodes /\ merged_into[l] = NoId /\ merged_into'[l] = s /\ s # NoId
    BY <1>2, IdsAssumption DEF Folds, Live, IInv, TypeOK, Redirection
  <2>2. QED BY <2>1
<1>3. ASSUME NEW net, Erases(net)
      PROVE  o \in artifacts'
  BY <1>3 DEF Erases
<1>4. QED BY <1>1, <1>2, <1>3, RowSteps

(* Only a delete of the work, or a merge, ever removes a version, in any   *)
(* order of the calls; and with requests one at a time the bytes a row     *)
(* names never change.                                                     *)
THEOREM HistoryIsKept == Spec => HistoryKept
<1>1. ASSUME Matched, [Next]_vars
      PROVE  HistoryRetained /\ (~raced => BytesKept)
  <2>1. HistoryRetained
    BY <1>1, RetainedStep DEF Matched, Served, Tidy
  <2>2. ASSUME ~raced PROVE BytesKept
    BY <1>1, <2>2, BytesStay DEF Matched, BytesKept
  <2>3. QED BY <2>1, <2>2
<1>2. Matched /\ [Next]_vars => [HistoryRetained /\ (~raced => BytesKept)]_vars
  BY <1>1
<1>3. QED BY <1>2, AlwaysMatched, PTL DEF Spec, HistoryKept
==============================================================================
