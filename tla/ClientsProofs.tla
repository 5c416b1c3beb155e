----------------------------- MODULE ClientsProofs -----------------------------
(***************************************************************************)
(* Theorems about the clients of the store, whatever users, agents, failed *)
(* requests and reloaded pages do between their steps.                     *)
(*                                                                         *)
(* `store sync`, for stores of any size, pages and batches of any length:  *)
(* types, a destination that only gains, drains that skip no row, and that *)
(* an undisturbed sync leaves nothing for the next one to change.          *)
(*                                                                         *)
(* The sync of the agents' files, for any notes and contents: what it      *)
(* saves, writes over, brings back and leaves.                             *)
(*                                                                         *)
(* A chat session, for any number of turns, rounds and tool calls: what    *)
(* the transcript, the saved session and the document keep.                *)
(*                                                                         *)
(* The documents' files, for any clients, names and texts: what a PUT that *)
(* was answered leaves behind, call by call.                               *)
(***************************************************************************)
EXTENDS StoreSync, AgentFiles, Chat, L3Files, FiniteSetTheorems, SequenceTheorems, WellFoundedInduction,
        TLAPS

------------------------------------------------------------------------------
(* Least and greatest.                                                     *)

LEMMA MinProperty ==
  ASSUME NEW S \in SUBSET Nat, S # {}
  PROVE  Min(S) \in S /\ \A y \in S : Min(S) <= y
<1>1. \E x \in S : \A y \in S : ~ (<<y, x>> \in OpToRel(<, Nat))
  BY NatLessThanWellFounded, WFMin
<1>2. \E x \in S : \A y \in S : x <= y
  <2>1. PICK x \in S : \A y \in S : ~ (<<y, x>> \in OpToRel(<, Nat))
    BY <1>1
  <2>2. \A y \in S : ~(y < x)
    BY <2>1 DEF OpToRel
  <2>3. QED BY <2>2
<1>3. QED BY <1>2 DEF Min

LEMMA MaxProperty ==
  ASSUME NEW S \in SUBSET Nat, S # {}, NEW u \in Nat, \A y \in S : y <= u
  PROVE  Max(S) \in S /\ \A y \in S : y <= Max(S)
<1> DEFINE U == {v \in Nat : \A y \in S : y <= v}
           m == Min(U)
<1>1. m \in U /\ \A v \in U : m <= v
  <2>1. U \in SUBSET Nat /\ U # {}
    OBVIOUS
  <2> HIDE DEF U
  <2>2. QED BY <2>1, MinProperty
<1>2. m \in Nat /\ \A y \in S : y <= m
  BY <1>1
<1> HIDE DEF m
<1>3. m \in S
  <2> SUFFICES ASSUME m \notin S PROVE FALSE
    OBVIOUS
  <2>0. PICK x \in S : TRUE
    OBVIOUS
  <2>1. x \in Nat /\ x < m
    BY <1>2
  <2>2. m - 1 \in Nat
    BY <1>2, <2>1
  <2>3. \A y \in S : y <= m - 1
    <3>1. \A y \in Nat : y <= m /\ y # m => y <= m - 1
      BY <1>2
    <3>2. QED BY <1>2, <3>1
  <2>4. m <= m - 1
    BY <1>1, <2>2, <2>3
  <2>5. QED BY <1>2, <2>4
<1>4. \E y \in S : \A z \in S : y >= z
  BY <1>2, <1>3
<1>5. QED BY <1>4 DEF Max
------------------------------------------------------------------------------
(* The tables of a store.                                                  *)

Sources == {"provider", "migration"}
Said == [node : Nat, source : Sources, at : Nat]
Kept == [node : Nat, bytes : BOOLEAN]
Aliasings == UNION {[A -> Nat] : A \in SUBSET Names}
Stores ==
  [node : SUBSET Nat, used : SUBSET Nat, alias : Aliasings, said : SUBSET Said,
   edge : SUBSET (Nat \X Nat), content : SUBSET Kept]
IsRecord(rec) == rec.aliases \subseteq Names /\ rec.source \in Sources /\ rec.at \in Nat

LEMMA StoreFields ==
  ASSUME NEW st \in Stores
  PROVE  /\ st.node \in SUBSET Nat /\ st.used \in SUBSET Nat /\ st.alias \in Aliasings
         /\ st.said \in SUBSET Said /\ st.edge \in SUBSET (Nat \X Nat) /\ st.content \in SUBSET Kept
         /\ DOMAIN st.alias \subseteq Names /\ \A a \in DOMAIN st.alias : st.alias[a] \in Nat
BY DEF Stores, Aliasings

LEMMA AliasingsHas ==
  ASSUME NEW f, NEW A \in SUBSET Names, f \in [A -> Nat]
  PROVE  f \in Aliasings
BY DEF Aliasings

(* Guids and times have bounds: there is a next guid and a newest record.  *)
Bounded(st) == \E u \in Nat : (\A n \in st.used : n <= u) /\ (\A r \in st.said : r.at <= u)

Whole(st) == st \in Stores /\ Rows(st) /\ Bounded(st)

MovedTo(G, s, x) == IF x \in G THEN s ELSE x

NodesLeft(st, G, s) == (st.node \ G) \union {s}
MovedSaid(st, G, s) == {[r EXCEPT !.node = MovedTo(G, s, @)] : r \in st.said}
MovedEdges(st, G, s) == {<<MovedTo(G, s, e[1]), MovedTo(G, s, e[2])>> : e \in st.edge}
Best(st, G) == {c \in st.content : c.node \in G /\ \A d \in st.content : d.node \in G => c.node <= d.node}
MovedContent(st, G, s) ==
  {c \in st.content : c.node \notin G} \union {[c EXCEPT !.node = s] : c \in Best(st, G)}

LEMMA UnitedFields ==
  ASSUME NEW st \in Stores, NEW G \in SUBSET Nat, NEW s \in Nat
  PROVE  /\ United(st, G, s) \in Stores
         /\ United(st, G, s).node = NodesLeft(st, G, s) /\ United(st, G, s).used = st.used
         /\ United(st, G, s).alias = [a \in DOMAIN st.alias |-> MovedTo(G, s, st.alias[a])]
         /\ United(st, G, s).said = NewestOf(MovedSaid(st, G, s))
         /\ United(st, G, s).edge = MovedEdges(st, G, s)
         /\ United(st, G, s).content = MovedContent(st, G, s)
<1> DEFINE node == NodesLeft(st, G, s)
           alias == [a \in DOMAIN st.alias |-> MovedTo(G, s, st.alias[a])]
           said == NewestOf(MovedSaid(st, G, s))
           edge == MovedEdges(st, G, s)
           content == MovedContent(st, G, s)
           one == [st EXCEPT !.node = node, !.alias = alias, !.said = said, !.edge = edge, !.content = content]
<1>1. United(st, G, s) = one
  <2>1. Best(st, G) = {b \in {c \in st.content : c.node \in G} :
                        \A d \in {c \in st.content : c.node \in G} : b.node <= d.node}
    BY DEF Best
  <2>2. QED BY <2>1 DEF United, MovedTo, NodesLeft, MovedSaid, MovedEdges, MovedContent
<1>2. node \in SUBSET Nat
  BY StoreFields DEF NodesLeft
<1>3. alias \in Aliasings
  <2>1. alias \in [DOMAIN st.alias -> Nat]
    BY StoreFields DEF MovedTo
  <2> HIDE DEF alias
  <2>2. QED BY <2>1, StoreFields, AliasingsHas
<1>4. said \in SUBSET Said
  <2>1. ASSUME NEW r \in st.said PROVE [r EXCEPT !.node = MovedTo(G, s, @)] \in Said
    BY StoreFields DEF Said, MovedTo
  <2>2. QED BY <2>1 DEF NewestOf, MovedSaid
<1>5. edge \in SUBSET (Nat \X Nat)
  BY StoreFields DEF MovedTo, MovedEdges
<1>6. content \in SUBSET Kept
  <2>1. ASSUME NEW c \in st.content PROVE [c EXCEPT !.node = s] \in Kept
    BY StoreFields DEF Kept
  <2>2. QED BY <2>1, StoreFields DEF MovedContent, Best
<1> HIDE DEF node, alias, said, edge, content
<1>7. /\ one \in Stores /\ one.node = node /\ one.used = st.used /\ one.alias = alias
      /\ one.said = said /\ one.edge = edge /\ one.content = content
  BY <1>2, <1>3, <1>4, <1>5, <1>6 DEF Stores
<1> HIDE DEF one
<1>8. QED BY <1>1, <1>7 DEF node, alias, said, edge, content

(* The ids that put_work unites: those of the aliases it knows, or a fresh *)
(* one; the survivor is the least.                                         *)
Group(st, rec, fresh) ==
  LET found == {st.alias[a] : a \in rec.aliases \intersect DOMAIN st.alias}
  IN IF found = {} THEN {fresh} ELSE found

LEMMA GroupProperty ==
  ASSUME NEW st, Whole(st), NEW rec, IsRecord(rec), NEW fresh \in Nat
  PROVE  LET G == Group(st, rec, fresh) IN
         /\ G \in SUBSET Nat /\ Min(G) \in G /\ Min(G) \in Nat
         /\ G \subseteq st.node \/ G = {fresh}
         /\ \A a \in rec.aliases \intersect DOMAIN st.alias : st.alias[a] \in G
<1> DEFINE found == {st.alias[a] : a \in rec.aliases \intersect DOMAIN st.alias}
           G == Group(st, rec, fresh)
<1>1. found \in SUBSET Nat /\ found \subseteq st.node
  BY StoreFields DEF Whole, Rows
<1>2. G = IF found = {} THEN {fresh} ELSE found
  BY DEF Group
<1>3. \A a \in rec.aliases \intersect DOMAIN st.alias : st.alias[a] \in found
  OBVIOUS
<1> HIDE DEF found, G
<1>4. G \in SUBSET Nat /\ G # {}
  BY <1>1, <1>2
<1>5. Min(G) \in G
  BY <1>4, MinProperty
<1>6. G \subseteq st.node \/ G = {fresh}
  BY <1>1, <1>2
<1>7. \A a \in rec.aliases \intersect DOMAIN st.alias : st.alias[a] \in G
  BY <1>2, <1>3
<1>8. QED BY <1>4, <1>5, <1>6, <1>7 DEF G

LEMMA PutWorkFields ==
  ASSUME NEW st, Whole(st), NEW rec, IsRecord(rec), NEW fresh \in Nat
  PROVE  LET G == Group(st, rec, fresh)
             m == Min(G)
             one == United(st, G, m)
             new == PutWork(st, rec, fresh)
         IN /\ new \in Stores
            /\ new.node = one.node /\ new.used = st.used \union G
            /\ new.alias = [a \in DOMAIN st.alias \union rec.aliases |->
                              IF a \in rec.aliases THEN m ELSE MovedTo(G, m, st.alias[a])]
            /\ new.said = {r \in one.said : r.node # m \/ r.source # rec.source}
                            \union {[node |-> m, source |-> rec.source, at |-> rec.at]}
            /\ new.edge = one.edge /\ new.content = one.content
<1> DEFINE G == Group(st, rec, fresh)
           m == Min(G)
           one == United(st, G, m)
           used == one.used \union G
           alias == [a \in DOMAIN one.alias \union rec.aliases |-> IF a \in rec.aliases THEN m ELSE one.alias[a]]
           said == {r \in one.said : r.node # m \/ r.source # rec.source}
                     \union {[node |-> m, source |-> rec.source, at |-> rec.at]}
           new == [one EXCEPT !.used = used, !.alias = alias, !.said = said]
<1>1. PutWork(st, rec, fresh) = new
  BY DEF PutWork, Group
<1>2. G \in SUBSET Nat /\ m \in Nat
  BY GroupProperty
<1> HIDE DEF G, m
<1>3. /\ one \in Stores /\ one.used = st.used
      /\ one.alias = [a \in DOMAIN st.alias |-> MovedTo(G, m, st.alias[a])]
  <2>1. st \in Stores
    BY DEF Whole
  <2>2. QED BY <1>2, <2>1, UnitedFields
<1> HIDE DEF one
<1>4. used \in SUBSET Nat
  BY <1>2, <1>3, StoreFields
<1>5. DOMAIN one.alias = DOMAIN st.alias /\ rec.aliases \in SUBSET Names
  BY <1>3 DEF IsRecord
<1>6. alias \in Aliasings
  <2>1. alias \in [DOMAIN one.alias \union rec.aliases -> Nat]
    BY <1>2, <1>3, StoreFields
  <2>2. DOMAIN one.alias \union rec.aliases \in SUBSET Names
    BY <1>3, <1>5, StoreFields
  <2> HIDE DEF alias
  <2>3. QED BY <2>1, <2>2, AliasingsHas
<1>7. said \in SUBSET Said
  <2>1. [node |-> m, source |-> rec.source, at |-> rec.at] \in Said
    BY <1>2 DEF Said, IsRecord
  <2>2. QED BY <1>3, <2>1, StoreFields
<1>8. alias = [a \in DOMAIN st.alias \union rec.aliases |->
                 IF a \in rec.aliases THEN m ELSE MovedTo(G, m, st.alias[a])]
  BY <1>3, <1>5
<1> HIDE DEF used, alias, said
<1>9. /\ new \in Stores /\ new.node = one.node /\ new.used = used /\ new.alias = alias
      /\ new.said = said /\ new.edge = one.edge /\ new.content = one.content
  BY <1>3, <1>4, <1>6, <1>7 DEF Stores
<1> HIDE DEF new
<1>10. used = st.used \union G
  BY <1>3 DEF used
<1>11. QED BY <1>1, <1>8, <1>9, <1>10 DEF said, one, m, G
------------------------------------------------------------------------------
(* What a use case does to a whole store.                                  *)

(* Of the records of one node and source there is a newest ...             *)
LEMMA NewestThere ==
  ASSUME NEW rows \in SUBSET Said, NEW u \in Nat, \A r \in rows : r.at <= u, NEW r \in rows
  PROVE  \E q \in NewestOf(rows) : q.node = r.node /\ q.source = r.source
<1> DEFINE T == {q.at : q \in {p \in rows : p.node = r.node /\ p.source = r.source}}
<1>1. T \in SUBSET Nat /\ T # {} /\ \A y \in T : y <= u
  BY DEF Said
<1>2. Max(T) \in T /\ \A y \in T : y <= Max(T)
  <2> HIDE DEF T
  <2> QED BY <1>1, MaxProperty
<1>3. PICK q \in rows : q.node = r.node /\ q.source = r.source /\ q.at = Max(T)
  BY <1>2
<1>4. \A p \in rows : p.node = q.node /\ p.source = q.source => p.at <= q.at
  BY <1>2, <1>3
<1>5. QED BY <1>3, <1>4 DEF NewestOf

(* ... and only one. *)
LEMMA NewestOne ==
  ASSUME NEW rows \in SUBSET Said, NEW r \in NewestOf(rows), NEW q \in NewestOf(rows),
         r.node = q.node, r.source = q.source
  PROVE  r = q
<1>1. r \in Said /\ q \in Said /\ r.at <= q.at /\ q.at <= r.at
  BY DEF NewestOf
<1>2. r.at = q.at
  BY <1>1 DEF Said
<1>3. QED BY <1>1, <1>2 DEF Said

(* The survivor's contents: one per node, and of every node that had one.  *)
LEMMA MovedContentIs ==
  ASSUME NEW st, Whole(st), NEW G \in SUBSET Nat, NEW s \in G
  PROVE  /\ \A c \in MovedContent(st, G, s) : c.node \in (st.node \ G) \union {s}
         /\ \A c, d \in MovedContent(st, G, s) : c.node = d.node => c = d
         /\ \A c \in st.content : \E d \in MovedContent(st, G, s) : d.node = MovedTo(G, s, c.node)
<1>1. /\ st.content \in SUBSET Kept
      /\ \A c, d \in st.content : c.node \in st.node /\ (c.node = d.node => c = d)
  BY StoreFields DEF Whole, Rows
<1>2. \A c, d \in Best(st, G) : c = d
  <2>1. ASSUME NEW c \in Best(st, G), NEW d \in Best(st, G) PROVE c = d
    <3>1. c \in st.content /\ d \in st.content /\ c.node <= d.node /\ d.node <= c.node
      BY DEF Best
    <3>2. c.node = d.node
      BY <1>1, <3>1 DEF Kept
    <3>3. QED BY <1>1, <3>1, <3>2
  <2>2. QED BY <2>1
<1>3. ASSUME NEW c \in MovedContent(st, G, s)
      PROVE  \/ c \in st.content /\ c.node \notin G
             \/ c.node = s /\ \E b \in Best(st, G) : c = [b EXCEPT !.node = s]
  <2>1. CASE c \in st.content /\ c.node \notin G
    BY <2>1
  <2>2. CASE \E b \in Best(st, G) : c = [b EXCEPT !.node = s]
    <3>1. PICK b \in Best(st, G) : c = [b EXCEPT !.node = s]
      BY <2>2
    <3>2. b \in Kept
      BY <1>1 DEF Best
    <3>3. c.node = s
      BY <3>1, <3>2 DEF Kept
    <3>4. QED BY <2>2, <3>3
  <2>3. QED BY <2>1, <2>2 DEF MovedContent
<1>4. \A c \in MovedContent(st, G, s) : c.node \in (st.node \ G) \union {s}
  BY <1>1, <1>3
<1>5. ASSUME NEW c \in MovedContent(st, G, s), NEW d \in MovedContent(st, G, s), c.node = d.node
      PROVE  c = d
  <2>1. CASE c \in st.content /\ c.node \notin G /\ d \in st.content /\ d.node \notin G
    BY <1>1, <1>5, <2>1
  <2>2. CASE (\E b \in Best(st, G) : c = [b EXCEPT !.node = s]) /\ \E b \in Best(st, G) : d = [b EXCEPT !.node = s]
    BY <1>2, <2>2
  <2>3. QED BY <1>3, <1>5, <2>1, <2>2
<1>6. ASSUME NEW c \in st.content
      PROVE  \E d \in MovedContent(st, G, s) : d.node = MovedTo(G, s, c.node)
  <2>1. CASE c.node \notin G
    BY <2>1 DEF MovedContent, MovedTo
  <2>2. CASE c.node \in G
    <3> DEFINE T == {d.node : d \in {b \in st.content : b.node \in G}}
    <3>1. T \in SUBSET Nat /\ T # {}
      BY <1>1, <2>2 DEF Kept
    <3>2. Min(T) \in T /\ \A y \in T : Min(T) <= y
      <4> HIDE DEF T
      <4> QED BY <3>1, MinProperty
    <3>3. PICK b \in st.content : b.node \in G /\ b.node = Min(T)
      BY <3>2
    <3>4. \A d \in st.content : d.node \in G => b.node <= d.node
      BY <3>2, <3>3
    <3>5. b \in Best(st, G)
      BY <3>3, <3>4 DEF Best
    <3>6. [b EXCEPT !.node = s] \in MovedContent(st, G, s) /\ [b EXCEPT !.node = s].node = s
      BY <1>1, <3>3, <3>5 DEF MovedContent, Kept
    <3>7. QED BY <2>2, <3>6 DEF MovedTo
  <2>3. QED BY <2>1, <2>2
<1>7. QED BY <1>4, <1>5, <1>6

(* The survivor's records: the newest of each source. *)
LEMMA MovedSaidIs ==
  ASSUME NEW st, Whole(st), NEW G \in SUBSET Nat, NEW s \in G
  PROVE  LET rows == NewestOf(MovedSaid(st, G, s)) IN
         /\ \A r \in rows : r \in Said /\ r.node \in (st.node \ G) \union {s}
                              /\ \E q \in st.said : r.at = q.at
         /\ \A r, q \in rows : r.node = q.node /\ r.source = q.source => r = q
         /\ \A r \in st.said : \E q \in rows : q.node = MovedTo(G, s, r.node) /\ q.source = r.source
<1>1. st.said \in SUBSET Said /\ \A r \in st.said : r.node \in st.node
  BY StoreFields DEF Whole, Rows
<1>2. ASSUME NEW r \in st.said
      PROVE  LET q == [r EXCEPT !.node = MovedTo(G, s, @)] IN
             /\ q \in Said /\ q.node = MovedTo(G, s, r.node) /\ q.source = r.source /\ q.at = r.at
             /\ q \in MovedSaid(st, G, s)
  <2>1. r \in Said /\ MovedTo(G, s, r.node) \in Nat
    BY <1>1 DEF Said, MovedTo
  <2>2. QED BY <2>1 DEF Said, MovedSaid
<1>3. ASSUME NEW q \in MovedSaid(st, G, s)
      PROVE  q \in Said /\ \E r \in st.said : q.node = MovedTo(G, s, r.node) /\ q.at = r.at
  <2>1. PICK r \in st.said : q = [r EXCEPT !.node = MovedTo(G, s, @)]
    BY DEF MovedSaid
  <2>2. QED BY <1>2, <2>1
<1> DEFINE rows == NewestOf(MovedSaid(st, G, s))
<1>4. MovedSaid(st, G, s) \in SUBSET Said
  BY <1>3
<1>5. ASSUME NEW r \in rows
      PROVE  r \in Said /\ r.node \in (st.node \ G) \union {s} /\ \E q \in st.said : r.at = q.at
  <2>1. PICK q \in st.said : r.node = MovedTo(G, s, q.node) /\ r.at = q.at
    BY <1>3 DEF NewestOf
  <2>2. r \in Said
    BY <1>3 DEF NewestOf
  <2>3. QED BY <1>1, <2>1, <2>2 DEF MovedTo
<1>6. \A r, q \in rows : r.node = q.node /\ r.source = q.source => r = q
  BY <1>4, NewestOne
<1>7. PICK u \in Nat : \A r \in st.said : r.at <= u
  BY DEF Whole, Bounded
<1>8. \A q \in MovedSaid(st, G, s) : q.at <= u
  BY <1>3, <1>7
<1>9. ASSUME NEW r \in st.said
      PROVE  \E q \in rows : q.node = MovedTo(G, s, r.node) /\ q.source = r.source
  <2>1. PICK p \in MovedSaid(st, G, s) : p.node = MovedTo(G, s, r.node) /\ p.source = r.source
    BY <1>2
  <2>2. PICK q \in NewestOf(MovedSaid(st, G, s)) : q.node = p.node /\ q.source = p.source
    BY <1>4, <1>8, NewestThere
  <2>3. QED BY <2>1, <2>2
<1> HIDE DEF rows
<1>10. QED BY <1>5, <1>6, <1>9 DEF rows

(* A store keeps what old had when it moves it as one, the nodes G to s.   *)
LEMMA AddsBy ==
  ASSUME NEW old, Whole(old), NEW new \in Stores, NEW G \in SUBSET Nat, NEW s \in Nat,
         \A a \in DOMAIN old.alias : a \in DOMAIN new.alias /\ new.alias[a] = MovedTo(G, s, old.alias[a]),
         MovedEdges(old, G, s) \subseteq new.edge,
         \A r \in old.said : \E q \in new.said : q.node = MovedTo(G, s, r.node) /\ q.source = r.source,
         \A c \in old.content : \E d \in new.content : d.node = MovedTo(G, s, c.node)
  PROVE  Adds(old, new)
<1> DEFINE now(n) == {new.alias[a] : a \in {b \in DOMAIN old.alias : old.alias[b] = n}}
<1>1. \A n, x : x \in now(n) => x = MovedTo(G, s, n)
  OBVIOUS
<1>2. ASSUME NEW n \in old.node PROVE Cardinality(now(n)) <= 1
  <2>1. now(n) = {} \/ now(n) = {MovedTo(G, s, n)}
    BY <1>1
  <2> HIDE DEF now
  <2>2. CASE now(n) = {}
    BY <2>2, FS_EmptySet
  <2>3. CASE now(n) = {MovedTo(G, s, n)}
    <3>1. Cardinality({MovedTo(G, s, n)}) = 1
      BY FS_Singleton
    <3>2. QED BY <2>3, <3>1
  <2>4. QED BY <2>1, <2>2, <2>3
<1>3. ASSUME NEW e \in old.edge, NEW x \in now(e[1]), NEW y \in now(e[2]) PROVE <<x, y>> \in new.edge
  <2>1. x = MovedTo(G, s, e[1]) /\ y = MovedTo(G, s, e[2])
    BY <1>1
  <2>2. <<x, y>> \in MovedEdges(old, G, s)
    BY <2>1 DEF MovedEdges
  <2>3. QED BY <2>2
<1> HIDE DEF now
<1>4. \A r \in old.said : \A x \in now(r.node) : \E q \in new.said : q.node = x /\ q.source = r.source
  BY <1>1
<1>5. \A c \in old.content : \A x \in now(c.node) : \E d \in new.content : d.node = x
  BY <1>1
<1>6. QED BY <1>2, <1>3, <1>4, <1>5 DEF Adds, now

(* put_work keeps a store whole, and only adds to it. *)
LEMMA PutWorkIsWhole ==
  ASSUME NEW st, Whole(st), NEW rec, IsRecord(rec), NEW fresh \in Nat
  PROVE  /\ Whole(PutWork(st, rec, fresh)) /\ Adds(st, PutWork(st, rec, fresh))
         /\ DOMAIN PutWork(st, rec, fresh).alias = DOMAIN st.alias \union rec.aliases
         /\ PutWork(st, rec, fresh).used \subseteq st.used \union {fresh}
<1> DEFINE G == Group(st, rec, fresh)
           m == Min(G)
           one == United(st, G, m)
           new == PutWork(st, rec, fresh)
<1>1. /\ G \in SUBSET Nat /\ m \in G /\ m \in Nat
      /\ G \subseteq st.node \/ G = {fresh}
      /\ \A a \in rec.aliases \intersect DOMAIN st.alias : st.alias[a] \in G
  BY GroupProperty
<1>2. /\ new \in Stores
      /\ new.node = one.node /\ new.used = st.used \union G
      /\ new.alias = [a \in DOMAIN st.alias \union rec.aliases |->
                        IF a \in rec.aliases THEN m ELSE MovedTo(G, m, st.alias[a])]
      /\ new.said = {r \in one.said : r.node # m \/ r.source # rec.source}
                      \union {[node |-> m, source |-> rec.source, at |-> rec.at]}
      /\ new.edge = one.edge /\ new.content = one.content
  BY PutWorkFields
<1> HIDE DEF G, m, new
<1>3. st \in Stores /\ rec.aliases \subseteq Names /\ rec.source \in Sources /\ rec.at \in Nat
  BY DEF Whole, IsRecord
<1>4. /\ one.node = (st.node \ G) \union {m} /\ one.said = NewestOf(MovedSaid(st, G, m))
      /\ one.edge = MovedEdges(st, G, m) /\ one.content = MovedContent(st, G, m)
  <2>1. one.node = NodesLeft(st, G, m)
    BY <1>1, <1>3, UnitedFields
  <2>2. one.said = NewestOf(MovedSaid(st, G, m))
    BY <1>1, <1>3, UnitedFields
  <2>3. one.edge = MovedEdges(st, G, m) /\ one.content = MovedContent(st, G, m)
    BY <1>1, <1>3, UnitedFields
  <2>4. QED BY <2>1, <2>2, <2>3 DEF NodesLeft
<1> HIDE DEF one
<1>5. /\ st.node \subseteq st.used /\ st.used \in SUBSET Nat
      /\ \A a \in DOMAIN st.alias : a \in Names /\ st.alias[a] \in st.node
      /\ \A e \in st.edge : e[1] \in st.node /\ e[2] \in st.node
  BY <1>3, StoreFields DEF Whole, Rows
<1>6. /\ \A r \in one.said : r \in Said /\ r.node \in one.node /\ \E q \in st.said : r.at = q.at
      /\ \A r, q \in one.said : r.node = q.node /\ r.source = q.source => r = q
      /\ \A r \in st.said : \E q \in one.said : q.node = MovedTo(G, m, r.node) /\ q.source = r.source
  <2> DEFINE rows == NewestOf(MovedSaid(st, G, m))
  <2>1. rows = one.said
    BY <1>4
  <2>2. /\ \A r \in rows : r \in Said /\ r.node \in (st.node \ G) \union {m} /\ \E q \in st.said : r.at = q.at
        /\ \A r, q \in rows : r.node = q.node /\ r.source = q.source => r = q
        /\ \A r \in st.said : \E q \in rows : q.node = MovedTo(G, m, r.node) /\ q.source = r.source
    BY <1>1, MovedSaidIs
  <2> HIDE DEF rows
  <2>3. QED BY <1>4, <2>1, <2>2
<1>7. /\ \A c \in new.content : c.node \in one.node
      /\ \A c, d \in new.content : c.node = d.node => c = d
      /\ \A c \in st.content : \E d \in new.content : d.node = MovedTo(G, m, c.node)
  BY <1>1, <1>2, <1>4, MovedContentIs
<1> DEFINE row == [node |-> m, source |-> rec.source, at |-> rec.at]
<1>8. row.node = m /\ row.source = rec.source /\ row.at = rec.at
  OBVIOUS
<1>9. new.said = {r \in one.said : r.node # m \/ r.source # rec.source} \union {row}
  BY <1>2
<1> HIDE DEF row
<1>10. Rows(new)
  <2>1. new.node \subseteq new.used /\ \A n \in new.used : n \in Nat
    BY <1>1, <1>2, <1>4, <1>5
  <2>2. ASSUME NEW a \in DOMAIN new.alias PROVE a \in Names /\ new.alias[a] \in new.node
    BY <1>1, <1>2, <1>3, <1>4, <1>5 DEF MovedTo
  <2>3. ASSUME NEW r \in new.said, NEW q \in new.said
        PROVE  r.node \in new.node /\ (r.node = q.node /\ r.source = q.source => r = q)
    BY <1>2, <1>4, <1>6, <1>8, <1>9
  <2>4. ASSUME NEW e \in new.edge PROVE e[1] \in new.node /\ e[2] \in new.node
    <3>1. PICK o \in st.edge : e = <<MovedTo(G, m, o[1]), MovedTo(G, m, o[2])>>
      BY <1>2, <1>4 DEF MovedEdges
    <3>2. MovedTo(G, m, o[1]) \in one.node /\ MovedTo(G, m, o[2]) \in one.node
      BY <1>1, <1>4, <1>5 DEF MovedTo
    <3>3. QED BY <1>2, <3>1, <3>2
  <2>5. QED BY <1>2, <1>7, <2>1, <2>2, <2>3, <2>4 DEF Rows
<1>11. Bounded(new)
  <2>1. PICK u \in Nat : (\A n \in st.used : n <= u) /\ (\A r \in st.said : r.at <= u)
    BY DEF Whole, Bounded
  <2> DEFINE v == u + fresh + rec.at
  <2>2. v \in Nat /\ u <= v /\ fresh <= v /\ rec.at <= v
    BY <1>3
  <2> HIDE DEF v
  <2>3. ASSUME NEW n \in new.used PROVE n <= v
    <3>1. n \in st.used \/ n = fresh
      BY <1>1, <1>2, <1>5
    <3>2. CASE n \in st.used
      BY <1>5, <2>1, <2>2, <3>2
    <3>3. QED BY <2>2, <3>1, <3>2
  <2>4. ASSUME NEW r \in new.said PROVE r.at <= v
    <3>1. CASE r = row
      BY <1>8, <2>2, <3>1
    <3>2. CASE r \in one.said
      <4>1. PICK q \in st.said : r.at = q.at
        BY <1>6, <3>2
      <4>2. q.at \in Nat /\ q.at <= u
        BY <1>3, <2>1, StoreFields DEF Said
      <4>3. QED BY <2>2, <4>1, <4>2
    <3>3. QED BY <1>9, <3>1, <3>2
  <2>5. QED BY <2>2, <2>3, <2>4 DEF Bounded
<1>12. Adds(st, new)
  <2>1. \A a \in DOMAIN st.alias : a \in DOMAIN new.alias /\ new.alias[a] = MovedTo(G, m, st.alias[a])
    BY <1>1, <1>2 DEF MovedTo
  <2>2. ASSUME NEW r \in st.said PROVE \E q \in new.said : q.node = MovedTo(G, m, r.node) /\ q.source = r.source
    <3>1. PICK q \in one.said : q.node = MovedTo(G, m, r.node) /\ q.source = r.source
      BY <1>6
    <3>2. CASE q \in new.said
      BY <3>1, <3>2
    <3>3. CASE q \notin new.said
      <4>1. q.node = m /\ q.source = rec.source
        BY <1>9, <3>3
      <4>2. QED BY <1>8, <1>9, <3>1, <4>1
    <3>4. QED BY <3>2, <3>3
  <2>3. MovedEdges(st, G, m) \subseteq new.edge
    BY <1>2, <1>4
  <2>4. new \in Stores
    BY <1>2
  <2>5. \A r \in st.said : \E q \in new.said : q.node = MovedTo(G, m, r.node) /\ q.source = r.source
    BY <2>2
  <2>6. \A c \in st.content : \E d \in new.content : d.node = MovedTo(G, m, c.node)
    BY <1>7
  <2>7. QED BY <1>1, <2>1, <2>3, <2>4, <2>5, <2>6, AddsBy
<1>13. DOMAIN new.alias = DOMAIN st.alias \union rec.aliases
  BY <1>2
<1>14. new.used \subseteq st.used \union {fresh}
  BY <1>1, <1>2, <1>5
<1>15. QED BY <1>2, <1>10, <1>11, <1>12, <1>13, <1>14 DEF Whole, new

(* Nothing moves: a store that keeps its rows adds. *)
LEMMA AddsWhenKept ==
  ASSUME NEW old, Whole(old), NEW new \in Stores,
         \A a \in DOMAIN old.alias : a \in DOMAIN new.alias /\ new.alias[a] = old.alias[a],
         old.edge \subseteq new.edge,
         old.said \subseteq new.said,
         \A c \in old.content : \E d \in new.content : d.node = c.node
  PROVE  Adds(old, new)
<1>1. \A x : MovedTo({}, 0, x) = x
  BY DEF MovedTo
<1>2. MovedEdges(old, {}, 0) \subseteq new.edge
  <2>1. ASSUME NEW e \in old.edge PROVE <<e[1], e[2]>> \in new.edge
    <3>1. e \in Nat \X Nat
      BY StoreFields DEF Whole
    <3>2. QED BY <3>1
  <2>2. QED BY <1>1, <2>1 DEF MovedEdges
<1>3. \A r \in old.said : \E q \in new.said : q.node = MovedTo({}, 0, r.node) /\ q.source = r.source
  BY <1>1
<1>4. QED BY <1>1, <1>2, <1>3, AddsBy

LEMMA WithStubIsWhole ==
  ASSUME NEW st, Whole(st), NEW a \in Names, NEW fresh \in Nat
  PROVE  LET new == WithStub(st, a, fresh) IN
         /\ Whole(new) /\ new.used \subseteq st.used \union {fresh}
         /\ DOMAIN new.alias = DOMAIN st.alias \union {a}
         /\ \A b \in DOMAIN st.alias : new.alias[b] = st.alias[b]
         /\ new.edge = st.edge /\ new.said = st.said /\ new.content = st.content
<1> DEFINE alias == [b \in DOMAIN st.alias \union {a} |-> IF b = a THEN fresh ELSE st.alias[b]]
           node == st.node \union {fresh}
           used == st.used \union {fresh}
           new == [st EXCEPT !.node = node, !.used = used, !.alias = alias]
<1>1. CASE a \in DOMAIN st.alias
  <2>1. WithStub(st, a, fresh) = st
    BY <1>1 DEF WithStub
  <2>2. QED BY <1>1, <2>1
<1>2. CASE a \notin DOMAIN st.alias
  <2>1. WithStub(st, a, fresh) = new
    BY <1>2 DEF WithStub
  <2>2. st \in Stores
    BY DEF Whole
  <2>3. alias \in Aliasings
    <3>1. alias \in [DOMAIN st.alias \union {a} -> Nat]
      BY <2>2, StoreFields
    <3>2. DOMAIN st.alias \union {a} \in SUBSET Names
      BY <2>2, StoreFields
    <3> HIDE DEF alias
    <3>3. QED BY <3>1, <3>2, AliasingsHas
  <2>4. node \in SUBSET Nat /\ used \in SUBSET Nat
    BY <2>2, StoreFields
  <2>5. /\ DOMAIN alias = DOMAIN st.alias \union {a} /\ alias[a] = fresh
        /\ \A b \in DOMAIN st.alias : alias[b] = st.alias[b]
    BY <1>2
  <2> HIDE DEF alias
  <2>6. /\ new \in Stores /\ new.node = node /\ new.used = used /\ new.alias = alias
        /\ new.edge = st.edge /\ new.said = st.said /\ new.content = st.content
    BY <2>2, <2>3, <2>4 DEF Stores
  <2> HIDE DEF new
  <2>7. /\ st.node \subseteq st.used /\ (\A n \in st.used : n \in Nat)
        /\ \A b \in DOMAIN st.alias : b \in Names /\ st.alias[b] \in st.node
        /\ \A r, q \in st.said : r.node \in st.node /\ (r.node = q.node /\ r.source = q.source => r = q)
        /\ \A e \in st.edge : e[1] \in st.node /\ e[2] \in st.node
        /\ \A c, d \in st.content : c.node \in st.node /\ (c.node = d.node => c = d)
    BY DEF Whole, Rows
  <2>8. Rows(new)
    <3>1. new.node \subseteq new.used /\ (\A n \in new.used : n \in Nat)
      BY <2>6, <2>7
    <3>2. \A b \in DOMAIN new.alias : b \in Names /\ new.alias[b] \in new.node
      BY <2>5, <2>6, <2>7
    <3>3. st.node \subseteq new.node
      BY <2>6
    <3>4. QED BY <2>6, <2>7, <3>1, <3>2, <3>3 DEF Rows
  <2>9. Bounded(new)
    <3>1. PICK u \in Nat : (\A n \in st.used : n <= u) /\ (\A r \in st.said : r.at <= u)
      BY DEF Whole, Bounded
    <3>2. u + fresh \in Nat /\ u <= u + fresh /\ fresh <= u + fresh
      OBVIOUS
    <3>3. ASSUME NEW n \in new.used PROVE n <= u + fresh
      BY <2>6, <2>7, <3>1, <3>2
    <3>4. ASSUME NEW r \in new.said PROVE r.at <= u + fresh
      <4>1. r.at \in Nat /\ r.at <= u
        BY <2>2, <2>6, <3>1, StoreFields DEF Said
      <4>2. QED BY <3>2, <4>1
    <3>5. QED BY <3>2, <3>3, <3>4 DEF Bounded
  <2>10. QED BY <2>1, <2>5, <2>6, <2>8, <2>9 DEF Whole, used
<1>3. QED BY <1>1, <1>2

LEMMA PutEdgesIsWhole ==
  ASSUME NEW st, Whole(st), NEW names \in Names \X Names, NEW fresh \in Nat \X Nat
  PROVE  LET new == PutEdges(st, names, fresh) IN
         /\ Whole(new) /\ Adds(st, new)
         /\ \A n \in new.used : n \in st.used \/ n = fresh[1] \/ n = fresh[2]
         /\ DOMAIN st.alias \subseteq DOMAIN new.alias
         /\ names[1] \in DOMAIN new.alias /\ names[2] \in DOMAIN new.alias
         /\ <<new.alias[names[1]], new.alias[names[2]]>> \in new.edge
<1> DEFINE one == WithStub(st, names[1], fresh[1])
           two == WithStub(one, names[2], fresh[2])
           edge == two.edge \union {<<two.alias[names[1]], two.alias[names[2]]>>}
           new == [two EXCEPT !.edge = edge]
<1>1. PutEdges(st, names, fresh) = new
  BY DEF PutEdges
<1>2. names[1] \in Names /\ names[2] \in Names /\ fresh[1] \in Nat /\ fresh[2] \in Nat
  OBVIOUS
<1>3. /\ Whole(one) /\ one.used \subseteq st.used \union {fresh[1]}
      /\ DOMAIN one.alias = DOMAIN st.alias \union {names[1]}
      /\ \A b \in DOMAIN st.alias : one.alias[b] = st.alias[b]
      /\ one.edge = st.edge /\ one.said = st.said /\ one.content = st.content
  BY <1>2, WithStubIsWhole
<1> HIDE DEF one
<1>4. /\ Whole(two) /\ two.used \subseteq one.used \union {fresh[2]}
      /\ DOMAIN two.alias = DOMAIN one.alias \union {names[2]}
      /\ \A b \in DOMAIN one.alias : two.alias[b] = one.alias[b]
      /\ two.edge = one.edge /\ two.said = one.said /\ two.content = one.content
  BY <1>2, <1>3, WithStubIsWhole
<1> HIDE DEF two
<1>5. two \in Stores /\ names[1] \in DOMAIN two.alias /\ names[2] \in DOMAIN two.alias
  BY <1>3, <1>4 DEF Whole
<1>6. two.alias[names[1]] \in two.node /\ two.alias[names[2]] \in two.node /\ two.node \in SUBSET Nat
  BY <1>4, <1>5, StoreFields DEF Whole, Rows
<1>7. edge \in SUBSET (Nat \X Nat)
  BY <1>5, <1>6, StoreFields
<1>8. two.edge \subseteq edge /\ <<two.alias[names[1]], two.alias[names[2]]>> \in edge
      /\ \A e \in edge : e \in two.edge \/ e = <<two.alias[names[1]], two.alias[names[2]]>>
  OBVIOUS
<1> HIDE DEF edge
<1>9. /\ new \in Stores /\ new.node = two.node /\ new.used = two.used /\ new.alias = two.alias
      /\ new.edge = edge /\ new.said = two.said /\ new.content = two.content
  BY <1>5, <1>7 DEF Stores
<1> HIDE DEF new
<1>10. Rows(new)
  <2>1. \A e \in new.edge : e[1] \in new.node /\ e[2] \in new.node
    BY <1>4, <1>6, <1>8, <1>9 DEF Whole, Rows
  <2>2. QED BY <1>4, <1>9, <2>1 DEF Whole, Rows
<1>11. Bounded(new)
  BY <1>4, <1>9 DEF Whole, Bounded
<1>12. Adds(st, new)
  <2>1. \A a \in DOMAIN st.alias : a \in DOMAIN new.alias /\ new.alias[a] = st.alias[a]
    BY <1>3, <1>4, <1>9
  <2>2. st.edge \subseteq new.edge /\ st.said \subseteq new.said
    BY <1>3, <1>4, <1>8, <1>9
  <2>3. \A c \in st.content : \E d \in new.content : d.node = c.node
    BY <1>3, <1>4, <1>9
  <2>4. QED BY <1>9, <2>1, <2>2, <2>3, AddsWhenKept
<1>13. DOMAIN st.alias \subseteq DOMAIN new.alias /\ names[1] \in DOMAIN new.alias /\ names[2] \in DOMAIN new.alias
  BY <1>3, <1>4, <1>9
<1>14. \A n \in new.used : n \in st.used \/ n = fresh[1] \/ n = fresh[2]
  BY <1>3, <1>4, <1>9
<1>15. <<new.alias[names[1]], new.alias[names[2]]>> \in new.edge
  BY <1>8, <1>9
<1>16. QED BY <1>1, <1>9, <1>10, <1>11, <1>12, <1>13, <1>14, <1>15 DEF Whole

(* A store whose contents change, and stay one per node. *)
LEMMA ContentIsWhole ==
  ASSUME NEW st, Whole(st), NEW content \in SUBSET Kept,
         \A c \in content : c.node \in st.node,
         \A c, d \in content : c.node = d.node => c = d
  PROVE  LET new == [st EXCEPT !.content = content] IN
         /\ Whole(new) /\ new.node = st.node /\ new.used = st.used /\ new.alias = st.alias
         /\ new.said = st.said /\ new.edge = st.edge /\ new.content = content
<1> DEFINE new == [st EXCEPT !.content = content]
<1>1. st \in Stores
  BY DEF Whole
<1>2. /\ new \in Stores /\ new.node = st.node /\ new.used = st.used /\ new.alias = st.alias
      /\ new.said = st.said /\ new.edge = st.edge /\ new.content = content
  BY <1>1 DEF Stores
<1> HIDE DEF new
<1>3. Rows(new)
  BY <1>2 DEF Whole, Rows
<1>4. Bounded(new)
  BY <1>2 DEF Whole, Bounded
<1>5. QED BY <1>2, <1>3, <1>4 DEF Whole, new

LEMMA PutContentIsWhole ==
  ASSUME NEW st, Whole(st), NEW a \in DOMAIN st.alias
  PROVE  LET new == PutContent(st, a) IN
         /\ Whole(new) /\ Adds(st, new) /\ new.node = st.node /\ new.used = st.used
         /\ new.alias = st.alias /\ new.edge = st.edge
         /\ \E c \in new.content : c.node = st.alias[a]
<1> DEFINE row == [node |-> st.alias[a], bytes |-> TRUE]
           content == {c \in st.content : c.node # st.alias[a]} \union {row}
           new == [st EXCEPT !.content = content]
<1>1. PutContent(st, a) = new
  BY DEF PutContent
<1>2. st \in Stores /\ st.alias[a] \in st.node
  BY DEF Whole, Rows
<1>3. row \in Kept /\ row.node = st.alias[a]
  BY <1>2, StoreFields DEF Kept
<1> HIDE DEF row
<1>4. content \in SUBSET Kept
  BY <1>2, <1>3, StoreFields
<1>5. \A c \in content : c.node \in st.node
  BY <1>2, <1>3 DEF Whole, Rows
<1>6. \A c, d \in content : c.node = d.node => c = d
  BY <1>3 DEF Whole, Rows
<1>7. row \in content /\ \A c \in st.content : c.node = st.alias[a] \/ c \in content
  OBVIOUS
<1> HIDE DEF content
<1>8. /\ Whole(new) /\ new.node = st.node /\ new.used = st.used /\ new.alias = st.alias
      /\ new.said = st.said /\ new.edge = st.edge /\ new.content = content
  BY <1>4, <1>5, <1>6, ContentIsWhole
<1> HIDE DEF new
<1>9. \A c \in st.content : \E d \in new.content : d.node = c.node
  BY <1>3, <1>7, <1>8
<1>10. new \in Stores
  BY <1>8 DEF Whole
<1>11. Adds(st, new)
  BY <1>8, <1>9, <1>10, AddsWhenKept
<1>12. QED BY <1>1, <1>3, <1>7, <1>8, <1>11

(* A use case does something only if it adds. *)
LEMMA AddsNothing ==
  ASSUME NEW st, Whole(st)
  PROVE  Adds(st, st)
<1>1. st \in Stores
  BY DEF Whole
<1>2. \A c \in st.content : \E d \in st.content : d.node = c.node
  OBVIOUS
<1>3. QED BY <1>1, <1>2, AddsWhenKept

(* The ids that a request may give to new nodes. *)
LEMMA FreshIds ==
  ASSUME NEW s \in Sides, Whole(store[s]), Guids \subseteq Nat
  PROVE  /\ Fresh(s) \subseteq Nat /\ FreshPairs(s) \subseteq Nat \X Nat
         /\ s = "src" => Fresh(s) \subseteq Guids /\ FreshPairs(s) \subseteq Guids \X Guids
<1>1. CASE s = "src"
  BY <1>1 DEF Fresh, FreshPairs
<1>2. CASE s # "src"
  <2> DEFINE used == store[s].used \union {0}
  <2>1. PICK u \in Nat : \A n \in store[s].used : n <= u
    BY DEF Whole, Bounded
  <2>2. used \in SUBSET Nat /\ used # {} /\ \A n \in used : n <= u
    BY <2>1 DEF Whole, Rows
  <2>3. Max(used) \in Nat
    <3> HIDE DEF used
    <3> QED BY <2>2, MaxProperty
  <2>4. Fresh(s) = {1 + Max(used)}
    BY <1>2 DEF Fresh
  <2> HIDE DEF used
  <2>5. Fresh(s) \subseteq Nat
    BY <2>3, <2>4
  <2>6. FreshPairs(s) \subseteq Nat \X Nat
    BY <1>2, <2>5 DEF FreshPairs
  <2>7. QED BY <1>2, <2>5, <2>6
<1>3. QED BY <1>1, <1>2
------------------------------------------------------------------------------
(* Pages: rows come in the order of their keys.                            *)

LEMMA BeforeIsAnOrder ==
  ASSUME NEW p \in Nat \X Nat, NEW q \in Nat \X Nat, NEW r \in Nat \X Nat
  PROVE  /\ ~Before(p, p) /\ (Before(p, q) => ~Before(q, p))
         /\ p = q \/ Before(p, q) \/ Before(q, p)
         /\ Before(p, q) /\ Before(q, r) => Before(p, r)
<1>1. p[1] \in Nat /\ p[2] \in Nat /\ q[1] \in Nat /\ q[2] \in Nat /\ r[1] \in Nat /\ r[2] \in Nat
  OBVIOUS
<1>2. p = <<p[1], p[2]>> /\ q = <<q[1], q[2]>>
  OBVIOUS
<1>3. p[1] = q[1] /\ p[2] = q[2] => p = q
  BY <1>2
<1>4. QED BY <1>1, <1>3 DEF Before

LEMMA FirstRow ==
  ASSUME NEW rows \in SUBSET (Nat \X Nat), rows # {}
  PROVE  \E q \in rows : \A x \in rows : x = q \/ Before(q, x)
<1> DEFINE A == {x[1] : x \in rows}
           B == {x[2] : x \in {y \in rows : y[1] = Min(A)}}
<1>1. A \in SUBSET Nat /\ A # {}
  OBVIOUS
<1>2. Min(A) \in A /\ \A y \in A : Min(A) <= y
  <2> HIDE DEF A
  <2> QED BY <1>1, MinProperty
<1>3. B \in SUBSET Nat /\ B # {}
  BY <1>2
<1>4. Min(B) \in B /\ \A y \in B : Min(B) <= y
  <2> HIDE DEF B
  <2> QED BY <1>3, MinProperty
<1>5. PICK q \in rows : q[1] = Min(A) /\ q[2] = Min(B)
  BY <1>4
<1>6. ASSUME NEW x \in rows PROVE ~Before(x, q)
  <2>1. x[1] \in Nat /\ q[1] \in Nat /\ x[2] \in Nat /\ q[2] \in Nat
    OBVIOUS
  <2>2. q[1] <= x[1] /\ (x[1] = q[1] => q[2] <= x[2])
    BY <1>2, <1>4, <1>5
  <2>3. QED BY <2>1, <2>2 DEF Before
<1>7. QED BY <1>6, BeforeIsAnOrder

LEMMA LastRow ==
  ASSUME NEW rows \in SUBSET (Nat \X Nat), rows # {}, NEW u \in Nat,
         \A r \in rows : r[1] <= u /\ r[2] <= u
  PROVE  LastOf(rows) \in rows /\ \A x \in rows : x = LastOf(rows) \/ Before(x, LastOf(rows))
<1> DEFINE A == {x[1] : x \in rows}
           B == {x[2] : x \in {y \in rows : y[1] = Max(A)}}
<1>1. A \in SUBSET Nat /\ A # {} /\ \A y \in A : y <= u
  OBVIOUS
<1>2. Max(A) \in A /\ \A y \in A : y <= Max(A)
  <2> HIDE DEF A
  <2> QED BY <1>1, MaxProperty
<1>3. B \in SUBSET Nat /\ B # {} /\ \A y \in B : y <= u
  BY <1>2
<1>4. Max(B) \in B /\ \A y \in B : y <= Max(B)
  <2> HIDE DEF B
  <2> QED BY <1>3, MaxProperty
<1>5. PICK q \in rows : q[1] = Max(A) /\ q[2] = Max(B)
  BY <1>4
<1>6. ASSUME NEW x \in rows PROVE ~Before(q, x)
  <2>1. x[1] \in Nat /\ q[1] \in Nat /\ x[2] \in Nat /\ q[2] \in Nat
    OBVIOUS
  <2>2. x[1] <= q[1] /\ (x[1] = q[1] => x[2] <= q[2])
    BY <1>2, <1>4, <1>5
  <2>3. QED BY <2>1, <2>2 DEF Before
<1>7. \A x \in rows : x = q \/ Before(x, q)
  BY <1>6, BeforeIsAnOrder
<1>8. \E r \in rows : \A x \in rows : x = r \/ Before(x, r)
  BY <1>7
<1>9. QED BY <1>8 DEF LastOf

(* The first row of all is on the first page. *)
LEMMA PageHasFirst ==
  ASSUME NEW rows \in SUBSET (Nat \X Nat), rows # {}, NEW limit \in Nat, limit > 0
  PROVE  \E q \in Page(rows, limit) : \A x \in rows : x = q \/ Before(q, x)
<1>1. PICK q \in rows : \A x \in rows : x = q \/ Before(q, x)
  BY FirstRow
<1>2. {x \in rows : Before(x, q)} = {}
  BY <1>1, BeforeIsAnOrder
<1>3. Cardinality({x \in rows : Before(x, q)}) < limit
  BY <1>2, FS_EmptySet
<1>4. QED BY <1>1, <1>3 DEF Page

(* A page is followed by all rows that it does not show, and the last page *)
(* shows all rows.                                                         *)
LEMMA NextPage ==
  ASSUME NEW rest \in SUBSET (Nat \X Nat), IsFiniteSet(rest), <<0, 0>> \notin rest,
         NEW u \in Nat, \A r \in rest : r[1] <= u /\ r[2] <= u,
         NEW limit \in Nat, limit > 0
  PROVE  LET next == NextCursor(rest, limit) IN
         /\ next \in Nat \X Nat
         /\ IF next = <<0, 0>> THEN rest \subseteq Page(rest, limit)
            ELSE \A r \in rest : r \in Page(rest, limit) \/ Before(next, r)
<1> DEFINE shown == Page(rest, limit)
           next == NextCursor(rest, limit)
           earlier(r) == {q \in rest : Before(q, r)}
<1>1. shown \subseteq rest /\ \A r \in rest : r \in shown <=> Cardinality(earlier(r)) < limit
  BY DEF Page
<1>2. ASSUME NEW r \in rest PROVE IsFiniteSet(earlier(r)) /\ Cardinality(earlier(r)) < Cardinality(rest)
  <2>1. earlier(r) \subseteq rest /\ r \notin earlier(r)
    BY BeforeIsAnOrder
  <2>2. IsFiniteSet(earlier(r)) /\ Cardinality(earlier(r)) <= Cardinality(rest)
        /\ (Cardinality(earlier(r)) = Cardinality(rest) => earlier(r) = rest)
    BY <2>1, FS_Subset
  <2>3. Cardinality(earlier(r)) \in Nat /\ Cardinality(rest) \in Nat
    BY <2>2, FS_CardinalityType
  <2>4. QED BY <2>1, <2>2, <2>3
<1>3. Cardinality(rest) \in Nat /\ \A r \in rest : Cardinality(earlier(r)) \in Nat
  BY <1>2, FS_CardinalityType
<1>4. CASE ~(Cardinality(rest) > limit)
  <2>1. next = <<0, 0>>
    BY <1>4 DEF NextCursor
  <2>2. ASSUME NEW r \in rest PROVE Cardinality(earlier(r)) < limit
    <3> HIDE DEF earlier
    <3>1. Cardinality(earlier(r)) < Cardinality(rest) /\ Cardinality(earlier(r)) \in Nat
      BY <1>2, <1>3
    <3>2. QED BY <1>3, <1>4, <3>1
  <2>3. rest \subseteq shown
    BY <1>1, <2>2
  <2> HIDE DEF shown, next
  <2>4. QED BY <2>1, <2>3 DEF shown, next
<1>5. CASE Cardinality(rest) > limit
  <2>1. next = LastOf(shown)
    BY <1>5 DEF NextCursor
  <2>2. rest # {}
    BY <1>5, FS_EmptySet
  <2>3. shown # {}
    BY <2>2, PageHasFirst
  <2> HIDE DEF shown, next
  <2>4. next \in shown /\ \A x \in shown : x = next \/ Before(x, next)
    BY <1>1, <2>1, <2>3, LastRow
  <2>5. next \in Nat \X Nat /\ next # <<0, 0>>
    BY <1>1, <2>4
  <2>6. ASSUME NEW r \in rest, ~Before(next, r) PROVE r \in shown
    <3>1. r = next \/ Before(r, next)
      BY <2>5, <2>6, BeforeIsAnOrder
    <3>2. CASE r = next
      BY <2>4, <3>2
    <3>3. CASE Before(r, next)
      <4>1. earlier(r) \subseteq earlier(next)
        BY <2>5, <3>3, BeforeIsAnOrder
      <4>2. next \in rest
        BY <1>1, <2>4
      <4>3. Cardinality(earlier(r)) <= Cardinality(earlier(next))
        BY <1>2, <4>1, <4>2, FS_Subset
      <4>4. Cardinality(earlier(next)) < limit
        BY <1>1, <2>4
      <4>5. Cardinality(earlier(r)) < limit
        BY <1>3, <4>2, <4>3, <4>4
      <4>6. QED BY <1>1, <4>5
    <3>4. QED BY <3>1, <3>2, <3>3
  <2>7. QED BY <2>5, <2>6 DEF shown, next
<1>6. QED BY <1>4, <1>5
------------------------------------------------------------------------------
(* Types. *)

SyncSteps == {"idle", "nodes", "edges", "artifacts", "have", "works", "pairs", "check", "read",
              "put", "done"}
Drained == [id : Guids, aliases : SUBSET Names, said : SUBSET Said]
Pushed == [node : Nat, aliases : SUBSET Names, source : Sources, at : Nat]
SyncLocals ==
  [step : SyncSteps, cursor : Nat \X Nat, nodes : SUBSET Drained, edges : SUBSET (Nat \X Nat),
   contents : SUBSET Nat, present : SUBSET Names, records : SUBSET Pushed,
   to_put : SUBSET (Names \X Names), art : SUBSET Names]
SteadyRows == [nodes : SUBSET Nat, edges : SUBSET (Nat \X Nat)]

Typed ==
  /\ store \in [Sides -> Stores] /\ sync \in SyncLocals /\ steady \in SteadyRows
  /\ writes \in 0 .. MaxWrites /\ errors \in 0 .. MaxErrors /\ clean \in BOOLEAN

WholeStores == (\A s \in Sides : Whole(store[s])) /\ store["src"].used \subseteq Guids

(* The work whose content the client has in hand. *)
ArtKnown ==
  IF sync.step \in {"read", "put"} THEN \E a \in Known("dst") : sync.art = {a} ELSE sync.art = {}

SyncInv == Typed /\ WholeStores /\ ArtKnown

LEMMA IdleTyped ==
  ASSUME NEW step \in SyncSteps
  PROVE  [Idle EXCEPT !.step = step] \in SyncLocals /\ [Idle EXCEPT !.step = step].art = {}
         /\ [Idle EXCEPT !.step = step].step = step /\ [Idle EXCEPT !.step = step].cursor = <<0, 0>>
         /\ [Idle EXCEPT !.step = step].nodes = {} /\ Idle \in SyncLocals /\ Idle.step = "idle"
         /\ Idle.art = {}
BY DEF Idle, SyncLocals, SyncSteps

LEMMA LocalFields ==
  ASSUME NEW l \in SyncLocals
  PROVE  /\ l.step \in SyncSteps /\ l.cursor \in Nat \X Nat /\ l.nodes \in SUBSET Drained
         /\ l.edges \in SUBSET (Nat \X Nat) /\ l.contents \in SUBSET Nat /\ l.present \in SUBSET Names
         /\ l.records \in SUBSET Pushed /\ l.to_put \in SUBSET (Names \X Names) /\ l.art \in SUBSET Names
BY DEF SyncLocals

LEMMA SyncInitTyped == SyncInit => SyncInv
<1> SUFFICES ASSUME SyncInit PROVE SyncInv
  OBVIOUS
<1>1. Guids \subseteq Nat /\ Names \subseteq Nat
  BY SyncAssumption
<1>2. PICK orphan \in {{}, {2}} \intersect SUBSET Guids :
        store = [s \in Sides |-> IF s = "dst" THEN NoStore
                                 ELSE [NoStore EXCEPT !.node = orphan, !.used = orphan]]
  BY DEF SyncInit
<1> DEFINE filled == [NoStore EXCEPT !.node = orphan, !.used = orphan]
<1>3. NoStore.alias \in Aliasings /\ DOMAIN NoStore.alias = {}
  <2>1. NoStore.alias \in [{} -> Nat]
    BY DEF NoStore
  <2>2. QED BY <2>1, AliasingsHas
<1>4. NoStore \in Stores /\ filled \in Stores
  <2>1. /\ NoStore = [node |-> {}, used |-> {}, alias |-> NoStore.alias, said |-> {}, edge |-> {},
                      content |-> {}]
    BY DEF NoStore
  <2> DEFINE alias == NoStore.alias
  <2>2. alias \in Aliasings
    BY <1>3
  <2> HIDE DEF alias
  <2>3. NoStore = [node |-> {}, used |-> {}, alias |-> alias, said |-> {}, edge |-> {}, content |-> {}]
    BY <2>1 DEF alias
  <2>4. orphan \in SUBSET Nat
    BY <1>1
  <2>5. QED BY <2>2, <2>3, <2>4 DEF Stores
<1>5. /\ filled.node = orphan /\ filled.used = orphan /\ filled.alias = NoStore.alias
      /\ filled.said = {} /\ filled.edge = {} /\ filled.content = {}
      /\ NoStore.node = {} /\ NoStore.used = {} /\ NoStore.said = {} /\ NoStore.edge = {}
      /\ NoStore.content = {}
  BY DEF NoStore
<1> HIDE DEF filled
<1>6. store \in [Sides -> Stores] /\ store["src"] = filled /\ store["dst"] = NoStore
  BY <1>2, <1>4 DEF filled, Sides
<1>7. Rows(filled) /\ Rows(NoStore)
  BY <1>1, <1>3, <1>5 DEF Rows
<1>8. Bounded(filled) /\ Bounded(NoStore)
  <2>1. \A n \in orphan : n <= 2
    OBVIOUS
  <2>2. QED BY <1>5, <2>1 DEF Bounded
<1>9. WholeStores
  BY <1>4, <1>5, <1>6, <1>7, <1>8 DEF WholeStores, Whole, Sides
<1>10. Typed
  <2>1. steady \in SteadyRows
    BY DEF SyncInit, SteadyRows
  <2>2. sync \in SyncLocals
    BY IdleTyped DEF SyncInit, SyncSteps
  <2>3. MaxWrites \in Nat /\ MaxErrors \in Nat
    BY SyncAssumption
  <2>4. writes = 0 /\ errors = 0 /\ clean = FALSE
    BY DEF SyncInit
  <2>5. writes \in 0 .. MaxWrites /\ errors \in 0 .. MaxErrors
    BY <2>3, <2>4
  <2>6. QED BY <1>6, <2>1, <2>2, <2>4, <2>5 DEF Typed
<1>11. ArtKnown
  BY IdleTyped DEF SyncInit, ArtKnown, SyncSteps
<1>12. QED BY <1>9, <1>10, <1>11 DEF SyncInv

(* A store is put in the place of one whose aliases it knows. *)
LEMMA StorePut ==
  ASSUME SyncInv, NEW s \in Sides, NEW st, Whole(st), s = "src" => st.used \subseteq Guids,
         Known(s) \subseteq DOMAIN st.alias, store' = [store EXCEPT ![s] = st]
  PROVE  /\ store' \in [Sides -> Stores] /\ WholeStores' /\ store'[s] = st
         /\ \A t \in Sides \ {s} : store'[t] = store[t]
         /\ Known("dst") \subseteq Known("dst")'
<1>1. store \in [Sides -> Stores] /\ st \in Stores
  BY DEF SyncInv, Typed, Whole
<1>2. store' \in [Sides -> Stores] /\ store'[s] = st /\ \A t \in Sides \ {s} : store'[t] = store[t]
  BY <1>1
<1>3. WholeStores'
  BY <1>2 DEF SyncInv, WholeStores, Sides
<1>4. Known("dst") \subseteq Known("dst")'
  BY <1>2 DEF Known, Sides
<1>5. QED BY <1>2, <1>3, <1>4

LEMMA WriteKeeps ==
  ASSUME SyncInv, NEW s \in Sides, NEW st, Whole(st), s = "src" => st.used \subseteq Guids,
         Known(s) \subseteq DOMAIN st.alias, Write(s, st)
  PROVE  SyncInv'
<1>1. /\ store' \in [Sides -> Stores] /\ WholeStores'
      /\ Known("dst") \subseteq Known("dst")'
  BY StorePut DEF Write
<1>2. sync' \in SyncLocals /\ (sync' = sync \/ sync' = Idle)
  BY IdleTyped DEF Write, SyncInv, Typed, SyncSteps
<1>3. ArtKnown'
  <2>1. CASE sync' = sync
    BY <1>1, <2>1 DEF ArtKnown, SyncInv
  <2>2. CASE sync' = Idle
    BY <2>2, IdleTyped DEF ArtKnown, SyncSteps
  <2>3. QED BY <1>2, <2>1, <2>2
<1>4. steady' \in SteadyRows
  BY DEF Write, SyncInv, Typed, SteadyRows
<1>5. writes' \in 0 .. MaxWrites
  <2>1. writes \in Nat /\ errors \in Nat /\ MaxWrites \in Nat /\ writes + errors < MaxWrites /\ writes' = writes + 1
    BY SyncAssumption DEF Write, SyncInv, Typed
  <2>2. QED BY <2>1
<1>6. errors' \in 0 .. MaxErrors /\ clean' \in BOOLEAN
  BY DEF Write, SyncInv, Typed
<1>7. QED BY <1>1, <1>2, <1>3, <1>4, <1>5, <1>6 DEF SyncInv, Typed

(* A user's write leaves whole stores. *)
LEMMA UserWrites ==
  ASSUME SyncInv, Users
  PROVE  \E s \in Sides : \E st : /\ Whole(st) /\ (s = "src" => st.used \subseteq Guids)
                                     /\ Known(s) \subseteq DOMAIN st.alias /\ Write(s, st)
<1>1. \A s \in Sides : Whole(store[s])
  BY DEF SyncInv, WholeStores
<1>2. Guids \subseteq Nat /\ Times \subseteq Nat /\ store["src"].used \subseteq Guids
  BY SyncAssumption DEF SyncInv, WholeStores
<1>3. ASSUME NEW s \in Sides, UserPutWork(s)
      PROVE  \E st : /\ Whole(st) /\ (s = "src" => st.used \subseteq Guids)
                     /\ Known(s) \subseteq DOMAIN st.alias /\ Write(s, st)
  <2>1. PICK A \in SUBSET Names, t \in Times, n \in Fresh(s) :
          Write(s, PutWork(store[s], [aliases |-> A, source |-> "provider", at |-> t], n))
    BY <1>3 DEF UserPutWork
  <2> DEFINE rec == [aliases |-> A, source |-> "provider", at |-> t]
             new == PutWork(store[s], rec, n)
  <2>2. IsRecord(rec)
    BY <1>2 DEF IsRecord, Sources
  <2>3. n \in Nat /\ (s = "src" => n \in Guids)
    BY <1>1, <1>2, FreshIds
  <2> HIDE DEF rec
  <2>4. Whole(new) /\ DOMAIN new.alias = Known(s) \union rec.aliases /\ new.used \subseteq store[s].used \union {n}
    BY <1>1, <2>2, <2>3, PutWorkIsWhole DEF Known
  <2> HIDE DEF new
  <2>5. (s = "src" => new.used \subseteq Guids) /\ Known(s) \subseteq DOMAIN new.alias
    BY <1>2, <2>3, <2>4
  <2>6. Write(s, new)
    BY <2>1 DEF new, rec
  <2>7. QED BY <2>4, <2>5, <2>6
<1>4. ASSUME NEW s \in Sides, UserPutEdge(s)
      PROVE  \E st : /\ Whole(st) /\ (s = "src" => st.used \subseteq Guids)
                     /\ Known(s) \subseteq DOMAIN st.alias /\ Write(s, st)
  <2>1. PICK a \in Names, b \in Names, fresh \in FreshPairs(s) :
          Write(s, PutEdges(store[s], <<a, b>>, fresh))
    BY <1>4 DEF UserPutEdge
  <2> DEFINE new == PutEdges(store[s], <<a, b>>, fresh)
  <2>2. fresh \in Nat \X Nat /\ (s = "src" => fresh[1] \in Guids /\ fresh[2] \in Guids)
    BY <1>1, <1>2, FreshIds
  <2>3. <<a, b>> \in Names \X Names /\ Whole(store[s])
    BY <1>1
  <2>4. /\ Whole(new) /\ Known(s) \subseteq DOMAIN new.alias
        /\ \A n \in new.used : n \in store[s].used \/ n = fresh[1] \/ n = fresh[2]
    BY <2>2, <2>3, PutEdgesIsWhole DEF Known
  <2> HIDE DEF new
  <2>5. s = "src" => new.used \subseteq Guids
    BY <1>2, <2>2, <2>4
  <2>6. QED BY <2>1, <2>4, <2>5 DEF new
<1>5. ASSUME UserPutContent
      PROVE  \E st : /\ Whole(st) /\ st.used \subseteq Guids
                     /\ Known("src") \subseteq DOMAIN st.alias /\ Write("src", st)
  <2>1. PICK a \in Known("src") : Write("src", PutContent(store["src"], a))
    BY <1>5 DEF UserPutContent
  <2> DEFINE new == PutContent(store["src"], a)
  <2>2. Whole(new) /\ new.used = store["src"].used /\ new.alias = store["src"].alias
    BY <1>1, <2>1, PutContentIsWhole DEF Known, Sides
  <2> HIDE DEF new
  <2>3. QED BY <1>2, <2>1, <2>2 DEF new, Known
<1>6. ASSUME LoseBlob
      PROVE  \E st : /\ Whole(st) /\ st.used \subseteq Guids
                     /\ Known("src") \subseteq DOMAIN st.alias /\ Write("src", st)
  <2>1. PICK c \in store["src"].content :
          Write("src", [store["src"] EXCEPT !.content = (@ \ {c}) \union {[c EXCEPT !.bytes = FALSE]}])
    BY <1>6 DEF LoseBlob
  <2> DEFINE row == [c EXCEPT !.bytes = FALSE]
             content == (store["src"].content \ {c}) \union {row}
             new == [store["src"] EXCEPT !.content = content]
  <2>2. /\ store["src"].content \in SUBSET Kept
        /\ \A x, y \in store["src"].content : x.node \in store["src"].node /\ (x.node = y.node => x = y)
    BY <1>1, StoreFields DEF Whole, Rows, Sides
  <2>3. row \in Kept /\ row.node = c.node
    BY <2>2 DEF Kept
  <2>4. Write("src", new)
    BY <2>1
  <2> HIDE DEF row
  <2>5. content \in SUBSET Kept /\ (\A x \in content : x.node \in store["src"].node)
        /\ \A x, y \in content : x.node = y.node => x = y
    BY <2>2, <2>3
  <2> HIDE DEF content
  <2>6. Whole(new) /\ new.used = store["src"].used /\ new.alias = store["src"].alias
    BY <1>1, <2>5, ContentIsWhole DEF Sides
  <2> HIDE DEF new
  <2>7. QED BY <1>2, <2>4, <2>6 DEF Known
<1>7. QED BY <1>3, <1>4, <1>5, <1>6 DEF Users, Sides
------------------------------------------------------------------------------
(* The rows of the source, as its export shows them.                       *)

LEMMA RestIsPaged ==
  ASSUME NEW rows \in SUBSET (Nat \X Nat), NEW u \in Nat,
         \A r \in rows : r[1] # 0 /\ r[1] <= u /\ r[2] <= u,
         NEW cursor \in Nat \X Nat, NEW limit \in Nat, limit > 0
  PROVE  LET rest == Rest(rows, cursor)
             next == NextCursor(rest, limit)
         IN /\ next \in Nat \X Nat /\ Page(rest, limit) \subseteq rows
            /\ \A r \in rows : Before(cursor, r) =>
                 r \in Page(rest, limit) \/ (next # <<0, 0>> /\ Before(next, r))
<1> DEFINE rest == Rest(rows, cursor)
           next == NextCursor(rest, limit)
           shown == Page(rest, limit)
<1>1. rest \in SUBSET (Nat \X Nat) /\ rest \subseteq rows /\ \A r \in rows : Before(cursor, r) => r \in rest
  BY DEF Rest
<1>2. IsFiniteSet(rest)
  <2>1. IsFiniteSet(0 .. u)
    BY FS_Interval
  <2>2. IsFiniteSet((0 .. u) \X (0 .. u))
    BY <2>1, FS_Product
  <2>3. ASSUME NEW r \in rest PROVE r \in (0 .. u) \X (0 .. u)
    <3>1. r \in Nat \X Nat /\ r[1] <= u /\ r[2] <= u
      BY <1>1
    <3>2. r = <<r[1], r[2]>> /\ r[1] \in 0 .. u /\ r[2] \in 0 .. u
      BY <3>1
    <3>3. QED BY <3>2
  <2>4. rest \subseteq (0 .. u) \X (0 .. u)
    BY <2>3
  <2> HIDE DEF rest
  <2>5. QED BY <2>2, <2>4, FS_Subset
<1>3. <<0, 0>> \notin rest /\ \A r \in rest : r[1] <= u /\ r[2] <= u
  <2>1. ASSUME <<0, 0>> \in rest PROVE FALSE
    <3>1. <<0, 0>>[1] # 0
      BY <1>1, <2>1
    <3>2. QED BY <3>1
  <2>2. QED BY <1>1, <2>1
<1>4. shown \subseteq rest
  BY DEF Page
<1> HIDE DEF rest
<1>5. /\ next \in Nat \X Nat
      /\ IF next = <<0, 0>> THEN rest \subseteq shown ELSE \A r \in rest : r \in shown \/ Before(next, r)
  BY <1>1, <1>2, <1>3, NextPage
<1> HIDE DEF next, shown
<1>6. shown \subseteq rows
  BY <1>1, <1>4
<1>7. ASSUME NEW r \in rows, Before(cursor, r) PROVE r \in shown \/ (next # <<0, 0>> /\ Before(next, r))
  BY <1>1, <1>5, <1>7
<1>8. QED BY <1>5, <1>6, <1>7 DEF shown, next, rest

LEMMA SourceRows ==
  ASSUME SyncInv
  PROVE  /\ store["src"].node \subseteq Guids /\ store["src"].node \subseteq Nat
         /\ store["src"].edge \in SUBSET (Nat \X Nat)
         /\ \E u \in Nat : /\ \A r \in {<<n, 0>> : n \in store["src"].node} :
                                r \in Nat \X Nat /\ r[1] # 0 /\ r[1] <= u /\ r[2] <= u
                           /\ \A r \in store["src"].edge : r[1] # 0 /\ r[1] <= u /\ r[2] <= u
<1> DEFINE src == store["src"]
<1>1. Whole(src) /\ src.used \subseteq Guids
  BY DEF SyncInv, WholeStores, Sides
<1>2. \A g \in Guids : g \in Nat /\ g # 0
  BY SyncAssumption
<1> HIDE DEF src
<1>3. /\ src.node \subseteq src.used /\ \A e \in src.edge : e[1] \in src.node /\ e[2] \in src.node
  BY <1>1 DEF Whole, Rows
<1>4. src.edge \in SUBSET (Nat \X Nat)
  BY <1>1, StoreFields DEF Whole
<1>5. PICK u \in Nat : \A n \in src.used : n <= u
  BY <1>1 DEF Whole, Bounded
<1>6. ASSUME NEW n \in src.node
      PROVE  <<n, 0>> \in Nat \X Nat /\ <<n, 0>>[1] # 0 /\ <<n, 0>>[1] <= u /\ <<n, 0>>[2] <= u
  <2>1. n \in Nat /\ n # 0 /\ n <= u /\ 0 <= u
    BY <1>1, <1>2, <1>3, <1>5
  <2>2. <<n, 0>>[1] = n /\ <<n, 0>>[2] = 0
    OBVIOUS
  <2>3. QED BY <2>1, <2>2
<1>7. \A r \in src.edge : r[1] # 0 /\ r[1] <= u /\ r[2] <= u
  BY <1>1, <1>2, <1>3, <1>5
<1>8. src.node \subseteq Guids /\ src.node \subseteq Nat
  BY <1>1, <1>2, <1>3
<1>9. QED BY <1>4, <1>6, <1>7, <1>8 DEF src

LEMMA NodesPage ==
  ASSUME SyncInv
  PROVE  LET rest == Rest({<<n, 0>> : n \in store["src"].node}, sync.cursor)
             next == NextCursor(rest, NodePage)
         IN /\ next \in Nat \X Nat
            /\ \A r \in Page(rest, NodePage) : r[1] \in store["src"].node
            /\ \A n \in store["src"].node : Before(sync.cursor, <<n, 0>>) =>
                 \/ \E r \in Page(rest, NodePage) : r[1] = n
                 \/ next # <<0, 0>> /\ Before(next, <<n, 0>>)
<1> DEFINE rows == {<<n, 0>> : n \in store["src"].node}
           rest == Rest(rows, sync.cursor)
           next == NextCursor(rest, NodePage)
           shown == Page(rest, NodePage)
<1>1. NodePage \in Nat /\ NodePage > 0
  BY SyncAssumption
<1>2. sync.cursor \in Nat \X Nat
  BY LocalFields DEF SyncInv, Typed
<1>3. PICK u \in Nat : \A r \in rows : r \in Nat \X Nat /\ r[1] # 0 /\ r[1] <= u /\ r[2] <= u
  BY SourceRows
<1>4. /\ \A r \in rows : r[1] \in store["src"].node
      /\ \A n \in store["src"].node : <<n, 0>> \in rows /\ <<n, 0>>[1] = n
  OBVIOUS
<1> HIDE DEF rows
<1>5. rows \in SUBSET (Nat \X Nat)
  BY <1>3
<1>6. /\ next \in Nat \X Nat /\ shown \subseteq rows
      /\ \A r \in rows : Before(sync.cursor, r) => r \in shown \/ (next # <<0, 0>> /\ Before(next, r))
  BY <1>1, <1>2, <1>3, <1>5, RestIsPaged
<1> HIDE DEF next, shown
<1>7. \A r \in shown : r[1] \in store["src"].node
  BY <1>4, <1>6
<1>8. ASSUME NEW n \in store["src"].node, Before(sync.cursor, <<n, 0>>)
      PROVE  (\E r \in shown : r[1] = n) \/ (next # <<0, 0>> /\ Before(next, <<n, 0>>))
  BY <1>4, <1>6, <1>8
<1>9. QED BY <1>6, <1>7, <1>8 DEF next, shown, rest, rows

LEMMA EdgesPage ==
  ASSUME SyncInv
  PROVE  LET rest == Rest(store["src"].edge, sync.cursor)
             next == NextCursor(rest, RowPage)
         IN /\ next \in Nat \X Nat /\ Page(rest, RowPage) \subseteq store["src"].edge
            /\ \A r \in store["src"].edge : Before(sync.cursor, r) =>
                 r \in Page(rest, RowPage) \/ (next # <<0, 0>> /\ Before(next, r))
<1> DEFINE rows == store["src"].edge
<1>1. RowPage \in Nat /\ RowPage > 0
  BY SyncAssumption
<1>2. sync.cursor \in Nat \X Nat
  BY LocalFields DEF SyncInv, Typed
<1>3. rows \in SUBSET (Nat \X Nat)
  BY SourceRows
<1>4. PICK u \in Nat : \A r \in rows : r[1] # 0 /\ r[1] <= u /\ r[2] <= u
  BY SourceRows
<1> HIDE DEF rows
<1>5. LET rest == Rest(rows, sync.cursor)
          next == NextCursor(rest, RowPage)
      IN /\ next \in Nat \X Nat /\ Page(rest, RowPage) \subseteq rows
         /\ \A r \in rows : Before(sync.cursor, r) =>
              r \in Page(rest, RowPage) \/ (next # <<0, 0>> /\ Before(next, r))
  BY <1>1, <1>2, <1>3, <1>4, RestIsPaged
<1>6. QED BY <1>5 DEF rows
------------------------------------------------------------------------------
(* The steps of the client: types, and a destination that only gains.      *)

(* A step of the client in neither store. *)
LEMMA LocalStep ==
  ASSUME SyncInv, UNCHANGED <<store, writes>>, sync' \in SyncLocals, steady' \in SteadyRows,
         errors' \in 0 .. MaxErrors, clean' \in BOOLEAN, ArtKnown'
  PROVE  SyncInv' /\ Adds(store["dst"], store["dst"]')
<1>1. SyncInv'
  BY DEF SyncInv, Typed, WholeStores
<1>2. Adds(store["dst"], store["dst"]')
  <2>1. Whole(store["dst"])
    BY DEF SyncInv, WholeStores, Sides
  <2>2. QED BY <2>1, AddsNothing
<1>3. QED BY <1>1, <1>2

(* A failure is counted within its bound. *)
LEMMA FailureCounted ==
  ASSUME SyncInv, MayFail, errors' = errors + 1
  PROVE  errors' \in 0 .. MaxErrors
<1>1. errors \in Nat /\ MaxErrors \in Nat /\ errors < MaxErrors
  BY SyncAssumption DEF SyncInv, Typed, MayFail
<1>2. QED BY <1>1

LEMMA BeginSyncKeeps ==
  ASSUME SyncInv, BeginSync
  PROVE  SyncInv' /\ Adds(store["dst"], store["dst"]')
<1>1. sync' = [Idle EXCEPT !.step = "nodes"] /\ UNCHANGED <<store, writes, errors>> /\ clean' = TRUE
  BY DEF BeginSync
<1>2. sync' \in SyncLocals /\ sync'.art = {} /\ sync'.step = "nodes"
  BY <1>1, IdleTyped DEF SyncSteps
<1>3. steady' \in SteadyRows
  BY SourceRows DEF BeginSync, SteadyRows
<1>4. ArtKnown'
  BY <1>2 DEF ArtKnown
<1>5. errors' \in 0 .. MaxErrors /\ clean' \in BOOLEAN
  BY <1>1 DEF SyncInv, Typed
<1>6. QED BY <1>1, <1>2, <1>3, <1>4, <1>5, LocalStep

LEMMA DrainNodesKeeps ==
  ASSUME SyncInv, DrainNodes
  PROVE  SyncInv' /\ Adds(store["dst"], store["dst"]')
<1> DEFINE rest == Rest({<<n, 0>> : n \in store["src"].node}, sync.cursor)
           next == NextCursor(rest, NodePage)
           row(r) == [id |-> r[1], aliases |-> AliasesOf("src", r[1]),
                      said |-> {q \in store["src"].said : q.node = r[1]}]
           nodes == sync.nodes \union {row(r) : r \in Page(rest, NodePage)}
           step == IF next = <<0, 0>> THEN "edges" ELSE sync.step
           locals == [sync EXCEPT !.nodes = nodes, !.cursor = next, !.step = step]
<1>1. sync' = locals /\ sync.step = "nodes" /\ UNCHANGED <<store, writes, errors, clean>>
  BY DEF DrainNodes
<1>2. next \in Nat \X Nat /\ \A r \in Page(rest, NodePage) : r[1] \in Guids
  BY NodesPage, SourceRows
<1>3. ASSUME NEW r \in Page(rest, NodePage) PROVE row(r) \in Drained
  <2>1. AliasesOf("src", r[1]) \subseteq Names /\ store["src"].said \in SUBSET Said
    BY StoreFields DEF AliasesOf, Known, SyncInv, WholeStores, Whole, Sides
  <2>2. QED BY <1>2, <2>1 DEF Drained
<1>4. nodes \in SUBSET Drained
  BY <1>3, LocalFields DEF SyncInv, Typed
<1>5. step \in SyncSteps /\ step \notin {"read", "put"}
  BY <1>1 DEF SyncSteps
<1>6. sync \in SyncLocals /\ sync.art = {}
  BY <1>1 DEF SyncInv, Typed, ArtKnown
<1> HIDE DEF nodes, step, next
<1>7. locals \in SyncLocals /\ locals.step = step /\ locals.art = sync.art
  BY <1>2, <1>4, <1>5, <1>6 DEF SyncLocals
<1> HIDE DEF locals
<1>8. ArtKnown'
  BY <1>1, <1>5, <1>6, <1>7 DEF ArtKnown
<1>9. steady' \in SteadyRows
  <2>1. store["src"].edge \in SUBSET (Nat \X Nat) /\ steady \in SteadyRows
    BY SourceRows DEF SyncInv, Typed
  <2>2. steady' = steady \/ steady' = [steady EXCEPT !.edges = store["src"].edge]
    BY DEF DrainNodes
  <2>3. QED BY <2>1, <2>2 DEF SteadyRows
<1>10. errors' \in 0 .. MaxErrors /\ clean' \in BOOLEAN
  BY <1>1 DEF SyncInv, Typed
<1>11. QED BY <1>1, <1>7, <1>8, <1>9, <1>10, LocalStep

LEMMA DrainEdgesKeeps ==
  ASSUME SyncInv, DrainEdges
  PROVE  SyncInv' /\ Adds(store["dst"], store["dst"]')
<1> DEFINE rest == Rest(store["src"].edge, sync.cursor)
           next == NextCursor(rest, RowPage)
           edges == sync.edges \union Page(rest, RowPage)
           step == IF next = <<0, 0>> THEN "artifacts" ELSE sync.step
           locals == [sync EXCEPT !.edges = edges, !.cursor = next, !.step = step]
<1>1. sync' = locals /\ sync.step = "edges" /\ UNCHANGED <<store, writes, errors, clean, steady>>
  BY DEF DrainEdges
<1>2. next \in Nat \X Nat /\ Page(rest, RowPage) \subseteq store["src"].edge
  BY EdgesPage
<1>3. edges \in SUBSET (Nat \X Nat)
  BY <1>2, SourceRows, LocalFields DEF SyncInv, Typed
<1>4. step \in SyncSteps /\ step \notin {"read", "put"}
  BY <1>1 DEF SyncSteps
<1>5. sync \in SyncLocals /\ sync.art = {}
  BY <1>1 DEF SyncInv, Typed, ArtKnown
<1> HIDE DEF edges, step, next
<1>6. locals \in SyncLocals /\ locals.step = step /\ locals.art = sync.art
  BY <1>2, <1>3, <1>4, <1>5 DEF SyncLocals
<1> HIDE DEF locals
<1>7. ArtKnown'
  BY <1>1, <1>4, <1>5, <1>6 DEF ArtKnown
<1>8. errors' \in 0 .. MaxErrors /\ clean' \in BOOLEAN /\ steady' \in SteadyRows
  BY <1>1 DEF SyncInv, Typed
<1>9. QED BY <1>1, <1>6, <1>7, <1>8, LocalStep

LEMMA DrainArtifactsKeeps ==
  ASSUME SyncInv, DrainArtifacts
  PROVE  SyncInv' /\ Adds(store["dst"], store["dst"]')
<1> DEFINE contents == {c.node : c \in store["src"].content}
           locals == [sync EXCEPT !.contents = contents, !.step = "have"]
<1>1. sync' = locals /\ sync.step = "artifacts" /\ UNCHANGED <<store, writes, errors, clean, steady>>
  BY DEF DrainArtifacts
<1>2. contents \in SUBSET Nat
  BY StoreFields DEF SyncInv, WholeStores, Whole, Sides, Kept
<1>3. sync \in SyncLocals /\ sync.art = {}
  BY <1>1 DEF SyncInv, Typed, ArtKnown
<1> HIDE DEF contents
<1>4. locals \in SyncLocals /\ locals.step = "have" /\ locals.art = sync.art
  BY <1>2, <1>3 DEF SyncLocals, SyncSteps
<1> HIDE DEF locals
<1>5. ArtKnown'
  BY <1>1, <1>3, <1>4 DEF ArtKnown
<1>6. errors' \in 0 .. MaxErrors /\ clean' \in BOOLEAN /\ steady' \in SteadyRows
  BY <1>1 DEF SyncInv, Typed
<1>7. QED BY <1>1, <1>4, <1>5, <1>6, LocalStep

LEMMA DrainFailsKeeps ==
  ASSUME SyncInv, DrainFails
  PROVE  SyncInv' /\ Adds(store["dst"], store["dst"]')
<1>1. sync' = Idle /\ UNCHANGED <<store, writes, clean, steady>> /\ MayFail /\ errors' = errors + 1
  BY DEF DrainFails
<1>2. sync' \in SyncLocals /\ ArtKnown'
  BY <1>1, IdleTyped DEF SyncSteps, ArtKnown
<1>3. errors' \in 0 .. MaxErrors
  BY <1>1, FailureCounted
<1>4. clean' \in BOOLEAN /\ steady' \in SteadyRows
  BY <1>1 DEF SyncInv, Typed
<1>5. QED BY <1>1, <1>2, <1>3, <1>4, LocalStep

LEMMA HaveKeeps ==
  ASSUME SyncInv, Have
  PROVE  SyncInv' /\ Adds(store["dst"], store["dst"]')
<1> DEFINE present == Known("dst") \intersect UNION {n.aliases : n \in sync.nodes}
           records == UNION {Records(n) : n \in ToPush(sync.nodes, present)}
           locals == [sync EXCEPT !.present = present, !.step = "works", !.records = records]
<1>1. sync' = locals /\ sync.step = "have" /\ UNCHANGED <<store, writes, errors, clean, steady>>
  BY DEF Have
<1>2. present \in SUBSET Names
  BY StoreFields DEF SyncInv, WholeStores, Whole, Known, Sides
<1>3. records \in SUBSET Pushed
  <2>1. ASSUME NEW n \in Drained PROVE Records(n) \subseteq Pushed
    <3>1. n.id \in Nat /\ n.aliases \in SUBSET Names /\ n.said \in SUBSET Said
      BY SyncAssumption DEF Drained
    <3>2. ASSUME NEW r \in n.said
          PROVE [node |-> n.id, aliases |-> n.aliases, source |-> r.source, at |-> r.at] \in Pushed
      BY <3>1 DEF Pushed, Said
    <3>3. [node |-> n.id, aliases |-> n.aliases, source |-> "migration", at |-> 0] \in Pushed
      BY <3>1 DEF Pushed, Sources
    <3>4. QED BY <3>2, <3>3 DEF Records
  <2>2. ToPush(sync.nodes, present) \subseteq Drained
    BY LocalFields DEF ToPush, SyncInv, Typed
  <2>3. QED BY <2>1, <2>2
<1>4. sync \in SyncLocals /\ sync.art = {}
  BY <1>1 DEF SyncInv, Typed, ArtKnown
<1> HIDE DEF present, records
<1>5. locals \in SyncLocals /\ locals.step = "works" /\ locals.art = sync.art
  BY <1>2, <1>3, <1>4 DEF SyncLocals, SyncSteps
<1> HIDE DEF locals
<1>6. ArtKnown'
  BY <1>1, <1>4, <1>5 DEF ArtKnown
<1>7. errors' \in 0 .. MaxErrors /\ clean' \in BOOLEAN /\ steady' \in SteadyRows
  BY <1>1 DEF SyncInv, Typed
<1>8. QED BY <1>1, <1>5, <1>6, <1>7, LocalStep

(* A step of the client that puts st in the destination. *)
LEMMA DestinationStep ==
  ASSUME SyncInv, NEW st, Whole(st), Adds(store["dst"], st), store' = [store EXCEPT !["dst"] = st],
         UNCHANGED <<writes, steady>>, errors' \in 0 .. MaxErrors, clean' \in BOOLEAN,
         sync' \in SyncLocals, sync'.step \notin {"read", "put"}, sync'.art = {}
  PROVE  SyncInv' /\ Adds(store["dst"], store["dst"]')
<1>1. Known("dst") \subseteq DOMAIN st.alias
  BY DEF Adds, Known
<1>2. store' \in [Sides -> Stores] /\ WholeStores' /\ store'["dst"] = st
  BY <1>1, StorePut DEF Sides
<1>3. ArtKnown'
  BY DEF ArtKnown
<1>4. SyncInv'
  BY <1>2, <1>3 DEF SyncInv, Typed
<1>5. QED BY <1>2, <1>4

LEMMA ReplaysStep ==
  ASSUME SyncInv, NEW st, Whole(st), Adds(store["dst"], st), Replays(st),
         UNCHANGED <<writes, steady>>,
         sync' \in SyncLocals, sync'.step \notin {"read", "put"}, sync'.art = {}
  PROVE  SyncInv' /\ Adds(store["dst"], store["dst"]')
<1>1. errors' \in 0 .. MaxErrors /\ clean' \in BOOLEAN
  BY FailureCounted DEF Replays, SyncInv, Typed
<1>2. CASE store' = [store EXCEPT !["dst"] = st]
  BY <1>1, <1>2, DestinationStep
<1>3. CASE UNCHANGED store
  <2>1. steady' \in SteadyRows /\ ArtKnown'
    BY DEF SyncInv, Typed, ArtKnown
  <2>2. QED BY <1>1, <1>3, <2>1, LocalStep
<1>4. QED BY <1>2, <1>3 DEF Replays

LEMMA ReplayWorkKeeps ==
  ASSUME SyncInv, ReplayWork
  PROVE  SyncInv' /\ Adds(store["dst"], store["dst"]')
<1>1. PICK r \in sync.records, n \in Fresh("dst") :
        Replays(PutWork(store["dst"], r, n)) /\ sync' = [sync EXCEPT !.records = @ \ {r}]
  BY DEF ReplayWork
<1>2. Whole(store["dst"]) /\ Guids \subseteq Nat
  BY SyncAssumption DEF SyncInv, WholeStores, Sides
<1>3. n \in Nat /\ IsRecord(r)
  <2>1. r \in Pushed
    BY LocalFields DEF SyncInv, Typed
  <2>2. n \in Nat
    BY <1>2, FreshIds DEF Sides
  <2>3. QED BY <2>1, <2>2 DEF Pushed, IsRecord
<1> DEFINE st == PutWork(store["dst"], r, n)
<1>4. Whole(st) /\ Adds(store["dst"], st)
  BY <1>2, <1>3, PutWorkIsWhole
<1> HIDE DEF st
<1>5. sync' \in SyncLocals /\ sync'.step = "works" /\ sync'.art = {}
  <2>1. sync \in SyncLocals /\ sync.step = "works" /\ sync.art = {}
    BY DEF ReplayWork, SyncInv, Typed, ArtKnown
  <2>2. QED BY <1>1, <2>1 DEF SyncLocals
<1>6. UNCHANGED <<writes, steady>> /\ Replays(st)
  BY <1>1 DEF ReplayWork, st
<1>7. QED BY <1>4, <1>5, <1>6, ReplaysStep

LEMMA WorksReplayedKeeps ==
  ASSUME SyncInv, WorksReplayed
  PROVE  SyncInv' /\ Adds(store["dst"], store["dst"]')
<1> DEFINE pairs == {p \in {<<a, b>> : a \in Names, b \in Names} : \E e \in sync.edges :
                        p[1] \in AddressOf(sync.nodes, e[1]) /\ p[2] \in AddressOf(sync.nodes, e[2])}
<1>1. sync' = [sync EXCEPT !.step = "pairs", !.to_put = pairs] /\ pairs \in SUBSET (Names \X Names)
  BY DEF WorksReplayed
<1> HIDE DEF pairs
<1>2. sync \in SyncLocals /\ sync.art = {} /\ UNCHANGED <<store, writes, errors, clean, steady>>
  BY DEF WorksReplayed, SyncInv, Typed, ArtKnown
<1>3. sync' \in SyncLocals /\ sync'.step = "pairs" /\ sync'.art = {}
  BY <1>1, <1>2 DEF SyncLocals, SyncSteps
<1>4. ArtKnown'
  BY <1>3 DEF ArtKnown
<1>5. errors' \in 0 .. MaxErrors /\ clean' \in BOOLEAN /\ steady' \in SteadyRows
  BY <1>2 DEF SyncInv, Typed
<1>6. QED BY <1>2, <1>3, <1>4, <1>5, LocalStep

(* The next edge of a batch is one of those to put. *)
LEMMA NextOfBatch ==
  ASSUME SyncInv, sync.to_put # {}
  PROVE  LET batch == Page(sync.to_put, EdgeBatch)
             p == CHOOSE q \in batch : \A x \in batch : x = q \/ Before(q, x)
         IN p \in sync.to_put /\ p \in Names \X Names
<1> DEFINE batch == Page(sync.to_put, EdgeBatch)
           p == CHOOSE q \in batch : \A x \in batch : x = q \/ Before(q, x)
<1>1. sync.to_put \in SUBSET (Names \X Names) /\ Names \subseteq Nat /\ EdgeBatch \in Nat /\ EdgeBatch > 0
  BY LocalFields, SyncAssumption DEF SyncInv, Typed
<1>2. sync.to_put \in SUBSET (Nat \X Nat) /\ batch \subseteq sync.to_put
  BY <1>1 DEF Page
<1>3. \E q \in batch : \A x \in sync.to_put : x = q \/ Before(q, x)
  BY <1>1, <1>2, PageHasFirst
<1> HIDE DEF batch
<1>4. \E q \in batch : \A x \in batch : x = q \/ Before(q, x)
  BY <1>2, <1>3
<1>5. p \in batch
  BY <1>4
<1> HIDE DEF p
<1>6. p \in sync.to_put /\ p \in Names \X Names
  BY <1>1, <1>2, <1>5
<1>7. QED BY <1>6 DEF p, batch

LEMMA ReplayEdgesKeeps ==
  ASSUME SyncInv, ReplayEdges
  PROVE  SyncInv' /\ Adds(store["dst"], store["dst"]')
<1> DEFINE batch == Page(sync.to_put, EdgeBatch)
           p == CHOOSE q \in batch : \A x \in batch : x = q \/ Before(q, x)
<1>1. p \in Names \X Names
  BY NextOfBatch DEF ReplayEdges
<1>2. Whole(store["dst"]) /\ Guids \subseteq Nat
  BY SyncAssumption DEF SyncInv, WholeStores, Sides
<1>3. \/ /\ \E f \in FreshPairs("dst") : store' = [store EXCEPT !["dst"] = PutEdges(@, p, f)]
         /\ sync' = [sync EXCEPT !.to_put = @ \ {p}]
         /\ UNCHANGED <<errors, clean>>
      \/ /\ MayFail /\ errors' = errors + 1 /\ clean' = FALSE
         /\ sync' = [sync EXCEPT !.to_put = @ \ batch]
         /\ UNCHANGED store
  BY DEF ReplayEdges
<1> HIDE DEF p, batch
<1>4. sync \in SyncLocals /\ sync.step = "pairs" /\ sync.art = {} /\ UNCHANGED <<writes, steady>>
  BY DEF ReplayEdges, SyncInv, Typed, ArtKnown
<1>5. sync' \in SyncLocals /\ sync'.step = "pairs" /\ sync'.art = {}
  BY <1>3, <1>4 DEF SyncLocals
<1>6. errors' \in 0 .. MaxErrors /\ clean' \in BOOLEAN /\ steady' \in SteadyRows
  BY <1>3, <1>4, FailureCounted DEF SyncInv, Typed
<1>7. ASSUME NEW f \in FreshPairs("dst"), store' = [store EXCEPT !["dst"] = PutEdges(@, p, f)]
      PROVE  SyncInv' /\ Adds(store["dst"], store["dst"]')
  <2> DEFINE st == PutEdges(store["dst"], p, f)
  <2>1. f \in Nat \X Nat
    BY <1>2, FreshIds DEF Sides
  <2>2. Whole(st) /\ Adds(store["dst"], st)
    BY <1>1, <1>2, <2>1, PutEdgesIsWhole
  <2>3. store' = [store EXCEPT !["dst"] = st]
    BY <1>7
  <2> HIDE DEF st
  <2>4. QED BY <1>4, <1>5, <1>6, <2>2, <2>3, DestinationStep
<1>8. ASSUME UNCHANGED store
      PROVE  SyncInv' /\ Adds(store["dst"], store["dst"]')
  <2>1. ArtKnown'
    BY <1>5 DEF ArtKnown
  <2>2. QED BY <1>4, <1>5, <1>6, <1>8, <2>1, LocalStep
<1>9. QED BY <1>3, <1>7, <1>8

(* The alias that addresses a node is one of its aliases. *)
LEMMA AddressIsAlias ==
  ASSUME SyncInv, NEW id, NEW a \in AddressOf(sync.nodes, id)
  PROVE  /\ a \in Names
         /\ \E n \in sync.nodes : n.id = id /\ n.aliases # {} /\ a = Chosen(n.aliases) /\ a \in n.aliases
<1>1. PICK n \in sync.nodes : n.id = id /\ n.aliases # {} /\ a = Chosen(n.aliases)
  BY DEF AddressOf
<1>2. n.aliases \in SUBSET Names /\ n.aliases \in SUBSET Nat
  BY LocalFields, SyncAssumption DEF SyncInv, Typed, Drained
<1>3. a \in n.aliases
  BY <1>1, <1>2, MinProperty DEF Chosen
<1>4. QED BY <1>1, <1>2, <1>3

LEMMA EdgesReplayedKeeps ==
  ASSUME SyncInv, EdgesReplayed
  PROVE  SyncInv' /\ Adds(store["dst"], store["dst"]')
<1> DEFINE pairs == {<<a, a>> : a \in UNION {AddressOf(sync.nodes, id) : id \in sync.contents}}
<1>1. sync' = [sync EXCEPT !.step = "check", !.to_put = pairs]
  BY DEF EdgesReplayed
<1>2. sync \in SyncLocals /\ sync.art = {} /\ UNCHANGED <<store, writes, errors, clean, steady>>
  BY DEF EdgesReplayed, SyncInv, Typed, ArtKnown
<1>3. pairs \in SUBSET (Names \X Names)
  BY AddressIsAlias
<1> HIDE DEF pairs
<1>4. sync' \in SyncLocals /\ sync'.step = "check" /\ sync'.art = {}
  BY <1>1, <1>2, <1>3 DEF SyncLocals, SyncSteps
<1>5. ArtKnown'
  BY <1>4 DEF ArtKnown
<1>6. errors' \in 0 .. MaxErrors /\ clean' \in BOOLEAN /\ steady' \in SteadyRows
  BY <1>2 DEF SyncInv, Typed
<1>7. QED BY <1>2, <1>4, <1>5, <1>6, LocalStep

LEMMA CheckContentKeeps ==
  ASSUME SyncInv, CheckContent
  PROVE  SyncInv' /\ Adds(store["dst"], store["dst"]')
<1>1. PICK p \in sync.to_put :
        LET absent == p[1] \notin Known("dst") \/ ~Has("dst", p[1])
        IN sync' = [sync EXCEPT !.to_put = @ \ {p},
                     !.art = IF absent /\ p[1] \in Known("dst") THEN {p[1]} ELSE {},
                     !.step = IF absent /\ p[1] \in Known("dst") THEN "read" ELSE @]
  BY DEF CheckContent
<1>2. /\ sync \in SyncLocals /\ sync.step = "check" /\ sync.art = {}
      /\ UNCHANGED <<store, writes, errors, clean, steady>>
  BY DEF CheckContent, SyncInv, Typed, ArtKnown
<1>3. p[1] \in Names
  BY <1>2, LocalFields
<1>4. CASE p[1] \in Known("dst") /\ ~Has("dst", p[1])
  <2>1. sync' = [sync EXCEPT !.to_put = @ \ {p}, !.art = {p[1]}, !.step = "read"]
    BY <1>1, <1>4
  <2>2. sync' \in SyncLocals /\ sync'.step = "read" /\ sync'.art = {p[1]}
    BY <1>2, <1>3, <2>1 DEF SyncLocals, SyncSteps
  <2>3. ArtKnown'
    BY <1>2, <1>4, <2>2 DEF ArtKnown, Known
  <2>4. errors' \in 0 .. MaxErrors /\ clean' \in BOOLEAN /\ steady' \in SteadyRows
    BY <1>2 DEF SyncInv, Typed
  <2>5. QED BY <1>2, <2>2, <2>3, <2>4, LocalStep
<1>5. CASE ~(p[1] \in Known("dst") /\ ~Has("dst", p[1]))
  <2>1. sync' = [sync EXCEPT !.to_put = @ \ {p}, !.art = {}, !.step = @]
    BY <1>1, <1>5
  <2>2. sync' \in SyncLocals /\ sync'.step = "check" /\ sync'.art = {}
    BY <1>2, <2>1 DEF SyncLocals, SyncSteps
  <2>3. ArtKnown'
    BY <2>2 DEF ArtKnown
  <2>4. errors' \in 0 .. MaxErrors /\ clean' \in BOOLEAN /\ steady' \in SteadyRows
    BY <1>2 DEF SyncInv, Typed
  <2>5. QED BY <1>2, <2>2, <2>3, <2>4, LocalStep
<1>6. QED BY <1>4, <1>5

LEMMA ReadContentKeeps ==
  ASSUME SyncInv, ReadContent
  PROVE  SyncInv' /\ Adds(store["dst"], store["dst"]')
<1>1. PICK there \in BOOLEAN : sync' = [sync EXCEPT !.step = IF there THEN "put" ELSE "check",
                                                    !.art = IF there THEN @ ELSE {}]
  BY DEF ReadContent
<1>2. /\ sync \in SyncLocals /\ (\E a \in Known("dst") : sync.art = {a})
      /\ UNCHANGED <<store, writes, errors, clean, steady>>
  BY DEF ReadContent, SyncInv, Typed, ArtKnown
<1>3. /\ sync' \in SyncLocals
      /\ (sync'.step = "put" /\ sync'.art = sync.art) \/ (sync'.step = "check" /\ sync'.art = {})
  BY <1>1, <1>2 DEF SyncLocals, SyncSteps
<1>4. ArtKnown'
  BY <1>2, <1>3 DEF ArtKnown, Known
<1>5. errors' \in 0 .. MaxErrors /\ clean' \in BOOLEAN /\ steady' \in SteadyRows
  BY <1>2 DEF SyncInv, Typed
<1>6. QED BY <1>2, <1>3, <1>4, <1>5, LocalStep

LEMMA ChosenOfOne ==
  ASSUME NEW a \in Nat
  PROVE  Chosen({a}) = a
<1>1. Min({a}) \in {a}
  BY MinProperty
<1>2. QED BY <1>1 DEF Chosen

LEMMA ReplayContentKeeps ==
  ASSUME SyncInv, ReplayContent
  PROVE  SyncInv' /\ Adds(store["dst"], store["dst"]')
<1>1. PICK a \in Known("dst") : sync.art = {a}
  BY DEF ReplayContent, SyncInv, ArtKnown
<1>2. Whole(store["dst"]) /\ a \in Nat
  BY <1>1, StoreFields, SyncAssumption DEF SyncInv, WholeStores, Sides, Whole, Known
<1>3. Chosen(sync.art) = a
  BY <1>1, <1>2, ChosenOfOne
<1> DEFINE st == PutContent(store["dst"], a)
<1>4. Whole(st) /\ Adds(store["dst"], st)
  BY <1>1, <1>2, PutContentIsWhole DEF Known
<1>5. Replays(st) /\ UNCHANGED <<writes, steady>>
  BY <1>3 DEF ReplayContent
<1> HIDE DEF st
<1>6. sync' \in SyncLocals /\ sync'.step = "check" /\ sync'.art = {}
  <2>1. sync \in SyncLocals /\ sync' = [sync EXCEPT !.step = "check", !.art = {}]
    BY DEF ReplayContent, SyncInv, Typed
  <2>2. QED BY <2>1 DEF SyncLocals, SyncSteps
<1>7. QED BY <1>4, <1>5, <1>6, ReplaysStep

LEMMA FinishKeeps ==
  ASSUME SyncInv, Finish
  PROVE  SyncInv' /\ Adds(store["dst"], store["dst"]')
<1>1. sync' = [Idle EXCEPT !.step = "done"] /\ UNCHANGED <<store, writes, errors, clean, steady>>
  BY DEF Finish
<1>2. sync' \in SyncLocals /\ sync'.art = {} /\ sync'.step = "done"
  BY <1>1, IdleTyped DEF SyncSteps
<1>3. ArtKnown'
  BY <1>2 DEF ArtKnown
<1>4. errors' \in 0 .. MaxErrors /\ clean' \in BOOLEAN /\ steady' \in SteadyRows
  BY <1>1 DEF SyncInv, Typed
<1>5. QED BY <1>1, <1>2, <1>3, <1>4, LocalStep

LEMMA ClientKeeps ==
  ASSUME SyncInv, Client
  PROVE  SyncInv' /\ Adds(store["dst"], store["dst"]')
BY BeginSyncKeeps, DrainNodesKeeps, DrainEdgesKeeps, DrainArtifactsKeeps, DrainFailsKeeps, HaveKeeps,
   ReplayWorkKeeps, WorksReplayedKeeps, ReplayEdgesKeeps, EdgesReplayedKeeps, CheckContentKeeps,
   ReadContentKeeps, ReplayContentKeeps, FinishKeeps DEF Client

LEMMA SyncStepKeeps == SyncInv /\ [SyncNext]_syncVars => SyncInv'
<1> SUFFICES ASSUME SyncInv, [SyncNext]_syncVars PROVE SyncInv'
  OBVIOUS
<1>1. CASE Users
  BY <1>1, UserWrites, WriteKeeps
<1>2. CASE Client
  BY <1>2, ClientKeeps
<1>3. CASE UNCHANGED syncVars
  BY <1>3 DEF syncVars, SyncInv, Typed, WholeStores, ArtKnown, Known
<1>4. QED BY <1>1, <1>2, <1>3 DEF SyncNext

LEMMA SyncInvHolds == SyncSpec => []SyncInv
BY SyncInitTyped, SyncStepKeeps, PTL DEF SyncSpec

(* Whatever users write and whichever requests fail, both stores keep the  *)
(* shape of the tables: rows of nodes they have, one record per node and   *)
(* source, one content per node.                                           *)
THEOREM SyncTypeCorrect == SyncSpec => []SyncTypeOK
<1>1. SyncInv => SyncTypeOK
  <2> SUFFICES ASSUME SyncInv PROVE SyncTypeOK
    OBVIOUS
  <2>1. \A s \in Sides : Rows(store[s])
    BY DEF SyncInv, WholeStores, Whole
  <2>2. sync.present \subseteq Names /\ \A n \in sync.nodes : n.id \in Guids
    BY LocalFields DEF SyncInv, Typed, Drained
  <2>3. QED BY <2>1, <2>2 DEF SyncInv, Typed, SyncTypeOK
<1>2. QED BY <1>1, SyncInvHolds, PTL

(* The sync only adds to the destination, whatever fails and whoever       *)
(* writes: works it knew to be one stay one, with their edges, records and *)
(* contents.                                                               *)
THEOREM SyncAdds == SyncSpec => SyncOnlyAdds
<1>1. SyncInv /\ [SyncNext]_syncVars => [Client => Adds(store["dst"], store["dst"]')]_syncVars
  BY ClientKeeps
<1>2. QED BY <1>1, SyncInvHolds, PTL DEF SyncSpec, SyncOnlyAdds
------------------------------------------------------------------------------
(* The drains skip no row: one that stood under its key all along has been *)
(* drained or comes after the cursor.                                      *)

DrainedIds == {n.id : n \in sync.nodes}

SteadyInv ==
  /\ sync.step = "nodes" =>
       /\ steady.nodes \subseteq store["src"].node
       /\ \A n \in steady.nodes : n \in DrainedIds \/ Before(sync.cursor, <<n, 0>>)
  /\ sync.step \notin {"idle", "done", "nodes"} => steady.nodes \subseteq DrainedIds
  /\ sync.step = "edges" =>
       /\ steady.edges \subseteq store["src"].edge
       /\ \A e \in steady.edges : e \in sync.edges \/ Before(sync.cursor, e)
  /\ sync.step \notin {"idle", "done", "nodes", "edges"} => steady.edges \subseteq sync.edges

(* Before the first row of all. *)
LEMMA AfterNone ==
  ASSUME NEW x, NEW y, x \in Nat, x # 0
  PROVE  Before(<<0, 0>>, <<x, y>>)
BY DEF Before

(* The steps once all has been drained. *)
Late == {"artifacts", "have", "works", "pairs", "check", "read", "put"}

Replay ==
  \/ DrainArtifacts \/ Have \/ ReplayWork \/ WorksReplayed \/ ReplayEdges \/ EdgesReplayed
  \/ CheckContent \/ ReadContent \/ ReplayContent

LEMMA ReplayIsLate ==
  ASSUME SyncInv, Replay
  PROVE  /\ sync.step \in Late /\ sync'.step \in Late /\ sync'.nodes = sync.nodes
         /\ sync'.edges = sync.edges /\ steady' = steady
<1>1. sync \in SyncLocals
  BY DEF SyncInv, Typed
<1>2. CASE DrainArtifacts
  BY <1>1, <1>2 DEF DrainArtifacts, SyncLocals, Late
<1>3. CASE Have
  BY <1>1, <1>3 DEF Have, SyncLocals, Late
<1>4. CASE ReplayWork
  BY <1>1, <1>4 DEF ReplayWork, SyncLocals, Late
<1>5. CASE WorksReplayed
  BY <1>1, <1>5 DEF WorksReplayed, SyncLocals, Late
<1>6. CASE ReplayEdges
  BY <1>1, <1>6 DEF ReplayEdges, SyncLocals, Late
<1>7. CASE EdgesReplayed
  BY <1>1, <1>7 DEF EdgesReplayed, SyncLocals, Late
<1>8. CASE CheckContent
  BY <1>1, <1>8 DEF CheckContent, SyncLocals, Late
<1>9. CASE ReadContent
  BY <1>1, <1>9 DEF ReadContent, SyncLocals, Late
<1>10. CASE ReplayContent
  BY <1>1, <1>10 DEF ReplayContent, SyncLocals, Late
<1>11. QED BY <1>2, <1>3, <1>4, <1>5, <1>6, <1>7, <1>8, <1>9, <1>10 DEF Replay

LEMMA SteadyStep == SyncInv /\ SteadyInv /\ [SyncNext]_syncVars => SteadyInv'
<1> SUFFICES ASSUME SyncInv, SteadyInv, [SyncNext]_syncVars PROVE SteadyInv'
  OBVIOUS
<1>0. sync \in SyncLocals /\ steady \in SteadyRows
  BY DEF SyncInv, Typed
<1>1. CASE Users
  <2>1. PICK s \in Sides : \E st : /\ Whole(st) /\ (s = "src" => st.used \subseteq Guids)
                                   /\ Known(s) \subseteq DOMAIN st.alias /\ Write(s, st)
    BY <1>1, UserWrites
  <2>2. PICK st : Whole(st) /\ Write(s, st)
    BY <2>1
  <2> DEFINE src == IF s = "src" THEN st ELSE store["src"]
  <2>3. store'["src"] = src
    BY <2>2 DEF Write, SyncInv, Typed, Sides
  <2>4. /\ steady'.nodes = steady.nodes \intersect src.node
        /\ steady'.edges = steady.edges \intersect src.edge
    BY <2>2 DEF Write
  <2>5. sync' = sync \/ sync'.step = "idle"
    BY <2>2, IdleTyped DEF Write, SyncSteps
  <2> HIDE DEF src
  <2>6. CASE sync' = sync
    BY <2>3, <2>4, <2>6 DEF SteadyInv, DrainedIds
  <2>7. CASE sync'.step = "idle"
    BY <2>7 DEF SteadyInv
  <2>8. QED BY <2>5, <2>6, <2>7
<1>2. CASE BeginSync
  <2>1. /\ sync'.step = "nodes" /\ sync'.cursor = <<0, 0>>
        /\ store' = store /\ steady'.nodes = store["src"].node
    BY <1>2, IdleTyped DEF BeginSync, SyncSteps
  <2>2. \A n \in store["src"].node : n \in Nat /\ n # 0
    BY SourceRows, SyncAssumption
  <2>3. \A n \in store["src"].node : Before(<<0, 0>>, <<n, 0>>)
    BY <2>2, AfterNone
  <2>4. QED BY <2>1, <2>3 DEF SteadyInv
<1>3. CASE DrainNodes
  <2> DEFINE rest == Rest({<<n, 0>> : n \in store["src"].node}, sync.cursor)
             next == NextCursor(rest, NodePage)
             shown == Page(rest, NodePage)
             row(r) == [id |-> r[1], aliases |-> AliasesOf("src", r[1]),
                        said |-> {q \in store["src"].said : q.node = r[1]}]
             nodes == sync.nodes \union {row(r) : r \in shown}
             step == IF next = <<0, 0>> THEN "edges" ELSE sync.step
             locals == [sync EXCEPT !.nodes = nodes, !.cursor = next, !.step = step]
  <2>1. sync' = locals /\ sync.step = "nodes" /\ store' = store
    BY <1>3 DEF DrainNodes
  <2>2. \A n \in store["src"].node : Before(sync.cursor, <<n, 0>>) =>
          \/ \E r \in shown : r[1] = n
          \/ next # <<0, 0>> /\ Before(next, <<n, 0>>)
    BY NodesPage
  <2>3. /\ \A n \in sync.nodes : n \in nodes
        /\ \A r \in shown : \E n \in nodes : n.id = r[1]
    <3>1. \A r \in shown : row(r) \in nodes /\ row(r).id = r[1]
      OBVIOUS
    <3> HIDE DEF shown, row
    <3>2. QED BY <3>1
  <2>4. steady' = IF next = <<0, 0>> THEN [steady EXCEPT !.edges = store["src"].edge] ELSE steady
    BY <1>3 DEF DrainNodes
  <2> HIDE DEF next, shown, nodes
  <2>5. sync'.step = step /\ sync'.cursor = next /\ sync'.nodes = nodes
    BY <1>0, <2>1 DEF SyncLocals
  <2> HIDE DEF locals
  <2>6. /\ steady.nodes \subseteq store["src"].node
        /\ \A n \in steady.nodes : n \in DrainedIds \/ Before(sync.cursor, <<n, 0>>)
    BY <2>1 DEF SteadyInv
  <2>7. steady'.nodes = steady.nodes
    BY <1>0, <2>4 DEF SteadyRows
  <2>8. ASSUME NEW n \in steady.nodes
        PROVE  n \in DrainedIds' \/ (next # <<0, 0>> /\ Before(next, <<n, 0>>))
    <3>1. CASE n \in DrainedIds
      BY <2>3, <2>5, <3>1 DEF DrainedIds
    <3>2. CASE \E r \in shown : r[1] = n
      BY <2>3, <2>5, <3>2 DEF DrainedIds
    <3>3. QED BY <2>2, <2>6, <3>1, <3>2
  <2>9. CASE next = <<0, 0>>
    <3>1. sync'.step = "edges" /\ steady'.edges = store["src"].edge /\ sync'.cursor = <<0, 0>>
      BY <1>0, <2>4, <2>5, <2>9 DEF SteadyRows
    <3>2. ASSUME NEW e \in store["src"].edge PROVE Before(<<0, 0>>, e)
      <4>1. e \in Nat \X Nat /\ e[1] # 0
        BY SourceRows
      <4>2. QED BY <4>1, AfterNone
    <3>3. QED BY <2>1, <2>7, <2>8, <2>9, <3>1, <3>2 DEF SteadyInv
  <2>10. CASE next # <<0, 0>>
    <3>1. sync'.step = "nodes"
      BY <2>1, <2>5, <2>10
    <3>2. QED BY <2>1, <2>5, <2>6, <2>7, <2>8, <3>1 DEF SteadyInv
  <2>11. QED BY <2>9, <2>10
<1>4. CASE DrainEdges
  <2> DEFINE rest == Rest(store["src"].edge, sync.cursor)
             next == NextCursor(rest, RowPage)
             shown == Page(rest, RowPage)
             edges == sync.edges \union shown
             step == IF next = <<0, 0>> THEN "artifacts" ELSE sync.step
             locals == [sync EXCEPT !.edges = edges, !.cursor = next, !.step = step]
  <2>1. sync' = locals /\ sync.step = "edges" /\ store' = store /\ steady' = steady
    BY <1>4 DEF DrainEdges
  <2>2. \A e \in store["src"].edge : Before(sync.cursor, e) =>
          e \in shown \/ (next # <<0, 0>> /\ Before(next, e))
    BY EdgesPage
  <2> HIDE DEF next, shown
  <2>3. sync'.step = step /\ sync'.cursor = next /\ sync'.edges = edges /\ sync'.nodes = sync.nodes
    BY <1>0, <2>1 DEF SyncLocals
  <2> HIDE DEF locals
  <2>4. /\ steady.edges \subseteq store["src"].edge /\ steady.nodes \subseteq DrainedIds
        /\ \A e \in steady.edges : e \in sync.edges \/ Before(sync.cursor, e)
    BY <2>1 DEF SteadyInv
  <2>5. \A e \in steady.edges : e \in edges \/ (next # <<0, 0>> /\ Before(next, e))
    BY <2>2, <2>4
  <2> HIDE DEF edges
  <2>6. CASE next = <<0, 0>>
    <3>1. sync'.step = "artifacts"
      BY <2>3, <2>6
    <3>2. QED BY <2>1, <2>3, <2>4, <2>5, <2>6, <3>1 DEF SteadyInv, DrainedIds
  <2>7. CASE next # <<0, 0>>
    <3>1. sync'.step = "edges"
      BY <2>1, <2>3, <2>7
    <3>2. QED BY <2>1, <2>3, <2>4, <2>5, <3>1 DEF SteadyInv, DrainedIds
  <2>8. QED BY <2>6, <2>7
<1>5. CASE DrainFails \/ Finish
  <2>1. sync'.step \in {"idle", "done"}
    BY <1>5, IdleTyped DEF DrainFails, Finish, SyncSteps
  <2>2. QED BY <2>1 DEF SteadyInv
<1>6. CASE Replay
  <2>1. /\ sync.step \in Late /\ sync'.step \in Late /\ sync'.nodes = sync.nodes
        /\ sync'.edges = sync.edges /\ steady' = steady
    BY <1>6, ReplayIsLate
  <2>2. QED BY <2>1 DEF SteadyInv, Late, DrainedIds
<1>7. CASE UNCHANGED syncVars
  BY <1>7 DEF syncVars, SteadyInv, DrainedIds
<1>8. QED BY <1>1, <1>2, <1>3, <1>4, <1>5, <1>6, <1>7 DEF SyncNext, Client, Replay

LEMMA SteadyHolds == SyncSpec => []SteadyInv
<1>1. SyncInit => SteadyInv
  <2>1. SyncInit => sync.step = "idle"
    BY IdleTyped DEF SyncInit, SyncSteps
  <2>2. QED BY <2>1 DEF SteadyInv
<1>2. QED BY <1>1, SteadyStep, SyncInvHolds, PTL DEF SyncSpec
------------------------------------------------------------------------------
(* An undisturbed sync: what of the source is not yet at the destination   *)
(* is still among what the client has to put.                              *)

AfterHave == {"works", "pairs", "check", "read", "put"}

(* What was drained is what the source still holds. *)
SameSource ==
  /\ steady.nodes = store["src"].node
  /\ sync.step # "nodes" => steady.edges = store["src"].edge
  /\ \A n \in sync.nodes : n.aliases = AliasesOf("src", n.id)
  /\ sync.step \in Late \ {"artifacts"} => sync.contents = {c.node : c \in store["src"].content}

WorksInv ==
  /\ sync.step \in AfterHave =>
       \A n \in sync.nodes : \/ n.aliases \subseteq Known("dst")
                             \/ \E r \in sync.records : r.aliases = n.aliases
  /\ sync.step \in AfterHave \ {"works"} => sync.records = {}

Linked(a, b) ==
  /\ a \in Known("dst") /\ b \in Known("dst")
  /\ <<store["dst"].alias[a], store["dst"].alias[b]>> \in store["dst"].edge

LinksInv ==
  sync.step \in AfterHave \ {"works"} =>
    \A e \in sync.edges : \A a \in AddressOf(sync.nodes, e[1]), b \in AddressOf(sync.nodes, e[2]) :
      Linked(a, b) \/ (sync.step = "pairs" /\ <<a, b>> \in sync.to_put)

Carried(a) ==
  \/ a \in Known("dst") /\ Has("dst", a)
  \/ ~ \E c \in store["src"].content : c.node = store["src"].alias[a] /\ c.bytes

CarriedInv ==
  sync.step \in {"check", "read", "put"} =>
    \A id \in sync.contents : \A a \in AddressOf(sync.nodes, id) :
      Carried(a) \/ <<a, a>> \in sync.to_put \/ a \in sync.art

CleanInv == clean /\ sync.step # "idle" => SameSource /\ WorksInv /\ LinksInv /\ CarriedInv

(* The client writes to no source. *)
LEMMA SourceStays ==
  ASSUME SyncInv, Client
  PROVE  store'["src"] = store["src"]
<1>1. store \in [Sides -> Stores] /\ "src" # "dst" /\ "src" \in Sides
  BY DEF SyncInv, Typed, Sides
<1>2. \A st : store' = [store EXCEPT !["dst"] = st] => store'["src"] = store["src"]
  BY <1>1
<1>3. CASE ReplayWork
  BY <1>2, <1>3 DEF ReplayWork, Replays
<1>4. CASE ReplayEdges
  BY <1>2, <1>4 DEF ReplayEdges
<1>5. CASE ReplayContent
  BY <1>2, <1>5 DEF ReplayContent, Replays
<1>6. CASE ~(ReplayWork \/ ReplayEdges \/ ReplayContent)
  <2>1. BeginSync \/ DrainFails \/ DrainArtifacts \/ Finish => store' = store
    BY DEF BeginSync, DrainFails, DrainArtifacts, Finish
  <2>2. DrainNodes => store' = store
    BY DEF DrainNodes
  <2>3. DrainEdges => store' = store
    BY DEF DrainEdges
  <2>4. Have => store' = store
    BY DEF Have
  <2>5. WorksReplayed => store' = store
    BY DEF WorksReplayed
  <2>6. EdgesReplayed \/ CheckContent \/ ReadContent => store' = store
    BY DEF EdgesReplayed, CheckContent, ReadContent
  <2>7. store' = store
    BY <1>6, <2>1, <2>2, <2>3, <2>4, <2>5, <2>6 DEF Client
  <2>8. QED BY <2>7
<1>7. QED BY <1>3, <1>4, <1>5, <1>6

(* What the destination had, it has after any step of the client. *)
LEMMA GainsKept ==
  ASSUME SyncInv, Client
  PROVE  /\ Known("dst") \subseteq Known("dst")'
         /\ \A a, b : Linked(a, b) => Linked(a, b)'
         /\ \A a : Carried(a) => Carried(a)'
<1> DEFINE old == store["dst"]
           new == store'["dst"]
           now(n) == {new.alias[a] : a \in {b \in DOMAIN old.alias : old.alias[b] = n}}
<1>1. Adds(old, new) /\ store'["src"] = store["src"]
  BY ClientKeeps, SourceStays
<1>2. Known("dst") = DOMAIN old.alias /\ Known("dst")' = DOMAIN new.alias
  BY DEF Known
<1> HIDE DEF old, new
<1>3. /\ DOMAIN old.alias \subseteq DOMAIN new.alias
      /\ \A e \in old.edge : \A x \in now(e[1]), y \in now(e[2]) : <<x, y>> \in new.edge
      /\ \A c \in old.content : \A x \in now(c.node) : \E d \in new.content : d.node = x
  BY <1>1 DEF Adds
<1>4. \A a \in DOMAIN old.alias : new.alias[a] \in now(old.alias[a])
  OBVIOUS
<1> HIDE DEF now
<1>5. ASSUME NEW a \in DOMAIN old.alias, NEW b \in DOMAIN old.alias, <<old.alias[a], old.alias[b]>> \in old.edge
      PROVE  <<new.alias[a], new.alias[b]>> \in new.edge
  <2> DEFINE e == <<old.alias[a], old.alias[b]>>
  <2>1. e \in old.edge /\ new.alias[a] \in now(e[1]) /\ new.alias[b] \in now(e[2])
    BY <1>4, <1>5
  <2>2. QED BY <1>3, <2>1
<1>6. ASSUME NEW a, NEW b, Linked(a, b) PROVE Linked(a, b)'
  <2>1. a \in DOMAIN old.alias /\ b \in DOMAIN old.alias /\ <<old.alias[a], old.alias[b]>> \in old.edge
    BY <1>6 DEF Linked, Known, old
  <2>2. /\ a \in DOMAIN new.alias /\ b \in DOMAIN new.alias
        /\ <<new.alias[a], new.alias[b]>> \in new.edge
    BY <1>3, <1>5, <2>1
  <2>3. QED BY <2>2 DEF Linked, Known, new
<1>7. ASSUME NEW a, Carried(a) PROVE Carried(a)'
  <2>1. CASE a \in Known("dst") /\ Has("dst", a)
    <3>1. a \in DOMAIN old.alias /\ \E c \in old.content : c.node = old.alias[a]
      BY <2>1 DEF Has, Known, old
    <3>2. a \in DOMAIN new.alias /\ \E d \in new.content : d.node = new.alias[a]
      BY <1>3, <1>4, <3>1
    <3>3. QED BY <3>2 DEF Carried, Has, Known, new
  <2>2. CASE ~ \E c \in store["src"].content : c.node = store["src"].alias[a] /\ c.bytes
    BY <1>1, <2>2 DEF Carried
  <2>3. QED BY <1>7, <2>1, <2>2 DEF Carried
<1>8. QED BY <1>2, <1>3, <1>6, <1>7

LEMMA SameSourceStep ==
  ASSUME SyncInv, Client, BeginSync \/ (sync.step # "idle" /\ SameSource), sync'.step # "idle"
  PROVE  SameSource'
<1>0. sync \in SyncLocals /\ steady \in SteadyRows
  BY DEF SyncInv, Typed
<1>1. store'["src"] = store["src"] /\ \A id : AliasesOf("src", id)' = AliasesOf("src", id)
  BY SourceStays DEF AliasesOf, Known
<1>2. CASE BeginSync
  <2>1. sync'.step = "nodes" /\ sync'.nodes = {} /\ steady'.nodes = store["src"].node
    BY <1>2, IdleTyped DEF BeginSync, SyncSteps
  <2>2. QED BY <1>1, <2>1 DEF SameSource, Late
<1>3. CASE DrainNodes /\ SameSource
  <2> DEFINE rest == Rest({<<n, 0>> : n \in store["src"].node}, sync.cursor)
             next == NextCursor(rest, NodePage)
             row(r) == [id |-> r[1], aliases |-> AliasesOf("src", r[1]),
                        said |-> {q \in store["src"].said : q.node = r[1]}]
             rows == {row(r) : r \in Page(rest, NodePage)}
             nodes == sync.nodes \union rows
             step == IF next = <<0, 0>> THEN "edges" ELSE sync.step
             locals == [sync EXCEPT !.nodes = nodes, !.cursor = next, !.step = step]
  <2>1. sync' = locals /\ sync.step = "nodes"
    BY <1>3 DEF DrainNodes
  <2>2. ASSUME NEW n \in rows PROVE n.aliases = AliasesOf("src", n.id)
    <3>1. PICK r \in Page(rest, NodePage) : n = row(r)
      OBVIOUS
    <3>2. n.id = r[1] /\ n.aliases = AliasesOf("src", r[1])
      BY <3>1
    <3>3. QED BY <3>2
  <2>3. steady' = IF next = <<0, 0>> THEN [steady EXCEPT !.edges = store["src"].edge] ELSE steady
    BY <1>3 DEF DrainNodes
  <2> HIDE DEF next, rows
  <2>4. \A n \in nodes : n.aliases = AliasesOf("src", n.id)
    BY <1>3, <2>2 DEF SameSource
  <2> HIDE DEF nodes
  <2>5. sync'.step = step /\ sync'.nodes = nodes
    BY <1>0, <2>1 DEF SyncLocals
  <2>6. step \notin Late /\ (step # "nodes" => next = <<0, 0>>)
    BY <2>1 DEF Late
  <2>7. steady'.nodes = steady.nodes /\ (next = <<0, 0>> => steady'.edges = store["src"].edge)
    BY <1>0, <2>3 DEF SteadyRows
  <2>8. QED BY <1>1, <1>3, <2>4, <2>5, <2>6, <2>7 DEF SameSource
<1>4. CASE DrainEdges /\ SameSource
  <2>1. /\ sync'.nodes = sync.nodes /\ sync.step = "edges" /\ sync'.step \in {"edges", "artifacts"}
        /\ steady' = steady
    BY <1>0, <1>4 DEF DrainEdges, SyncLocals
  <2>2. QED BY <1>1, <1>4, <2>1 DEF SameSource, Late
<1>5. CASE DrainArtifacts /\ SameSource
  <2>1. /\ sync'.nodes = sync.nodes /\ sync'.contents = {c.node : c \in store["src"].content}
        /\ sync'.step = "have" /\ sync.step = "artifacts" /\ steady' = steady
    BY <1>0, <1>5 DEF DrainArtifacts, SyncLocals
  <2>2. QED BY <1>1, <1>5, <2>1 DEF SameSource
<1>6. CASE Replay /\ ~DrainArtifacts /\ SameSource
  <2>1. /\ sync.step \in Late /\ sync'.step \in Late /\ sync'.nodes = sync.nodes /\ steady' = steady
    BY <1>6, ReplayIsLate
  <2>2. sync.step # "artifacts" /\ sync'.contents = sync.contents
    <3> DEFINE same == sync.step # "artifacts" /\ sync'.contents = sync.contents
    <3>1. Have => same
      BY <1>0 DEF Have, SyncLocals
    <3>2. ReplayWork => same
      BY <1>0 DEF ReplayWork, SyncLocals
    <3>3. WorksReplayed => same
      BY <1>0 DEF WorksReplayed, SyncLocals
    <3>4. ReplayEdges => same
      BY <1>0 DEF ReplayEdges, SyncLocals
    <3>5. EdgesReplayed => same
      BY <1>0 DEF EdgesReplayed, SyncLocals
    <3>6. CheckContent => same
      BY <1>0 DEF CheckContent, SyncLocals
    <3>7. ReadContent => same
      BY <1>0 DEF ReadContent, SyncLocals
    <3>8. ReplayContent => same
      BY <1>0 DEF ReplayContent, SyncLocals
    <3>9. QED BY <1>6, <3>1, <3>2, <3>3, <3>4, <3>5, <3>6, <3>7, <3>8 DEF Replay
  <2>3. QED BY <1>1, <1>6, <2>1, <2>2 DEF SameSource, Late
<1>7. CASE Finish /\ SameSource
  <2>1. sync'.step = "done" /\ sync'.nodes = {} /\ steady' = steady /\ sync.step # "nodes"
    BY <1>7, IdleTyped DEF Finish, SyncSteps
  <2>2. QED BY <1>1, <1>7, <2>1 DEF SameSource, Late
<1>8. CASE DrainFails
  <2>1. sync'.step = "idle"
    BY <1>8, IdleTyped DEF DrainFails, SyncSteps
  <2>2. QED BY <2>1
<1>9. QED BY <1>2, <1>3, <1>4, <1>5, <1>6, <1>7, <1>8 DEF Client, Replay

(* The steps of the replay after the last record. *)
AfterWorks ==
  WorksReplayed \/ ReplayEdges \/ EdgesReplayed \/ CheckContent \/ ReadContent \/ ReplayContent

LEMMA AfterWorksLocals ==
  ASSUME SyncInv, AfterWorks
  PROVE  /\ sync.step \in AfterHave /\ (sync.step = "works" => sync.records = {})
         /\ sync'.step \in AfterHave \ {"works"} /\ sync'.records = sync.records
         /\ sync'.contents = sync.contents /\ sync'.nodes = sync.nodes /\ sync'.edges = sync.edges
<1>0. sync \in SyncLocals
  BY DEF SyncInv, Typed
<1> DEFINE same == /\ sync.step \in AfterHave /\ (sync.step = "works" => sync.records = {})
                   /\ sync'.step \in AfterHave \ {"works"} /\ sync'.records = sync.records
                   /\ sync'.contents = sync.contents
<1>1. WorksReplayed => same
  BY <1>0 DEF WorksReplayed, SyncLocals, AfterHave
<1>2. ReplayEdges => same
  BY <1>0 DEF ReplayEdges, SyncLocals, AfterHave
<1>3. EdgesReplayed => same
  BY <1>0 DEF EdgesReplayed, SyncLocals, AfterHave
<1>4. CheckContent => same
  BY <1>0 DEF CheckContent, SyncLocals, AfterHave
<1>5. ReadContent => same
  BY <1>0 DEF ReadContent, SyncLocals, AfterHave
<1>6. ReplayContent => same
  BY <1>0 DEF ReplayContent, SyncLocals, AfterHave
<1>7. sync'.nodes = sync.nodes /\ sync'.edges = sync.edges
  BY ReplayIsLate DEF AfterWorks, Replay
<1>8. QED BY <1>1, <1>2, <1>3, <1>4, <1>5, <1>6, <1>7 DEF AfterWorks

(* A work all of whose records are replayed is known under every alias.    *)
LEMMA WorksStep ==
  ASSUME SyncInv, Client, clean', sync.step # "idle" => WorksInv, sync'.step # "idle"
  PROVE  WorksInv'
<1>0. sync \in SyncLocals
  BY DEF SyncInv, Typed
<1>1. CASE BeginSync \/ DrainNodes \/ DrainEdges \/ DrainArtifacts \/ DrainFails \/ Finish
  <2>1. BeginSync \/ DrainFails \/ Finish => sync'.step \notin AfterHave
    BY IdleTyped DEF BeginSync, DrainFails, Finish, AfterHave, SyncSteps
  <2>2. DrainNodes => sync'.step \in {"nodes", "edges"}
    BY <1>0 DEF DrainNodes, SyncLocals
  <2>3. DrainEdges => sync'.step \in {"edges", "artifacts"}
    BY <1>0 DEF DrainEdges, SyncLocals
  <2>4. DrainArtifacts => sync'.step = "have"
    BY <1>0 DEF DrainArtifacts, SyncLocals
  <2>5. sync'.step \notin AfterHave
    BY <1>1, <2>1, <2>2, <2>3, <2>4 DEF AfterHave
  <2>6. QED BY <2>5 DEF WorksInv
<1>2. CASE Have
  <2> DEFINE present == Known("dst") \intersect UNION {n.aliases : n \in sync.nodes}
             records == UNION {Records(n) : n \in ToPush(sync.nodes, present)}
  <2>1. /\ sync'.step = "works" /\ sync'.records = records /\ sync'.nodes = sync.nodes
        /\ store' = store
    BY <1>0, <1>2 DEF Have, SyncLocals
  <2>2. ASSUME NEW n \in sync.nodes, ~(n.aliases \subseteq Known("dst"))
        PROVE  \E r \in records : r.aliases = n.aliases
    <3>1. n \in ToPush(sync.nodes, present)
      BY <2>2 DEF ToPush
    <3>2. \E r \in Records(n) : r.aliases = n.aliases
      <4>1. CASE n.said = {}
        BY <4>1 DEF Records
      <4>2. CASE n.said # {}
        <5>1. PICK q \in n.said : TRUE
          BY <4>2
        <5>2. [node |-> n.id, aliases |-> n.aliases, source |-> q.source, at |-> q.at] \in Records(n)
          BY <4>2 DEF Records
        <5>3. QED BY <5>2
      <4>3. QED BY <4>1, <4>2
    <3> HIDE DEF present
    <3>3. QED BY <3>1, <3>2
  <2> HIDE DEF records
  <2>3. QED BY <2>1, <2>2 DEF WorksInv, Known
<1>3. CASE ReplayWork
  <2>1. PICK r \in sync.records, n \in Fresh("dst") :
          Replays(PutWork(store["dst"], r, n)) /\ sync' = [sync EXCEPT !.records = @ \ {r}]
    BY <1>3 DEF ReplayWork
  <2> DEFINE st == PutWork(store["dst"], r, n)
  <2>2. /\ sync.step = "works" /\ sync'.step = "works" /\ sync'.records = sync.records \ {r}
        /\ sync'.nodes = sync.nodes
    BY <1>0, <1>3, <2>1 DEF ReplayWork, SyncLocals
  <2>3. store' = [store EXCEPT !["dst"] = st]
    BY <2>1 DEF Replays
  <2>4. DOMAIN st.alias = Known("dst") \union r.aliases
    <3>1. Whole(store["dst"]) /\ Guids \subseteq Nat
      BY SyncAssumption DEF SyncInv, WholeStores, Sides
    <3>2. r \in Pushed /\ n \in Nat
      BY <3>1, FreshIds, LocalFields DEF SyncInv, Typed, Sides
    <3>3. IsRecord(r)
      BY <3>2 DEF Pushed, IsRecord
    <3>4. QED BY <3>1, <3>2, <3>3, PutWorkIsWhole DEF Known
  <2> HIDE DEF st
  <2>5. Known("dst")' = Known("dst") \union r.aliases
    BY <2>3, <2>4 DEF Known, SyncInv, Typed, Sides
  <2>6. \A m \in sync.nodes : m.aliases \subseteq Known("dst") \/ \E q \in sync.records : q.aliases = m.aliases
    BY <2>2 DEF WorksInv, AfterHave
  <2>7. \A m \in sync.nodes : \/ m.aliases \subseteq Known("dst")'
                              \/ \E q \in sync'.records : q.aliases = m.aliases
    BY <2>2, <2>5, <2>6
  <2>8. QED BY <2>2, <2>7 DEF WorksInv
<1>4. CASE AfterWorks
  <2>1. /\ sync.step \in AfterHave /\ (sync.step = "works" => sync.records = {})
        /\ sync'.step \in AfterHave \ {"works"} /\ sync'.records = sync.records
        /\ sync'.nodes = sync.nodes
    BY <1>4, AfterWorksLocals
  <2>2. sync.records = {} /\ WorksInv
    BY <2>1 DEF WorksInv, AfterHave
  <2>3. \A n \in sync.nodes : n.aliases \subseteq Known("dst")
    BY <2>1, <2>2 DEF WorksInv
  <2>4. Known("dst") \subseteq Known("dst")'
    BY GainsKept
  <2>5. \A n \in sync.nodes : n.aliases \subseteq Known("dst")'
    BY <2>3, <2>4
  <2>6. QED BY <2>1, <2>2, <2>5 DEF WorksInv
<1>5. QED BY <1>1, <1>2, <1>3, <1>4 DEF Client, AfterWorks

(* AddressOf is a function of the drained nodes, which the replay keeps.   *)
LEMMA AddressStays ==
  ASSUME sync'.nodes = sync.nodes
  PROVE  \A id : AddressOf(sync'.nodes, id) = AddressOf(sync.nodes, id)
OBVIOUS

(* An edge between addressed nodes is among those to put, or put.          *)
LEMMA LinksStep ==
  ASSUME SyncInv, Client, clean', sync.step # "idle" => LinksInv, sync'.step # "idle"
  PROVE  LinksInv'
<1>0. sync \in SyncLocals
  BY DEF SyncInv, Typed
<1>1. CASE ~AfterWorks
  <2>1. BeginSync \/ DrainFails \/ Finish => sync'.step \notin AfterHave
    BY IdleTyped DEF BeginSync, DrainFails, Finish, AfterHave, SyncSteps
  <2>2. DrainNodes => sync'.step \in {"nodes", "edges"}
    BY <1>0 DEF DrainNodes, SyncLocals
  <2>3. DrainEdges => sync'.step \in {"edges", "artifacts"}
    BY <1>0 DEF DrainEdges, SyncLocals
  <2>4. DrainArtifacts => sync'.step = "have"
    BY <1>0 DEF DrainArtifacts, SyncLocals
  <2>5. Have => sync'.step = "works"
    BY <1>0 DEF Have, SyncLocals
  <2>6. ReplayWork => sync'.step = "works"
    BY <1>0 DEF ReplayWork, SyncLocals
  <2>7. sync'.step \notin AfterHave \ {"works"}
    BY <1>1, <2>1, <2>2, <2>3, <2>4, <2>5, <2>6 DEF AfterHave, AfterWorks, Client
  <2>8. QED BY <2>7 DEF LinksInv
<1>2. CASE AfterWorks
  <2>1. /\ sync.step \in AfterHave /\ sync'.step \in AfterHave \ {"works"}
        /\ sync'.nodes = sync.nodes /\ sync'.edges = sync.edges
    BY <1>2, AfterWorksLocals
  <2>2. SUFFICES ASSUME NEW e \in sync.edges,
                        NEW a \in AddressOf(sync.nodes, e[1]), NEW b \in AddressOf(sync.nodes, e[2])
                 PROVE  Linked(a, b)' \/ (sync'.step = "pairs" /\ <<a, b>> \in sync'.to_put)
    BY <2>1, AddressStays DEF LinksInv
  <2>3. CASE Linked(a, b)
    BY <2>3, GainsKept
  <2>4. CASE WorksReplayed
    <3>1. a \in Names /\ b \in Names
      BY AddressIsAlias
    <3> DEFINE p == <<a, b>>
               pairs == {q \in {<<x, y>> : x \in Names, y \in Names} : \E l \in sync.edges :
                           q[1] \in AddressOf(sync.nodes, l[1]) /\ q[2] \in AddressOf(sync.nodes, l[2])}
    <3>2. p \in {<<x, y>> : x \in Names, y \in Names} /\ p[1] = a /\ p[2] = b
      BY <3>1
    <3> HIDE DEF p
    <3>3. p \in pairs
      BY <3>2
    <3>4. sync' = [sync EXCEPT !.step = "pairs", !.to_put = pairs]
      BY <2>4 DEF WorksReplayed
    <3> HIDE DEF pairs
    <3>5. sync'.step = "pairs" /\ sync'.to_put = pairs
      BY <1>0, <3>4 DEF SyncLocals
    <3>6. QED BY <3>3, <3>5 DEF p
  <2>5. CASE sync.step = "pairs" /\ <<a, b>> \in sync.to_put
    <3>1. ReplayEdges
      <4>1. WorksReplayed => sync.step = "works"
        BY DEF WorksReplayed
      <4>2. EdgesReplayed => sync.to_put = {}
        BY DEF EdgesReplayed
      <4>3. CheckContent => sync.step = "check"
        BY DEF CheckContent
      <4>4. ReadContent \/ ReplayContent => sync.step \in {"read", "put"}
        BY DEF ReadContent, ReplayContent
      <4>5. QED BY <1>2, <2>5, <4>1, <4>2, <4>3, <4>4 DEF AfterWorks
    <3> DEFINE batch == Page(sync.to_put, EdgeBatch)
               p == CHOOSE q \in batch : \A x \in batch : x = q \/ Before(q, x)
    <3>2. PICK f \in FreshPairs("dst") :
            /\ store' = [store EXCEPT !["dst"] = PutEdges(store["dst"], p, f)]
            /\ sync' = [sync EXCEPT !.to_put = @ \ {p}]
      BY <3>1 DEF ReplayEdges
    <3>3. p \in Names \X Names
      BY <3>1, NextOfBatch DEF ReplayEdges
    <3> HIDE DEF p
    <3>4. sync'.step = "pairs" /\ sync'.to_put = sync.to_put \ {p}
      BY <1>0, <2>5, <3>2 DEF SyncLocals
    <3>5. CASE <<a, b>> # p
      BY <2>5, <3>4, <3>5
    <3>6. CASE <<a, b>> = p
      <4> DEFINE st == PutEdges(store["dst"], p, f)
      <4>1. Whole(store["dst"]) /\ Guids \subseteq Nat
        BY SyncAssumption DEF SyncInv, WholeStores, Sides
      <4>2. f \in Nat \X Nat
        BY <4>1, FreshIds DEF Sides
      <4>3. /\ p[1] \in DOMAIN st.alias /\ p[2] \in DOMAIN st.alias
            /\ <<st.alias[p[1]], st.alias[p[2]]>> \in st.edge
        BY <3>3, <4>1, <4>2, PutEdgesIsWhole
      <4> HIDE DEF st
      <4>4. store'["dst"] = st
        BY <3>2 DEF st, SyncInv, Typed, Sides
      <4>5. p[1] = a /\ p[2] = b
        BY <3>6
      <4>6. Linked(a, b)'
        BY <4>3, <4>4, <4>5 DEF Linked, Known
      <4>7. QED BY <4>6
    <3>7. QED BY <3>5, <3>6
  <2>6. ~WorksReplayed => LinksInv /\ sync.step \in AfterHave \ {"works"}
    BY <1>2, <2>1 DEF AfterWorks, ReplayEdges, EdgesReplayed, CheckContent, ReadContent, ReplayContent,
                      AfterHave
  <2>7. QED BY <2>3, <2>4, <2>5, <2>6 DEF LinksInv
<1>3. QED BY <1>1, <1>2

(* A content of an addressed node is at the destination, or has no bytes,  *)
(* or is still to be looked at.                                            *)
LEMMA CarriedStep ==
  ASSUME SyncInv, Client, clean', sync.step # "idle" => WorksInv /\ CarriedInv, sync'.step # "idle"
  PROVE  CarriedInv'
<1>0. sync \in SyncLocals
  BY DEF SyncInv, Typed
<1> DEFINE late == EdgesReplayed \/ CheckContent \/ ReadContent \/ ReplayContent
<1>1. CASE ~late
  <2>1. BeginSync \/ DrainFails \/ Finish => sync'.step \notin AfterHave
    BY IdleTyped DEF BeginSync, DrainFails, Finish, AfterHave, SyncSteps
  <2>2. DrainNodes => sync'.step \in {"nodes", "edges"}
    BY <1>0 DEF DrainNodes, SyncLocals
  <2>3. DrainEdges => sync'.step \in {"edges", "artifacts"}
    BY <1>0 DEF DrainEdges, SyncLocals
  <2>4. DrainArtifacts => sync'.step = "have"
    BY <1>0 DEF DrainArtifacts, SyncLocals
  <2>5. Have => sync'.step = "works"
    BY <1>0 DEF Have, SyncLocals
  <2>6. ReplayWork => sync'.step = "works"
    BY <1>0 DEF ReplayWork, SyncLocals
  <2>7. WorksReplayed => sync'.step = "pairs"
    BY <1>0 DEF WorksReplayed, SyncLocals
  <2>8. ReplayEdges => sync'.step = "pairs"
    BY <1>0 DEF ReplayEdges, SyncLocals
  <2>9. sync'.step \notin {"check", "read", "put"}
    BY <1>1, <2>1, <2>2, <2>3, <2>4, <2>5, <2>6, <2>7, <2>8 DEF AfterHave, Client
  <2>10. QED BY <2>9 DEF CarriedInv
<1>2. CASE late
  <2>1. AfterWorks
    BY <1>2 DEF AfterWorks
  <2>2. sync'.contents = sync.contents /\ sync'.nodes = sync.nodes
    BY <2>1, AfterWorksLocals
  <2>3. SUFFICES ASSUME NEW id \in sync.contents, NEW a \in AddressOf(sync.nodes, id)
                 PROVE  Carried(a)' \/ <<a, a>> \in sync'.to_put \/ a \in sync'.art
    BY <2>2, AddressStays DEF CarriedInv
  <2>4. a \in Known("dst") \/ EdgesReplayed
    <3>1. PICK n \in sync.nodes : a \in n.aliases
      BY AddressIsAlias
    <3>2. ~EdgesReplayed => WorksInv /\ sync.step \in AfterHave \ {"works"}
      BY <1>2 DEF CheckContent, ReadContent, ReplayContent, AfterHave
    <3>3. ~EdgesReplayed => n.aliases \subseteq Known("dst")
      BY <3>2 DEF WorksInv
    <3>4. QED BY <3>1, <3>3
  <2>5. CASE Carried(a)
    BY <2>5, GainsKept
  <2>6. CASE EdgesReplayed
    <3> DEFINE pairs == {<<x, x>> : x \in UNION {AddressOf(sync.nodes, i) : i \in sync.contents}}
    <3>1. <<a, a>> \in pairs
      OBVIOUS
    <3>2. sync' = [sync EXCEPT !.step = "check", !.to_put = pairs]
      BY <2>6 DEF EdgesReplayed
    <3> HIDE DEF pairs
    <3>3. sync'.to_put = pairs
      BY <1>0, <3>2 DEF SyncLocals
    <3>4. QED BY <3>1, <3>3
  <2>7. CASE CheckContent /\ ~Carried(a)
    <3>1. sync.step = "check" /\ sync.art = {}
      BY <2>7 DEF CheckContent, SyncInv, ArtKnown
    <3>2. <<a, a>> \in sync.to_put
      BY <2>3, <2>7, <3>1 DEF CarriedInv
    <3>3. PICK p \in sync.to_put :
            LET absent == p[1] \notin Known("dst") \/ ~Has("dst", p[1])
            IN sync' = [sync EXCEPT !.to_put = @ \ {p},
                         !.art = IF absent /\ p[1] \in Known("dst") THEN {p[1]} ELSE {},
                         !.step = IF absent /\ p[1] \in Known("dst") THEN "read" ELSE @]
      BY <2>7 DEF CheckContent
    <3>4. sync'.to_put = sync.to_put \ {p}
      BY <1>0, <3>3 DEF SyncLocals
    <3>5. CASE p # <<a, a>>
      BY <3>2, <3>4, <3>5
    <3>6. CASE p = <<a, a>>
      <4>1. p[1] = a
        BY <3>6
      <4>2. a \in Known("dst") /\ ~Has("dst", a)
        <5>1. ~EdgesReplayed
          BY <3>1 DEF EdgesReplayed
        <5>2. QED BY <2>4, <2>7, <5>1 DEF Carried
      <4>3. sync' = [sync EXCEPT !.to_put = @ \ {p}, !.art = {a}, !.step = "read"]
        BY <3>3, <4>1, <4>2
      <4>4. sync'.art = {a}
        BY <1>0, <4>3 DEF SyncLocals
      <4>5. QED BY <4>4
    <3>7. QED BY <3>5, <3>6
  <2>8. CASE ReadContent /\ ~Carried(a)
    <3>1. sync.step = "read" /\ store' = store
      BY <2>8 DEF ReadContent
    <3>2. PICK b \in Known("dst") : sync.art = {b}
      BY <3>1 DEF SyncInv, ArtKnown
    <3>3. Chosen(sync.art) = b
      <4>1. Known("dst") \subseteq Names
        BY StoreFields DEF SyncInv, WholeStores, Whole, Sides, Known
      <4>2. b \in Nat
        BY <3>2, <4>1, SyncAssumption
      <4>3. QED BY <3>2, <4>2, ChosenOfOne
    <3> DEFINE there == \E c \in store["src"].content : c.node = store["src"].alias[b] /\ c.bytes
    <3>4. sync' = [sync EXCEPT !.step = IF there THEN "put" ELSE "check",
                               !.art = IF there THEN @ ELSE {}]
      BY <2>8, <3>3 DEF ReadContent
    <3>5. <<a, a>> \in sync.to_put \/ a \in sync.art
      BY <2>3, <2>8, <3>1 DEF CarriedInv
    <3>6. CASE <<a, a>> \in sync.to_put
      <4>1. sync'.to_put = sync.to_put
        BY <1>0, <3>4 DEF SyncLocals
      <4>2. QED BY <3>6, <4>1
    <3>7. CASE a \in sync.art
      <4>1. a = b
        BY <3>2, <3>7
      <4>2. there
        BY <2>8, <4>1 DEF Carried
      <4> HIDE DEF there
      <4>3. sync'.art = sync.art
        BY <1>0, <3>4, <4>2 DEF SyncLocals
      <4>4. QED BY <3>7, <4>3
    <3>8. QED BY <3>5, <3>6, <3>7
  <2>9. CASE ReplayContent /\ ~Carried(a)
    <3>1. sync.step = "put"
      BY <2>9 DEF ReplayContent
    <3>2. PICK b \in Known("dst") : sync.art = {b}
      BY <3>1 DEF SyncInv, ArtKnown
    <3>3. Whole(store["dst"]) /\ b \in Nat
      <4>1. Known("dst") \subseteq Names /\ Whole(store["dst"])
        BY StoreFields DEF SyncInv, WholeStores, Whole, Sides, Known
      <4>2. QED BY <3>2, <4>1, SyncAssumption
    <3>4. Chosen(sync.art) = b
      BY <3>2, <3>3, ChosenOfOne
    <3> DEFINE st == PutContent(store["dst"], b)
    <3>5. store' = [store EXCEPT !["dst"] = st] /\ sync' = [sync EXCEPT !.step = "check", !.art = {}]
      BY <2>9, <3>4 DEF ReplayContent, Replays
    <3>6. st.alias = store["dst"].alias /\ \E c \in st.content : c.node = store["dst"].alias[b]
      BY <3>2, <3>3, PutContentIsWhole DEF Known
    <3> HIDE DEF st
    <3>7. store'["dst"] = st
      BY <3>5 DEF SyncInv, Typed, Sides
    <3>8. <<a, a>> \in sync.to_put \/ a \in sync.art
      BY <2>3, <2>9, <3>1 DEF CarriedInv
    <3>9. CASE <<a, a>> \in sync.to_put
      <4>1. sync'.to_put = sync.to_put
        BY <1>0, <3>5 DEF SyncLocals
      <4>2. QED BY <3>9, <4>1
    <3>10. CASE a \in sync.art
      <4>1. a = b
        BY <3>2, <3>10
      <4>2. Carried(a)'
        BY <3>2, <3>6, <3>7, <4>1 DEF Carried, Has, Known
      <4>3. QED BY <4>2
    <3>11. QED BY <3>8, <3>9, <3>10
  <2>10. QED BY <1>2, <2>5, <2>6, <2>7, <2>8, <2>9
<1>3. QED BY <1>1, <1>2

LEMMA WorksReplayedIsClean == WorksReplayed => clean' = clean
BY DEF WorksReplayed

LEMMA CleanStep == SyncInv /\ CleanInv /\ [SyncNext]_syncVars => CleanInv'
<1> SUFFICES ASSUME SyncInv, CleanInv, [SyncNext]_syncVars PROVE CleanInv'
  OBVIOUS
<1>1. CASE Users
  <2>1. PICK s \in Sides : \E st : Write(s, st)
    BY <1>1, UserWrites
  <2>2. clean' => sync.step = "idle" /\ sync'.step = "idle"
    BY <2>1 DEF Write
  <2>3. QED BY <2>2 DEF CleanInv
<1>2. CASE Client
  <2> SUFFICES ASSUME clean', sync'.step # "idle" PROVE SameSource' /\ WorksInv' /\ LinksInv' /\ CarriedInv'
    BY DEF CleanInv
  <2>1. BeginSync \/ (clean /\ sync.step # "idle")
    <3>1. BeginSync \/ (clean' => clean)
      <4>1. DrainNodes \/ DrainEdges \/ DrainArtifacts => clean' = clean
        BY DEF DrainNodes, DrainEdges, DrainArtifacts
      <4>2. DrainFails \/ Have \/ WorksReplayed => clean' = clean
        <5>1. DrainFails => clean' = clean
          BY DEF DrainFails
        <5>2. Have => clean' = clean
          BY DEF Have
        <5>3. WorksReplayed => clean' = clean
          BY WorksReplayedIsClean
        <5>4. QED BY <5>1, <5>2, <5>3
      <4>3. EdgesReplayed \/ CheckContent \/ ReadContent \/ Finish => clean' = clean
        BY DEF EdgesReplayed, CheckContent, ReadContent, Finish
      <4>4. ReplayWork \/ ReplayContent => clean' = clean \/ clean' = FALSE
        BY DEF ReplayWork, ReplayContent, Replays
      <4>5. ReplayEdges => clean' = clean \/ clean' = FALSE
        BY DEF ReplayEdges
      <4>6. QED BY <1>2, <4>1, <4>2, <4>3, <4>4, <4>5, Zenon DEF Client
    <3>2. BeginSync \/ sync.step # "idle"
      <4>1. DrainNodes \/ DrainEdges \/ DrainArtifacts => sync.step # "idle"
        BY DEF DrainNodes, DrainEdges, DrainArtifacts
      <4>2. DrainFails \/ Have \/ WorksReplayed => sync.step # "idle"
        <5>1. DrainFails => sync.step # "idle"
          BY DEF DrainFails
        <5>2. Have => sync.step # "idle"
          BY DEF Have
        <5>3. WorksReplayed => sync.step # "idle"
          BY DEF WorksReplayed
        <5>4. QED BY <5>1, <5>2, <5>3
      <4>3. EdgesReplayed \/ CheckContent \/ ReadContent \/ Finish => sync.step # "idle"
        BY DEF EdgesReplayed, CheckContent, ReadContent, Finish
      <4>4. ReplayWork \/ ReplayContent \/ ReplayEdges => sync.step # "idle"
        BY DEF ReplayWork, ReplayContent, ReplayEdges
      <4>5. QED BY <1>2, <4>1, <4>2, <4>3, <4>4 DEF Client
    <3>3. QED BY <3>1, <3>2
  <2>2. CASE BeginSync
    <3>1. SameSource'
      BY <1>2, <2>2, SameSourceStep
    <3>2. sync'.step = "nodes"
      BY <2>2, IdleTyped DEF BeginSync, SyncSteps
    <3>3. QED BY <3>1, <3>2 DEF WorksInv, LinksInv, CarriedInv, AfterHave
  <2>3. CASE clean /\ sync.step # "idle"
    <3>1. SameSource /\ WorksInv /\ LinksInv /\ CarriedInv
      BY <2>3 DEF CleanInv
    <3>2. QED BY <1>2, <2>3, <3>1, SameSourceStep, WorksStep, LinksStep, CarriedStep
  <2>4. QED BY <2>1, <2>2, <2>3
<1>3. CASE UNCHANGED syncVars
  BY <1>3 DEF syncVars, CleanInv, SameSource, WorksInv, LinksInv, CarriedInv, Linked, Carried, Has,
              Known, AliasesOf, AddressOf
<1>4. QED BY <1>1, <1>2, <1>3 DEF SyncNext

LEMMA CleanHolds == SyncSpec => []CleanInv
<1>1. SyncInit => CleanInv
  BY DEF SyncInit, CleanInv
<1>2. QED BY <1>1, CleanStep, SyncInvHolds, PTL DEF SyncSpec

(* At the end of an undisturbed sync nothing is left to put: all that the  *)
(* source has and can address is at the destination.                       *)
AllThere ==
  /\ Known("src") \subseteq Known("dst")
  /\ \A n \in store["src"].node : AliasesOf("src", n) \subseteq Known("dst")
  /\ \A e \in store["src"].edge :
       AliasesOf("src", e[1]) # {} /\ AliasesOf("src", e[2]) # {} =>
         \E a \in AliasesOf("src", e[1]), b \in AliasesOf("src", e[2]) : Linked(a, b)
  /\ \A c \in store["src"].content :
       c.bytes /\ AliasesOf("src", c.node) # {} => \E a \in AliasesOf("src", c.node) : Has("dst", a)

NoneToPush ==
  /\ \A n \in store["src"].node : AliasesOf("src", n) # {} =>
       /\ AliasesOf("src", n) \subseteq Known("dst")
       /\ (\E c \in store["src"].content : c.node = n /\ c.bytes)
            => Has("dst", Chosen(AliasesOf("src", n)))
  /\ \A e \in store["src"].edge :
       AliasesOf("src", e[1]) # {} /\ AliasesOf("src", e[2]) # {} =>
         Linked(Chosen(AliasesOf("src", e[1])), Chosen(AliasesOf("src", e[2])))

SyncEnds == sync.step = "done" /\ clean => AllThere /\ NoneToPush

LEMMA AllCarried ==
  ASSUME SyncInv, SteadyInv, CleanInv, clean, Finish
  PROVE  /\ \A n \in store["src"].node : AliasesOf("src", n) \subseteq Known("dst")
         /\ \A n \in store["src"].node : AliasesOf("src", n) # {} =>
              Chosen(AliasesOf("src", n)) \in AliasesOf("src", n)
         /\ \A e \in store["src"].edge :
              AliasesOf("src", e[1]) # {} /\ AliasesOf("src", e[2]) # {} =>
                Linked(Chosen(AliasesOf("src", e[1])), Chosen(AliasesOf("src", e[2])))
         /\ \A c \in store["src"].content : c.bytes /\ AliasesOf("src", c.node) # {} =>
              Has("dst", Chosen(AliasesOf("src", c.node)))
<1>1. sync.step = "check" /\ sync.to_put = {} /\ sync.art = {}
  BY DEF Finish, SyncInv, ArtKnown
<1>2. SameSource /\ WorksInv /\ LinksInv /\ CarriedInv
  BY <1>1 DEF CleanInv
<1>3. /\ store["src"].node \subseteq DrainedIds /\ store["src"].edge \subseteq sync.edges
      /\ sync.contents = {c.node : c \in store["src"].content}
  BY <1>1, <1>2 DEF SteadyInv, SameSource, Late
<1>4. ASSUME NEW n \in store["src"].node
      PROVE  \E d \in sync.nodes : d.id = n /\ d.aliases = AliasesOf("src", n)
  <2>1. PICK d \in sync.nodes : d.id = n
    BY <1>3 DEF DrainedIds
  <2>2. QED BY <1>2, <2>1 DEF SameSource
<1>5. ASSUME NEW n \in store["src"].node PROVE AliasesOf("src", n) \subseteq Known("dst")
  <2>1. PICK d \in sync.nodes : d.id = n /\ d.aliases = AliasesOf("src", n)
    BY <1>4
  <2>2. sync.records = {} /\ (d.aliases \subseteq Known("dst") \/ \E r \in sync.records : r.aliases = d.aliases)
    BY <1>1, <1>2 DEF WorksInv, AfterHave
  <2>3. QED BY <2>1, <2>2
<1>6. ASSUME NEW n \in store["src"].node, AliasesOf("src", n) # {}
      PROVE  Chosen(AliasesOf("src", n)) \in AddressOf(sync.nodes, n)
  <2>1. PICK d \in sync.nodes : d.id = n /\ d.aliases = AliasesOf("src", n)
    BY <1>4
  <2>2. Chosen(d.aliases) \in AddressOf(sync.nodes, n)
    BY <1>6, <2>1 DEF AddressOf
  <2>3. QED BY <2>1, <2>2
<1>7. ASSUME NEW n \in store["src"].node, AliasesOf("src", n) # {}
      PROVE  Chosen(AliasesOf("src", n)) \in AliasesOf("src", n)
  <2>1. AliasesOf("src", n) \in SUBSET Nat
    BY StoreFields, SyncAssumption DEF SyncInv, WholeStores, Whole, Sides, AliasesOf, Known
  <2>2. QED BY <1>7, <2>1, MinProperty DEF Chosen
<1>8. /\ \A e \in store["src"].edge : e[1] \in store["src"].node /\ e[2] \in store["src"].node
      /\ \A c \in store["src"].content : c.node \in store["src"].node
  BY DEF SyncInv, WholeStores, Whole, Rows, Sides
<1>9. ASSUME NEW e \in store["src"].edge, AliasesOf("src", e[1]) # {}, AliasesOf("src", e[2]) # {}
      PROVE  Linked(Chosen(AliasesOf("src", e[1])), Chosen(AliasesOf("src", e[2])))
  <2>1. /\ Chosen(AliasesOf("src", e[1])) \in AddressOf(sync.nodes, e[1])
        /\ Chosen(AliasesOf("src", e[2])) \in AddressOf(sync.nodes, e[2])
    BY <1>6, <1>8, <1>9
  <2>2. QED BY <1>1, <1>2, <1>3, <2>1 DEF LinksInv, AfterHave
<1>10. ASSUME NEW c \in store["src"].content, c.bytes, AliasesOf("src", c.node) # {}
       PROVE  Has("dst", Chosen(AliasesOf("src", c.node)))
  <2> DEFINE a == Chosen(AliasesOf("src", c.node))
  <2>1. a \in AddressOf(sync.nodes, c.node) /\ a \in AliasesOf("src", c.node)
    BY <1>6, <1>7, <1>8, <1>10
  <2> HIDE DEF a
  <2>2. Carried(a)
    BY <1>1, <1>2, <1>3, <2>1 DEF CarriedInv
  <2>3. store["src"].alias[a] = c.node
    BY <2>1 DEF AliasesOf
  <2>4. Has("dst", a)
    BY <1>10, <2>2, <2>3 DEF Carried
  <2>5. QED BY <2>4 DEF a
<1>11. QED BY <1>5, <1>7, <1>9, <1>10

LEMMA FinishEnds ==
  ASSUME SyncInv, SteadyInv, CleanInv, clean, Finish
  PROVE  AllThere /\ NoneToPush
<1>1. /\ \A n \in store["src"].node : AliasesOf("src", n) \subseteq Known("dst")
      /\ \A n \in store["src"].node : AliasesOf("src", n) # {} =>
           Chosen(AliasesOf("src", n)) \in AliasesOf("src", n)
      /\ \A e \in store["src"].edge :
           AliasesOf("src", e[1]) # {} /\ AliasesOf("src", e[2]) # {} =>
             Linked(Chosen(AliasesOf("src", e[1])), Chosen(AliasesOf("src", e[2])))
      /\ \A c \in store["src"].content : c.bytes /\ AliasesOf("src", c.node) # {} =>
           Has("dst", Chosen(AliasesOf("src", c.node)))
  BY AllCarried
<1>2. /\ \A a \in Known("src") : store["src"].alias[a] \in store["src"].node
      /\ \A e \in store["src"].edge : e[1] \in store["src"].node /\ e[2] \in store["src"].node
      /\ \A c \in store["src"].content : c.node \in store["src"].node
  BY DEF SyncInv, WholeStores, Whole, Rows, Sides, Known
<1>3. Known("src") \subseteq Known("dst")
  <2>1. ASSUME NEW a \in Known("src") PROVE a \in Known("dst")
    <3>1. a \in AliasesOf("src", store["src"].alias[a])
      BY DEF AliasesOf
    <3>2. QED BY <1>1, <1>2, <3>1
  <2>2. QED BY <2>1
<1>4. AllThere
  BY <1>1, <1>2, <1>3 DEF AllThere
<1>5. NoneToPush
  BY <1>1 DEF NoneToPush
<1>6. QED BY <1>4, <1>5

LEMMA AllThereLacksNothing == AllThere => NothingLacks
<1> SUFFICES ASSUME AllThere PROVE NothingLacks
  OBVIOUS
<1> DEFINE home(a) == store["dst"].alias[a]
           reach(n) == {home(a) : a \in AliasesOf("src", n)}
<1>1. DiffSide("src", "dst").only_here = {}
  <2>1. \A n \in store["src"].node : AliasesOf("src", n) # {} => AliasesOf("src", n) \intersect Known("dst") # {}
    BY DEF AllThere
  <2>2. QED BY <2>1 DEF DiffSide
<1>2. ASSUME NEW e \in store["src"].edge, AliasesOf("src", e[1]) # {}, AliasesOf("src", e[2]) # {}
      PROVE  \E x \in reach(e[1]), y \in reach(e[2]) : <<x, y>> \in store["dst"].edge
  <2>1. PICK a \in AliasesOf("src", e[1]), b \in AliasesOf("src", e[2]) : Linked(a, b)
    BY <1>2 DEF AllThere
  <2>2. home(a) \in reach(e[1]) /\ home(b) \in reach(e[2])
    OBVIOUS
  <2>3. <<home(a), home(b)>> \in store["dst"].edge
    BY <2>1 DEF Linked
  <2> HIDE DEF home, reach
  <2>4. QED BY <2>2, <2>3
<1>3. ASSUME NEW c \in store["src"].content, c.bytes, AliasesOf("src", c.node) # {}
      PROVE  \E d \in store["dst"].content : d.node \in reach(c.node)
  <2>1. PICK a \in AliasesOf("src", c.node) : Has("dst", a)
    BY <1>3 DEF AllThere
  <2>2. home(a) \in reach(c.node) /\ \E d \in store["dst"].content : d.node = home(a)
    BY <2>1 DEF Has
  <2> HIDE DEF home, reach
  <2>3. QED BY <2>2
<1> HIDE DEF reach
<1>4. QED BY <1>1, <1>2, <1>3 DEF AllThere, NothingLacks, reach, home

(* What holds of two stores does not depend on the client. *)
LEMMA EndsStay ==
  ASSUME UNCHANGED store, AllThere, NoneToPush
  PROVE  AllThere' /\ NoneToPush'
<1>1. \A s, n : AliasesOf(s, n)' = AliasesOf(s, n) /\ Known(s)' = Known(s)
  BY DEF AliasesOf, Known
<1>2. \A a, b : (Linked(a, b)' <=> Linked(a, b)) /\ (Has("dst", a)' <=> Has("dst", a))
  BY DEF Linked, Has, Known
<1>3. AllThere'
  BY <1>1, <1>2 DEF AllThere
<1>4. NoneToPush'
  BY <1>1, <1>2 DEF NoneToPush
<1>5. QED BY <1>3, <1>4

LEMMA EndsStep == SyncInv /\ SteadyInv /\ CleanInv /\ SyncEnds /\ [SyncNext]_syncVars => SyncEnds'
<1> SUFFICES ASSUME SyncInv, SteadyInv, CleanInv, SyncEnds, [SyncNext]_syncVars PROVE SyncEnds'
  OBVIOUS
<1>1. CASE sync'.step # "done"
  BY <1>1 DEF SyncEnds
<1>2. CASE UNCHANGED syncVars
  BY <1>2, EndsStay DEF syncVars, SyncEnds
<1>3. CASE Finish
  <2>1. store' = store /\ clean' = clean
    BY <1>3 DEF Finish
  <2>2. CASE clean
    <3>1. AllThere /\ NoneToPush
      BY <1>3, <2>2, FinishEnds
    <3>2. AllThere' /\ NoneToPush'
      BY <2>1, <3>1, EndsStay
    <3>3. QED BY <3>2 DEF SyncEnds
  <2>3. QED BY <2>1, <2>2 DEF SyncEnds
<1>4. CASE Users
  <2>1. PICK s \in Sides : \E st : Write(s, st)
    BY <1>4, UserWrites
  <2>2. sync'.step # "done"
    BY <2>1, IdleTyped DEF Write, SyncSteps
  <2>3. QED BY <1>1, <2>2
<1>5. CASE Client /\ ~Finish
  <2>1. BeginSync \/ DrainFails => sync'.step # "done"
    BY IdleTyped DEF BeginSync, DrainFails, SyncSteps
  <2>2. CASE DrainNodes \/ DrainEdges
    <3>1. sync \in SyncLocals
      BY DEF SyncInv, Typed
    <3>2. DrainNodes => sync'.step \in {"nodes", "edges"}
      BY <3>1 DEF DrainNodes, SyncLocals
    <3>3. DrainEdges => sync'.step \in {"edges", "artifacts"}
      BY <3>1 DEF DrainEdges, SyncLocals
    <3>4. sync'.step # "done"
      BY <2>2, <3>2, <3>3
    <3>5. QED BY <1>1, <3>4
  <2>3. CASE Replay
    <3>1. sync'.step \in Late
      BY <2>3, ReplayIsLate
    <3>2. QED BY <1>1, <3>1 DEF Late
  <2>4. QED BY <1>1, <1>5, <2>1, <2>2, <2>3 DEF Client, Replay
<1>6. QED BY <1>2, <1>3, <1>4, <1>5 DEF SyncNext

(* An edge between two known aliases that are linked already is no news.   *)
LEMMA LinkedPutsNothing ==
  ASSUME NEW a, NEW b, NEW fresh, SyncInv, Linked(a, b)
  PROVE  PutEdges(store["dst"], <<a, b>>, fresh) = store["dst"]
<1> DEFINE st == store["dst"]
<1>1. a \in DOMAIN st.alias /\ b \in DOMAIN st.alias /\ <<st.alias[a], st.alias[b]>> \in st.edge
  BY DEF Linked, Known
<1>2. st \in Stores
  BY DEF SyncInv, WholeStores, Whole, Sides
<1> HIDE DEF st
<1>3. \A x, f : x \in DOMAIN st.alias => WithStub(st, x, f) = st
  BY DEF WithStub
<1>4. PutEdges(st, <<a, b>>, fresh) = [st EXCEPT !.edge = @ \union {<<st.alias[a], st.alias[b]>>}]
  BY <1>1, <1>3 DEF PutEdges
<1>5. st.edge \union {<<st.alias[a], st.alias[b]>>} = st.edge
  BY <1>1
<1>6. [st EXCEPT !.edge = st.edge] = st
  BY <1>2 DEF Stores
<1>7. QED BY <1>4, <1>5, <1>6 DEF st

LEMMA NothingChangesNext == SyncInv /\ SyncEnds => NextSyncChangesNothing
<1> SUFFICES ASSUME SyncInv, SyncEnds, sync.step = "done", clean PROVE NextSyncChangesNothing
  BY DEF NextSyncChangesNothing
<1>1. NoneToPush
  BY DEF SyncEnds
<1>2. ASSUME NEW e \in store["src"].edge, NEW fresh \in FreshPairs("dst"),
             AliasesOf("src", e[1]) # {}, AliasesOf("src", e[2]) # {}
      PROVE  PutEdges(store["dst"], <<Chosen(AliasesOf("src", e[1])), Chosen(AliasesOf("src", e[2]))>>,
                      fresh) = store["dst"]
  <2>1. Linked(Chosen(AliasesOf("src", e[1])), Chosen(AliasesOf("src", e[2])))
    BY <1>1, <1>2 DEF NoneToPush
  <2>2. QED BY <2>1, LinkedPutsNothing
<1>3. QED BY <1>1, <1>2 DEF NextSyncChangesNothing, NoneToPush

(* Paging drains every row that stood still while users wrote; and a sync  *)
(* that no error and no writer disturbed leaves every alias, every edge    *)
(* between addressed nodes and every content with bytes at the             *)
(* destination, so that a diff has nothing to show and the next sync,      *)
(* which pushes the edges once more, nothing to change.                    *)
THEOREM SyncCompletes == SyncSpec => []SyncComplete
<1>1. SyncInit => SyncEnds
  <2>1. SyncInit => ~clean
    BY DEF SyncInit
  <2>2. QED BY <2>1 DEF SyncEnds
<1>2. SyncSpec => []SyncEnds
  BY <1>1, EndsStep, SyncInvHolds, SteadyHolds, CleanHolds, PTL DEF SyncSpec
<1>3. SteadyInv => SteadyRowsDrained
  BY DEF SteadyInv, SteadyRowsDrained, DrainedIds
<1>4. SyncInv /\ SyncEnds => NothingLacks /\ NextSyncChangesNothing
  BY AllThereLacksNothing, NothingChangesNext DEF SyncEnds, NothingLacks
<1>5. SyncInv /\ SteadyInv /\ SyncEnds => SyncComplete
  BY <1>3, <1>4 DEF SyncComplete
<1>6. QED BY <1>2, <1>5, SyncInvHolds, SteadyHolds, PTL
------------------------------------------------------------------------------
(* The agents' files.                                                     *)

MaybeContent == Contents \union {NoFile}

Files == [Notes -> MaybeContent]

Reading(step) == [step : {step}, from : Peers, clean : BOOLEAN, left : SUBSET Notes, got : Files]

ReadingDest == [step : {"dest"}, from : Peers, clean : BOOLEAN, src : Files, left : SUBSET Notes,
                got : Files]

Putting == [step : {"put"}, from : Peers, clean : BOOLEAN, src : Files, dst : Files,
            todo : SUBSET Notes, after : Files]

Passes == {Waiting} \union Reading("source") \union ReadingDest \union Putting

AgentTyped ==
  /\ agent \in [Peers -> Files] /\ pair \in Files /\ pass \in Passes
  /\ had \in [Peers -> SUBSET (Notes \X Contents)]
  /\ shared \subseteq Notes /\ calm \subseteq Peers
  /\ changes \in 0 .. MaxChanges /\ mishaps \in 0 .. MaxMishaps

(* What was once read of a side, or stands there, it has had. *)
HasHad(s, f) == \A n \in Notes : f[n] # NoFile => <<n, f[n]>> \in had[s]

Verdict(n) == FilePlan(pass.src[n], pass.dst[n], pair[n])

AllKnown == \A s \in Peers : HasHad(s, agent[s])

(* What a pass has read was there; what it is to save is at the source,    *)
(* and at the destination or still to be put.                              *)
PassKnown ==
  /\ pass.step = "source" => HasHad(pass.from, pass.got)
  /\ pass.step = "dest" => HasHad(pass.from, pass.src) /\ HasHad(Peer(pass.from), pass.got)
  /\ pass.step = "put" =>
       /\ HasHad(pass.from, pass.src) /\ HasHad(Peer(pass.from), pass.dst)
       /\ \A n \in pass.todo : Verdict(n) \in {"add", "update"}
       /\ \A n \in Notes : pass.after[n] # NoFile =>
            /\ pass.after[n] = pass.src[n]
            /\ n \in pass.todo \/ <<n, pass.src[n]>> \in had[Peer(pass.from)]

(* A file of an undisturbed sync has a hash. *)
SharedSaved == \A n \in shared : pair[n] # NoFile

(* As long as nothing interferes, what a pass has read of a file and not   *)
(* yet written is what the file holds.                                     *)
Current(s, left, got) ==
  /\ \A n \in left : agent[s][n] # NoFile
  /\ \A n \in Notes \ left : got[n] = agent[s][n]

PassCurrent ==
  pass # Waiting =>
    /\ ~pass.clean => calm = {}
    /\ pass.clean =>
         /\ pass.step = "source" => Current(pass.from, pass.left, pass.got)
         /\ pass.step = "dest" => /\ pass.src = agent[pass.from]
                                  /\ Current(Peer(pass.from), pass.left, pass.got)
         /\ pass.step = "put" =>
              /\ pass.src = agent[pass.from]
              /\ \A n \in Notes :
                   LET there == agent[Peer(pass.from)][n] IN
                   /\ Verdict(n) \in {"add", "update"} =>
                        there = IF n \in pass.todo THEN pass.dst[n] ELSE pass.src[n]
                   /\ Verdict(n) \notin {"add", "update"} => there = pass.dst[n] /\ n \notin pass.todo
                   /\ pass.after[n] = IF Verdict(n) \in {"add", "update", "same"}
                                      THEN pass.src[n] ELSE NoFile

(* Nothing is left for a sync from s to do: what differs was removed there *)
(* or has changed since.                                                   *)
DoneFrom(s) == \A n \in Notes :
  LET mine == agent[s][n]
      theirs == agent[Peer(s)][n]
  IN mine # NoFile /\ mine # theirs =>
       /\ theirs = NoFile => pair[n] # NoFile
       /\ theirs # NoFile => pair[n] # theirs

CalmDone == \A s \in calm : DoneFrom(s)

AgentInv ==
  /\ AgentTyped /\ AllKnown /\ PassKnown /\ PairWasShared /\ SharedSaved
  /\ PassCurrent /\ CalmDone /\ WritesAreFair

LEMMA TwoPeers ==
  ASSUME NEW s \in Peers
  PROVE  /\ Peer(s) \in Peers /\ Peer(s) # s /\ Peer(Peer(s)) = s
         /\ \A t \in Peers : t = s \/ t = Peer(s)
<1>1. PICK p \in Peers, q \in Peers : p # q /\ Peers = {p, q}
  BY AgentAssumption
<1>2. \A t \in Peers : Peer(t) \in Peers /\ Peer(t) # t
  <2>1. TAKE t \in Peers
  <2>2. \E u \in Peers : u # t
    BY <1>1
  <2>3. QED BY <2>2 DEF Peer
<1>3. QED BY <1>1, <1>2

LEMMA StepsOfPass ==
  ASSUME pass \in Passes
  PROVE  /\ pass.step \in {"idle", "source", "dest", "put"}
         /\ pass.step = "idle" <=> pass = Waiting
         /\ pass.step = "source" <=> pass \in Reading("source")
         /\ pass.step = "dest" <=> pass \in ReadingDest
         /\ pass.step = "put" <=> pass \in Putting
         /\ pass # Waiting => pass.from \in Peers /\ pass.clean \in BOOLEAN
BY DEF Passes, Waiting, Reading, ReadingDest, Putting

LEMMA AgentStart == AgentInit => AgentInv
<1> SUFFICES ASSUME AgentInit PROVE AgentInv
  OBVIOUS
<1> DEFINE c == CHOOSE v \in Contents : TRUE
           one == CHOOSE n \in Notes : TRUE
<1>1. c \in Contents /\ c # NoFile /\ one \in Notes
  BY AgentAssumption
<1>2. PICK synced \in {{}, {one}} :
        /\ agent = [s \in Peers |-> [n \in Notes |-> IF n \in synced THEN c ELSE NoFile]]
        /\ pair = [n \in Notes |-> IF n \in synced THEN c ELSE NoFile]
        /\ had = [s \in Peers |-> {<<n, c>> : n \in synced}] /\ shared = synced
  BY DEF AgentInit
<1>3. /\ pass = Waiting /\ changes = 0 /\ mishaps = 0 /\ calm = {}
      /\ last = [over |-> NoFile, seen |-> NoFile, again |-> FALSE, moved_on |-> FALSE]
  BY DEF AgentInit
<1>4. synced \subseteq Notes
  BY <1>1, <1>2
<1>5. \A n \in Notes, s \in Peers :
        /\ agent[s][n] # NoFile => n \in synced /\ agent[s][n] = c
        /\ pair[n] # NoFile => n \in synced /\ pair[n] = c
        /\ n \in synced => <<n, c>> \in had[s] /\ pair[n] = c
  BY <1>1, <1>2
<1>6. AgentTyped
  <2>1. [n \in Notes |-> IF n \in synced THEN c ELSE NoFile] \in Files
    BY <1>1 DEF Files, MaybeContent
  <2>2. agent \in [Peers -> Files] /\ pair \in Files
    BY <1>2, <2>1
  <2>3. {<<n, c>> : n \in synced} \in SUBSET (Notes \X Contents)
    BY <1>1, <1>4
  <2>4. had \in [Peers -> SUBSET (Notes \X Contents)]
    BY <1>2, <2>3
  <2>5. changes \in 0 .. MaxChanges /\ mishaps \in 0 .. MaxMishaps
    BY <1>3, AgentAssumption
  <2>6. QED BY <1>2, <1>3, <1>4, <2>2, <2>4, <2>5 DEF AgentTyped, Passes
<1>7. AllKnown /\ PairWasShared /\ SharedSaved
  <2>1. AllKnown
    BY <1>5 DEF AllKnown, HasHad
  <2>2. PairWasShared
    BY <1>5 DEF PairWasShared
  <2>3. SharedSaved
    BY <1>1, <1>2, <1>4, <1>5 DEF SharedSaved
  <2>4. QED BY <2>1, <2>2, <2>3
<1>8. PassKnown /\ PassCurrent
  BY <1>3 DEF PassKnown, PassCurrent, Waiting
<1>9. CalmDone /\ WritesAreFair
  BY <1>3 DEF CalmDone, WritesAreFair
<1> QED BY <1>6, <1>7, <1>8, <1>9 DEF AgentInv

LEMMA AgentStutters ==
  ASSUME AgentInv, UNCHANGED agentVars
  PROVE  AgentInv'
<1>1. UNCHANGED <<agent, pair, pass, changes, mishaps, had, shared, calm, last>>
  BY DEF agentVars
<1>2. AgentTyped' /\ AllKnown' /\ PairWasShared' /\ SharedSaved' /\ CalmDone' /\ WritesAreFair'
  BY <1>1 DEF AgentInv, AgentTyped, AllKnown, HasHad, PairWasShared, SharedSaved, CalmDone,
              DoneFrom, WritesAreFair
<1>3. PassKnown'
  BY <1>1 DEF AgentInv, PassKnown, HasHad, Verdict
<1>4. PassCurrent'
  BY <1>1 DEF AgentInv, PassCurrent, Current, Verdict
<1> QED BY <1>2, <1>3, <1>4 DEF AgentInv

(* A step that only reads. *)
LEMMA ReadsOnly ==
  ASSUME AgentInv, UNCHANGED <<agent, pair, changes, mishaps, had, shared, calm, last>>,
         pass' \in Passes, PassKnown', PassCurrent'
  PROVE  AgentInv'
<1>1. AgentTyped'
  BY DEF AgentInv, AgentTyped
<1>2. AllKnown' /\ PairWasShared' /\ SharedSaved' /\ CalmDone' /\ WritesAreFair'
  BY DEF AgentInv, AllKnown, HasHad, PairWasShared, SharedSaved, CalmDone, DoneFrom, WritesAreFair
<1> QED BY <1>1, <1>2 DEF AgentInv

LEMMA NothingRead == Nothing \in Files /\ \A s \in Peers : HasHad(s, Nothing)
BY DEF Nothing, Files, MaybeContent, HasHad

LEMMA ListSourceKeeps ==
  ASSUME AgentInv, NEW s \in Peers, ListSource(s)
  PROVE  AgentInv'
<1>1. /\ pass' = [step |-> "source", from |-> s, clean |-> TRUE, left |-> Present(s), got |-> Nothing]
      /\ UNCHANGED <<agent, pair, changes, mishaps, had, shared, calm, last>>
  BY DEF ListSource
<1>2. pass' \in Reading("source")
  BY <1>1, NothingRead DEF Reading, Present
<1>3. PassKnown'
  BY <1>1, NothingRead DEF PassKnown, HasHad
<1>4. PassCurrent'
  <2>1. /\ \A n \in Present(s) : agent'[s][n] # NoFile
        /\ \A n \in Notes \ Present(s) : Nothing[n] = agent'[s][n]
    BY <1>1 DEF Present, Nothing
  <2>2. pass'.step = "source" /\ pass'.clean = TRUE /\ pass'.from = s
        /\ pass'.left = Present(s) /\ pass'.got = Nothing
    BY <1>1
  <2>3. QED BY <2>1, <2>2 DEF PassCurrent, Current
<1> QED BY <1>1, <1>2, <1>3, <1>4, ReadsOnly DEF Passes

LEMMA ListDestKeeps ==
  ASSUME AgentInv, ListDest
  PROVE  AgentInv'
<1> DEFINE t == Peer(pass.from)
<1>1. /\ pass.step = "source" /\ pass.left = {}
      /\ pass' = [step |-> "dest", from |-> pass.from, clean |-> pass.clean, src |-> pass.got,
                  left |-> Present(t), got |-> Nothing]
      /\ UNCHANGED <<agent, pair, changes, mishaps, had, shared, calm, last>>
  BY DEF ListDest
<1>2. pass \in Reading("source") /\ pass # Waiting
  BY <1>1, StepsOfPass DEF AgentInv, AgentTyped
<1>3. t \in Peers /\ pass.from \in Peers /\ pass.got \in Files
  BY <1>2, TwoPeers DEF Reading
<1>4. pass' \in ReadingDest
  BY <1>1, <1>2, <1>3, NothingRead DEF Reading, ReadingDest, Present
<1>5. PassKnown'
  <2>1. HasHad(pass.from, pass.got)
    BY <1>1 DEF AgentInv, PassKnown
  <2>2. QED BY <1>1, <1>3, <2>1, NothingRead DEF PassKnown, HasHad
<1>6. PassCurrent'
  <2>1. /\ \A n \in Present(t) : agent'[t][n] # NoFile
        /\ \A n \in Notes \ Present(t) : Nothing[n] = agent'[t][n]
    BY <1>1 DEF Present, Nothing
  <2>2. ASSUME pass.clean PROVE pass.got = agent[pass.from]
    <3>1. \A n \in Notes : pass.got[n] = agent[pass.from][n]
      BY <1>1, <1>2, <2>2 DEF AgentInv, PassCurrent, Current
    <3>2. agent[pass.from] \in Files
      BY <1>3 DEF AgentInv, AgentTyped
    <3>3. QED BY <1>3, <3>1, <3>2 DEF Files
  <2>3. ~pass.clean => calm = {}
    BY <1>2 DEF AgentInv, PassCurrent
  <2>4. /\ pass'.step = "dest" /\ pass'.clean = pass.clean /\ pass'.from = pass.from
        /\ pass'.src = pass.got /\ pass'.left = Present(t) /\ pass'.got = Nothing
        /\ Peer(pass'.from) = t
    BY <1>1
  <2>5. QED BY <1>1, <2>1, <2>2, <2>3, <2>4 DEF PassCurrent, Current
<1> QED BY <1>1, <1>4, <1>5, <1>6, ReadsOnly DEF Passes

LEMMA GetNoteKeeps ==
  ASSUME AgentInv, GetNote
  PROVE  AgentInv'
<1>1. PICK n \in Notes :
        /\ pass.step \in {"source", "dest"} /\ n \in pass.left
        /\ pass' = [pass EXCEPT !.left = @ \ {n}, !.got[n] = agent[ReadFrom(pass.step)][n]]
        /\ UNCHANGED <<agent, pair, changes, mishaps, had, shared, calm, last>>
  BY DEF GetNote
<1> DEFINE s == ReadFrom(pass.step)
           left == pass.left \ {n}
           got == [pass.got EXCEPT ![n] = agent[s][n]]
<1>2. /\ pass # Waiting /\ pass.from \in Peers
      /\ pass \in Reading("source") \/ pass \in ReadingDest
  BY <1>1, StepsOfPass DEF AgentInv, AgentTyped
<1>3. s \in Peers /\ agent[s] \in Files /\ pass.got \in Files /\ pass.left \subseteq Notes
  <2>1. s \in Peers
    BY <1>1, <1>2, TwoPeers DEF ReadFrom
  <2>2. QED BY <1>2, <2>1 DEF AgentInv, AgentTyped, Reading, ReadingDest
<1>4. got \in Files /\ \A m \in Notes : got[m] = IF m = n THEN agent[s][n] ELSE pass.got[m]
  BY <1>3 DEF Files
<1>5. /\ pass'.left = left /\ pass'.got = got /\ pass'.step = pass.step /\ pass'.from = pass.from
      /\ pass'.clean = pass.clean /\ pass.step = "dest" => pass'.src = pass.src
  BY <1>1, <1>2 DEF Reading, ReadingDest
<1>6. pass' \in Reading("source") \/ pass' \in ReadingDest
  BY <1>1, <1>2, <1>3, <1>4 DEF Reading, ReadingDest
<1>7. HasHad(s, pass.got) /\ (pass.step = "dest" => HasHad(pass.from, pass.src))
  BY <1>1 DEF AgentInv, PassKnown, ReadFrom
<1>8. \A m \in Notes : got[m] # NoFile => <<m, got[m]>> \in had'[s]
  <2>1. HasHad(s, agent[s])
    BY <1>3 DEF AgentInv, AllKnown
  <2>2. QED BY <1>1, <1>4, <1>7, <2>1 DEF HasHad
<1>9. PassKnown'
  BY <1>1, <1>5, <1>7, <1>8 DEF PassKnown, HasHad, ReadFrom
<1>10. PassCurrent'
  <2>1. ~pass.clean => calm = {}
    BY <1>2 DEF AgentInv, PassCurrent
  <2>2. ASSUME pass.clean
        PROVE  /\ \A m \in left : agent'[s][m] # NoFile
               /\ \A m \in Notes \ left : got[m] = agent'[s][m]
    <3>1. Current(s, pass.left, pass.got)
      BY <1>1, <1>2, <2>2 DEF AgentInv, PassCurrent, ReadFrom
    <3>2. QED BY <1>1, <1>4, <3>1 DEF Current
  <2>3. pass.clean /\ pass.step = "dest" => pass.src = agent[pass.from]
    BY <1>2 DEF AgentInv, PassCurrent
  <2>4. \/ pass.step = "source" /\ s = pass.from
        \/ pass.step = "dest" /\ s = Peer(pass.from)
    BY <1>1 DEF ReadFrom
  <2>5. QED BY <1>1, <1>5, <2>1, <2>2, <2>3, <2>4 DEF PassCurrent, Current
<1> QED BY <1>1, <1>6, <1>9, <1>10, ReadsOnly DEF Passes

LEMMA PlanKeeps ==
  ASSUME AgentInv, Plan
  PROVE  AgentInv'
<1> DEFINE src == pass.src
           dst == pass.got
           t == Peer(pass.from)
           V(n) == FilePlan(src[n], dst[n], pair[n])
           todo == {n \in Notes : V(n) \in {"add", "update"}}
           after == [n \in Notes |-> IF V(n) \in {"add", "update", "same"} THEN src[n] ELSE NoFile]
<1>1. /\ pass.step = "dest" /\ pass.left = {}
      /\ pass' = [step |-> "put", from |-> pass.from, clean |-> pass.clean, src |-> src, dst |-> dst,
                  todo |-> todo, after |-> after]
      /\ UNCHANGED <<agent, pair, changes, mishaps, had, shared, calm, last>>
  BY DEF Plan, Planned
<1>2. pass \in ReadingDest /\ pass # Waiting
  BY <1>1, StepsOfPass DEF AgentInv, AgentTyped
<1>3. pass.from \in Peers /\ t \in Peers /\ src \in Files /\ dst \in Files /\ after \in Files
  <2>1. pass.from \in Peers /\ src \in Files /\ dst \in Files
    BY <1>2 DEF ReadingDest
  <2>2. QED BY <2>1, TwoPeers DEF Files, MaybeContent
<1>4. pass' \in Putting
  BY <1>1, <1>2, <1>3 DEF ReadingDest, Putting
<1>5. /\ HasHad(pass.from, src) /\ HasHad(t, dst)
  BY <1>1 DEF AgentInv, PassKnown
<1>6. /\ \A n \in Notes : Verdict(n)' = V(n)
      /\ pass'.todo = todo /\ pass'.after = after /\ pass'.src = src /\ pass'.dst = dst
      /\ pass'.from = pass.from /\ pass'.clean = pass.clean /\ pass'.step = "put"
  BY <1>1 DEF Verdict
<1>7. PassKnown'
  <2>1. \A n \in todo : V(n) \in {"add", "update"}
    OBVIOUS
  <2>2. ASSUME NEW n \in Notes, after[n] # NoFile
        PROVE  after[n] = src[n] /\ (n \in todo \/ <<n, src[n]>> \in had[t])
    <3>1. after[n] = src[n] /\ V(n) \in {"add", "update", "same"}
      BY <2>2
    <3>2. CASE V(n) = "same"
      <4>1. dst[n] = src[n]
        BY <3>2 DEF FilePlan
      <4>2. QED BY <1>5, <2>2, <3>1, <4>1 DEF HasHad
    <3>3. QED BY <3>1, <3>2
  <2>3. QED BY <1>1, <1>3, <1>5, <1>6, <2>1, <2>2 DEF PassKnown, HasHad
<1>8. PassCurrent'
  <2>1. ~pass.clean => calm = {}
    BY <1>2 DEF AgentInv, PassCurrent
  <2>2. ASSUME pass.clean
        PROVE  src = agent[pass.from] /\ \A n \in Notes : dst[n] = agent[t][n]
    BY <1>1, <1>2, <2>2 DEF AgentInv, PassCurrent, Current
  <2>3. QED BY <1>1, <1>6, <2>1, <2>2 DEF PassCurrent
<1> QED BY <1>1, <1>4, <1>7, <1>8, ReadsOnly DEF Passes

LEMMA ChangeKeeps ==
  ASSUME AgentInv, NEW s \in Peers, NEW n \in Notes, NEW c \in MaybeContent, Change(s, n, c)
  PROVE  AgentInv'
<1>1. /\ changes < MaxChanges /\ changes' = changes + 1
      /\ agent' = [agent EXCEPT ![s][n] = c]
      /\ had' = IF c = NoFile THEN had ELSE [had EXCEPT ![s] = @ \union {<<n, c>>}]
      /\ pass' = IF pass = Waiting THEN pass ELSE [pass EXCEPT !.clean = FALSE]
      /\ calm' = {}
      /\ UNCHANGED <<pair, mishaps, shared, last>>
  BY DEF Change
<1>2. AgentTyped
  BY DEF AgentInv
<1>3. /\ agent' \in [Peers -> Files]
      /\ \A u \in Peers, m \in Notes :
           agent'[u][m] = IF u = s /\ m = n THEN c ELSE agent[u][m]
  BY <1>1, <1>2 DEF AgentTyped, Files
<1>4. /\ had' \in [Peers -> SUBSET (Notes \X Contents)]
      /\ \A u \in Peers : had[u] \subseteq had'[u]
      /\ c # NoFile => <<n, c>> \in had'[s]
  BY <1>1, <1>2 DEF AgentTyped, MaybeContent
<1>5. pass' \in Passes
  <2>1. CASE pass = Waiting
    BY <1>1, <2>1 DEF Passes
  <2>2. CASE pass # Waiting
    <3>1. pass' = [pass EXCEPT !.clean = FALSE]
      BY <1>1, <2>2
    <3>2. CASE pass \in Reading("source")
      BY <3>1, <3>2 DEF Passes, Reading
    <3>3. CASE pass \in ReadingDest
      BY <3>1, <3>3 DEF Passes, ReadingDest
    <3>4. CASE pass \in Putting
      BY <3>1, <3>4 DEF Passes, Putting
    <3>5. QED BY <1>2, <2>2, <3>2, <3>3, <3>4 DEF AgentTyped, Passes
  <2>3. QED BY <2>1, <2>2
<1>6. AgentTyped'
  <2>1. changes' \in 0 .. MaxChanges
    BY <1>1, <1>2, AgentAssumption DEF AgentTyped
  <2>2. QED BY <1>1, <1>2, <1>3, <1>4, <1>5, <2>1 DEF AgentTyped
<1>7. AllKnown'
  BY <1>3, <1>4 DEF AgentInv, AllKnown, HasHad
<1>8. /\ pass'.step = pass.step
      /\ pass.step \in {"source", "dest", "put"} => pass'.from = pass.from
      /\ pass.step \in {"source", "dest"} => pass'.got = pass.got
      /\ pass.step \in {"dest", "put"} => pass'.src = pass.src
      /\ pass.step = "put" => /\ pass'.dst = pass.dst /\ pass'.todo = pass.todo
                              /\ pass'.after = pass.after
  <2>1. CASE pass = Waiting
    BY <1>1, <2>1 DEF Waiting
  <2>2. CASE pass # Waiting
    <3>1. pass' = [pass EXCEPT !.clean = FALSE]
      BY <1>1, <2>2
    <3>2. CASE pass \in Reading("source")
      BY <3>1, <3>2 DEF Reading
    <3>3. CASE pass \in ReadingDest
      BY <3>1, <3>3 DEF ReadingDest
    <3>4. CASE pass \in Putting
      BY <3>1, <3>4 DEF Putting
    <3>5. QED BY <1>2, <2>2, <3>2, <3>3, <3>4 DEF AgentTyped, Passes
  <2>3. QED BY <2>1, <2>2
<1>9. PassKnown'
  <2>1. pass.step \in {"source", "dest", "put"} => pass.from \in Peers /\ Peer(pass.from) \in Peers
    BY <1>2, StepsOfPass, TwoPeers DEF AgentTyped
  <2>2. CASE pass.step = "source"
    BY <1>4, <1>8, <2>1, <2>2 DEF AgentInv, PassKnown, HasHad
  <2>3. CASE pass.step = "dest"
    BY <1>4, <1>8, <2>1, <2>3 DEF AgentInv, PassKnown, HasHad
  <2>4. CASE pass.step = "put"
    <3>1. \A m : Verdict(m)' = Verdict(m)
      BY <1>1, <1>8, <2>4 DEF Verdict
    <3>2. QED BY <1>4, <1>8, <2>1, <2>4, <3>1 DEF AgentInv, PassKnown, HasHad
  <2>5. QED BY <1>8, <2>2, <2>3, <2>4 DEF PassKnown
<1>10. PairWasShared' /\ SharedSaved'
  BY <1>1, <1>4 DEF AgentInv, PairWasShared, SharedSaved
<1>11. PassCurrent'
  <2>1. pass' # Waiting => pass'.clean = FALSE
    <3>1. CASE pass = Waiting
      BY <1>1, <3>1
    <3>2. CASE pass # Waiting
      BY <1>1, <1>2, <3>2 DEF AgentTyped, Passes, Reading, ReadingDest, Putting
    <3>3. QED BY <3>1, <3>2
  <2>2. QED BY <1>1, <2>1 DEF PassCurrent
<1>12. CalmDone' /\ WritesAreFair'
  BY <1>1 DEF AgentInv, CalmDone, WritesAreFair
<1> QED BY <1>6, <1>7, <1>9, <1>10, <1>11, <1>12 DEF AgentInv

(* plan_file_sync, outcome by outcome. *)
LEMMA Outcomes ==
  ASSUME NEW s, NEW d, NEW b
  PROVE  LET p == FilePlan(s, d, b) IN
         /\ p = "add" <=> s # NoFile /\ d = NoFile /\ b = NoFile
         /\ p = "update" <=> s # NoFile /\ d # NoFile /\ s # d /\ b = d
         /\ p = "same" <=> s # NoFile /\ s = d
         /\ s # NoFile /\ p \notin {"add", "update", "same"} =>
              /\ d = NoFile => b # NoFile
              /\ d # NoFile => d # s /\ b # d
<1>1. CASE s = NoFile
  BY <1>1 DEF FilePlan
<1>2. CASE s # NoFile /\ d = NoFile /\ b = NoFile
  BY <1>2 DEF FilePlan
<1>3. CASE s # NoFile /\ d = NoFile /\ b # NoFile
  BY <1>3 DEF FilePlan
<1>4. CASE s # NoFile /\ s = d
  BY <1>4 DEF FilePlan
<1>5. CASE s # NoFile /\ d # NoFile /\ s # d
  <2>1. FilePlan(s, d, b) = IF b = d THEN "update" ELSE IF b = s THEN "dest_wins" ELSE "conflict"
    BY <1>5 DEF FilePlan
  <2>2. QED BY <1>5, <2>1
<1>6. QED BY <1>1, <1>2, <1>3, <1>4, <1>5

(* What a PUT that is carried out does. *)
LEMMA StoredIsFair ==
  ASSUME AgentInv, NEW n \in Notes, pass.step = "put", n \in pass.todo, NoteStored(n)
  PROVE  /\ agent' \in [Peers -> Files]
         /\ had' \in [Peers -> SUBSET (Notes \X Contents)]
         /\ \A u \in Peers : had[u] \subseteq had'[u]
         /\ <<n, pass.src[n]>> \in had'[Peer(pass.from)]
         /\ \A u \in Peers, m \in Notes :
              agent'[u][m] = IF u = Peer(pass.from) /\ m = n THEN pass.src[n] ELSE agent[u][m]
         /\ AllKnown' /\ WritesAreFair'
<1> DEFINE t == Peer(pass.from)
<1>1. /\ agent' = [agent EXCEPT ![t][n] = pass.src[n]]
      /\ had' = [had EXCEPT ![t] = @ \union {<<n, pass.src[n]>>}]
      /\ last' = [over |-> agent[t][n], seen |-> pass.dst[n], again |-> n \in shared,
                  moved_on |-> <<n, agent[t][n]>> \in had[pass.from]]
  BY DEF NoteStored
<1>2. AgentTyped /\ pass \in Putting /\ pass.from \in Peers /\ t \in Peers
  <2>1. AgentTyped
    BY DEF AgentInv
  <2>2. pass \in Putting
    BY <2>1, StepsOfPass DEF AgentTyped
  <2>3. QED BY <2>1, <2>2, TwoPeers DEF Putting
<1>3. FilePlan(pass.src[n], pass.dst[n], pair[n]) \in {"add", "update"}
  BY DEF AgentInv, PassKnown, Verdict
<1>4. pass.src[n] \in Contents /\ pass.src[n] # NoFile
  <2>1. pass.src[n] # NoFile
    BY <1>3, Outcomes
  <2>2. QED BY <1>2, <2>1 DEF Putting, Files, MaybeContent
<1>5. /\ agent' \in [Peers -> Files]
      /\ \A u \in Peers, m \in Notes :
           agent'[u][m] = IF u = t /\ m = n THEN pass.src[n] ELSE agent[u][m]
  BY <1>1, <1>2, <1>4 DEF AgentTyped, Files, MaybeContent
<1>6. /\ had' \in [Peers -> SUBSET (Notes \X Contents)]
      /\ \A u \in Peers : had[u] \subseteq had'[u]
      /\ <<n, pass.src[n]>> \in had'[t]
  BY <1>1, <1>2, <1>4 DEF AgentTyped
<1>7. AllKnown'
  BY <1>5, <1>6 DEF AgentInv, AllKnown, HasHad
<1>8. WritesAreFair'
  <2>1. ASSUME agent[t][n] # NoFile, agent[t][n] = pass.dst[n]
        PROVE  <<n, agent[t][n]>> \in had[pass.from]
    <3>1. pair[n] = pass.dst[n]
      BY <1>3, <2>1, Outcomes
    <3>2. QED BY <1>2, <2>1, <3>1 DEF AgentInv, PairWasShared
  <2>2. ASSUME pass.dst[n] = NoFile PROVE n \notin shared
    <3>1. pair[n] = NoFile
      BY <1>3, <2>2, Outcomes
    <3>2. QED BY <3>1 DEF AgentInv, SharedSaved
  <2>3. QED BY <1>1, <2>1, <2>2 DEF WritesAreFair
<1> QED BY <1>5, <1>6, <1>7, <1>8

LEMMA PutPlannedKeeps ==
  ASSUME AgentInv, PutPlanned
  PROVE  AgentInv'
<1>1. PICK n \in Notes :
        /\ pass.step = "put" /\ n \in pass.todo
        /\ NoteStored(n)
        /\ pass' = [pass EXCEPT !.todo = @ \ {n}]
        /\ UNCHANGED <<pair, changes, mishaps, shared, calm>>
  BY DEF PutPlanned
<1> DEFINE t == Peer(pass.from)
<1>2. AgentTyped /\ pass \in Putting /\ pass.from \in Peers /\ t \in Peers /\ t # pass.from
  <2>1. AgentTyped
    BY DEF AgentInv
  <2>2. pass \in Putting
    BY <1>1, <2>1, StepsOfPass DEF AgentTyped
  <2>3. QED BY <2>1, <2>2, TwoPeers DEF Putting
<1>3. /\ agent' \in [Peers -> Files]
      /\ had' \in [Peers -> SUBSET (Notes \X Contents)]
      /\ \A u \in Peers : had[u] \subseteq had'[u]
      /\ <<n, pass.src[n]>> \in had'[t]
      /\ \A u \in Peers, m \in Notes :
           agent'[u][m] = IF u = t /\ m = n THEN pass.src[n] ELSE agent[u][m]
      /\ AllKnown' /\ WritesAreFair'
  BY <1>1, StoredIsFair
<1>4. /\ pass' \in Putting /\ pass'.todo = pass.todo \ {n} /\ pass'.step = "put"
      /\ pass'.from = pass.from /\ pass'.clean = pass.clean /\ pass'.src = pass.src
      /\ pass'.dst = pass.dst /\ pass'.after = pass.after
  BY <1>1, <1>2 DEF Putting
<1>5. \A m : Verdict(m)' = Verdict(m)
  BY <1>1, <1>4 DEF Verdict
<1>6. AgentTyped'
  BY <1>1, <1>2, <1>3, <1>4 DEF AgentTyped, Passes
<1>7. PassKnown'
  <2>1. PassKnown
    BY DEF AgentInv
  <2>2. HasHad(pass.from, pass.src)' /\ HasHad(t, pass.dst)'
    BY <1>1, <1>2, <1>3, <1>4, <2>1 DEF PassKnown, HasHad
  <2>3. \A m \in pass'.todo : Verdict(m)' \in {"add", "update"}
    BY <1>1, <1>4, <1>5, <2>1 DEF PassKnown
  <2>4. \A m \in Notes : pass'.after[m] # NoFile =>
          /\ pass'.after[m] = pass'.src[m]
          /\ m \in pass'.todo \/ <<m, pass'.src[m]>> \in had'[t]
    BY <1>1, <1>2, <1>3, <1>4, <2>1 DEF PassKnown
  <2>5. QED BY <1>4, <2>2, <2>3, <2>4 DEF PassKnown
<1>8. PairWasShared' /\ SharedSaved'
  BY <1>1, <1>3 DEF AgentInv, PairWasShared, SharedSaved
<1>9. Verdict(n) \in {"add", "update"}
  BY <1>1 DEF AgentInv, PassKnown
<1>10. PassCurrent /\ pass # Waiting /\ pass' # Waiting
  BY <1>1, <1>4 DEF AgentInv, Waiting
<1>11. PassCurrent'
  <2>1. ~pass.clean => calm = {}
    BY <1>10 DEF PassCurrent
  <2>2. ASSUME pass.clean PROVE pass.src = agent'[pass.from]
    <3>1. pass.src = agent[pass.from]
      BY <1>1, <1>10, <2>2 DEF PassCurrent
    <3>2. \A m \in Notes : agent'[pass.from][m] = agent[pass.from][m]
      BY <1>2, <1>3
    <3>3. agent'[pass.from] \in Files /\ agent[pass.from] \in Files
      BY <1>2, <1>3 DEF AgentTyped
    <3>4. QED BY <3>1, <3>2, <3>3 DEF Files
  <2>3. ASSUME pass.clean, NEW m \in Notes
        PROVE  /\ Verdict(m) \in {"add", "update"} =>
                    agent'[t][m] = IF m \in pass'.todo THEN pass.dst[m] ELSE pass.src[m]
               /\ Verdict(m) \notin {"add", "update"} =>
                    agent'[t][m] = pass.dst[m] /\ m \notin pass'.todo
               /\ pass.after[m] = IF Verdict(m) \in {"add", "update", "same"}
                                  THEN pass.src[m] ELSE NoFile
    <3>1. /\ Verdict(m) \in {"add", "update"} =>
               agent[t][m] = IF m \in pass.todo THEN pass.dst[m] ELSE pass.src[m]
          /\ Verdict(m) \notin {"add", "update"} => agent[t][m] = pass.dst[m] /\ m \notin pass.todo
          /\ pass.after[m] = IF Verdict(m) \in {"add", "update", "same"} THEN pass.src[m] ELSE NoFile
      BY <1>1, <1>10, <2>3 DEF PassCurrent
    <3>2. CASE m = n
      BY <1>2, <1>3, <1>4, <1>9, <3>1, <3>2
    <3>3. CASE m # n
      BY <1>2, <1>3, <1>4, <3>1, <3>3
    <3>4. QED BY <3>2, <3>3
  <2>4. QED BY <1>1, <1>4, <1>5, <2>1, <2>2, <2>3 DEF PassCurrent
<1>12. CalmDone'
  <2>1. SUFFICES ASSUME NEW s \in calm, NEW m \in Notes
                 PROVE  LET mine == agent'[s][m]
                            theirs == agent'[Peer(s)][m]
                        IN mine # NoFile /\ mine # theirs =>
                             /\ theirs = NoFile => pair[m] # NoFile
                             /\ theirs # NoFile => pair[m] # theirs
    BY <1>1 DEF CalmDone, DoneFrom
  <2>2. s \in Peers /\ Peer(s) \in Peers /\ DoneFrom(s)
    BY <1>2, TwoPeers DEF AgentInv, AgentTyped, CalmDone
  <2>3. CASE m # n
    BY <1>3, <2>2, <2>3 DEF DoneFrom
  <2>4. CASE m = n
    <3>1. pass.clean /\ pass.src = agent[pass.from]
      BY <1>1, <1>10 DEF PassCurrent
    <3>2. agent'[t][n] = pass.src[n] /\ agent'[pass.from][n] = pass.src[n]
      BY <1>2, <1>3, <3>1
    <3>3. {s, Peer(s)} = {t, pass.from}
      BY <1>2, <2>2, TwoPeers
    <3>4. agent'[s][n] = agent'[Peer(s)][n]
      BY <3>2, <3>3
    <3>5. QED BY <2>4, <3>4
  <2>5. QED BY <2>3, <2>4
<1> QED BY <1>3, <1>6, <1>7, <1>8, <1>11, <1>12 DEF AgentInv

LEMMA PutPlannedFailsKeeps ==
  ASSUME AgentInv, PutPlannedFails
  PROVE  AgentInv'
<1>1. PICK n \in Notes :
        /\ pass.step = "put" /\ n \in pass.todo
        /\ Mishap
        /\ NoteStored(n) \/ UNCHANGED <<agent, had, last>>
        /\ pass' = [pass EXCEPT !.todo = @ \ {n}, !.after[n] = NoFile, !.clean = FALSE]
        /\ UNCHANGED <<pair, changes, shared>>
  BY DEF PutPlannedFails
<1> DEFINE t == Peer(pass.from)
<1>2. AgentTyped /\ pass \in Putting /\ pass.from \in Peers /\ t \in Peers
  <2>1. AgentTyped
    BY DEF AgentInv
  <2>2. pass \in Putting
    BY <1>1, <2>1, StepsOfPass DEF AgentTyped
  <2>3. QED BY <2>1, <2>2, TwoPeers DEF Putting
<1>3. /\ agent' \in [Peers -> Files]
      /\ had' \in [Peers -> SUBSET (Notes \X Contents)]
      /\ \A u \in Peers : had[u] \subseteq had'[u]
      /\ AllKnown' /\ WritesAreFair'
  <2>1. CASE NoteStored(n)
    BY <1>1, <2>1, StoredIsFair
  <2>2. CASE UNCHANGED <<agent, had, last>>
    BY <1>2, <2>2 DEF AgentInv, AgentTyped, AllKnown, HasHad, WritesAreFair
  <2>3. QED BY <1>1, <2>1, <2>2
<1>4. /\ pass' \in Putting /\ pass'.todo = pass.todo \ {n} /\ pass'.step = "put"
      /\ pass'.from = pass.from /\ pass'.clean = FALSE /\ pass'.src = pass.src
      /\ pass'.dst = pass.dst
      /\ \A m \in Notes : pass'.after[m] = IF m = n THEN NoFile ELSE pass.after[m]
  BY <1>1, <1>2 DEF Putting, Files, MaybeContent
<1>5. \A m : Verdict(m)' = Verdict(m)
  BY <1>1, <1>4 DEF Verdict
<1>6. AgentTyped'
  <2>1. mishaps' \in 0 .. MaxMishaps /\ calm' = {}
    BY <1>1, <1>2, AgentAssumption DEF AgentTyped, Mishap
  <2>2. QED BY <1>1, <1>2, <1>3, <1>4, <2>1 DEF AgentTyped, Passes
<1>7. PassKnown'
  <2>1. PassKnown
    BY DEF AgentInv
  <2>2. HasHad(pass.from, pass.src)' /\ HasHad(t, pass.dst)'
    BY <1>1, <1>2, <1>3, <1>4, <2>1 DEF PassKnown, HasHad
  <2>3. \A m \in pass'.todo : Verdict(m)' \in {"add", "update"}
    BY <1>1, <1>4, <1>5, <2>1 DEF PassKnown
  <2>4. \A m \in Notes : pass'.after[m] # NoFile =>
          /\ pass'.after[m] = pass'.src[m]
          /\ m \in pass'.todo \/ <<m, pass'.src[m]>> \in had'[t]
    BY <1>1, <1>2, <1>3, <1>4, <2>1 DEF PassKnown
  <2>5. QED BY <1>4, <2>2, <2>3, <2>4 DEF PassKnown
<1>8. PairWasShared' /\ SharedSaved'
  BY <1>1, <1>3 DEF AgentInv, PairWasShared, SharedSaved
<1>9. PassCurrent' /\ CalmDone'
  BY <1>1, <1>4 DEF PassCurrent, CalmDone, Mishap
<1> QED BY <1>3, <1>6, <1>7, <1>8, <1>9 DEF AgentInv

LEMMA SavePairKeeps ==
  ASSUME AgentInv, SavePair
  PROVE  AgentInv'
<1> DEFINE t == Peer(pass.from)
           new == {n \in Notes : pass.after[n] # NoFile}
<1>1. /\ pass.step = "put" /\ pass.todo = {}
      /\ pair' = [n \in Notes |-> IF pass.after[n] # NoFile THEN pass.after[n] ELSE pair[n]]
      /\ shared' = IF pass.clean THEN shared \union new ELSE shared
      /\ calm' = IF pass.clean THEN calm \union {pass.from} ELSE calm
      /\ pass' = Waiting
      /\ UNCHANGED <<agent, changes, mishaps, had, last>>
  BY DEF SavePair
<1>2. /\ AgentTyped /\ PassKnown /\ PassCurrent
      /\ pass \in Putting /\ pass # Waiting /\ pass.from \in Peers /\ t \in Peers
  <2>1. AgentTyped /\ PassKnown /\ PassCurrent
    BY DEF AgentInv
  <2>2. pass \in Putting
    BY <1>1, <2>1, StepsOfPass DEF AgentTyped
  <2>3. QED BY <1>1, <2>1, <2>2, TwoPeers DEF Putting, Waiting
<1>3. AgentTyped'
  <2>1. pair' \in Files
    BY <1>1, <1>2 DEF AgentTyped, Putting, Files
  <2>2. QED BY <1>1, <1>2, <2>1 DEF AgentTyped, Passes
<1>4. AllKnown' /\ WritesAreFair'
  BY <1>1 DEF AgentInv, AllKnown, HasHad, WritesAreFair
<1>5. PassKnown' /\ PassCurrent'
  BY <1>1 DEF PassKnown, PassCurrent, Waiting
<1>6. PairWasShared'
  <2>1. ASSUME NEW n \in Notes, pass.after[n] # NoFile, NEW s \in Peers
        PROVE  <<n, pass.after[n]>> \in had[s]
    <3>1. pass.after[n] = pass.src[n] /\ <<n, pass.src[n]>> \in had[t]
      BY <1>1, <1>2, <2>1 DEF PassKnown
    <3>2. <<n, pass.src[n]>> \in had[pass.from]
      BY <1>1, <1>2, <2>1, <3>1 DEF PassKnown, HasHad
    <3>3. QED BY <1>2, <3>1, <3>2, TwoPeers
  <2>2. QED BY <1>1, <2>1 DEF AgentInv, PairWasShared
<1>7. SharedSaved'
  BY <1>1, <1>2 DEF AgentInv, AgentTyped, SharedSaved
<1>8. CalmDone'
  <2> PICK f \in Peers : f = pass.from
    BY <1>2
  <2>1. CASE ~pass.clean
    BY <1>1, <1>2, <2>1 DEF PassCurrent, CalmDone
  <2>2. CASE pass.clean
    <3>1. ASSUME NEW n \in Notes
          PROVE  /\ pass.src[n] = agent[pass.from][n]
                 /\ Verdict(n) \in {"add", "update"} => agent[t][n] = pass.src[n]
                 /\ Verdict(n) \notin {"add", "update"} => agent[t][n] = pass.dst[n]
                 /\ pass.after[n] = IF Verdict(n) \in {"add", "update", "same"}
                                    THEN pass.src[n] ELSE NoFile
      BY <1>1, <1>2, <2>2, <3>1 DEF PassCurrent
    <3>2. ASSUME NEW n \in Notes, pass.after[n] # NoFile
          PROVE  agent[t][n] = agent[pass.from][n]
      BY <3>1, <3>2, Outcomes DEF Verdict
    <3>3. DoneFrom(f)'
      <4>1. SUFFICES ASSUME NEW n \in Notes, agent[f][n] # NoFile,
                            agent[f][n] # agent[t][n]
                     PROVE  /\ agent[t][n] = NoFile => pair'[n] # NoFile
                            /\ agent[t][n] # NoFile => pair'[n] # agent[t][n]
        BY <1>1 DEF DoneFrom
      <4>2. pass.after[n] = NoFile /\ pair'[n] = pair[n]
        BY <1>1, <3>2, <4>1
      <4>3. Verdict(n) \notin {"add", "update", "same"} /\ agent[t][n] = pass.dst[n]
            /\ pass.src[n] # NoFile
        BY <3>1, <4>1, <4>2
      <4>4. QED BY <4>2, <4>3, Outcomes DEF Verdict
    <3>4. ASSUME NEW s \in calm PROVE DoneFrom(s)'
      <4>1. s \in Peers /\ DoneFrom(s) /\ (s = f \/ s = t)
        BY <1>2, TwoPeers DEF AgentInv, AgentTyped, CalmDone
      <4>2. CASE s = f
        BY <3>3, <4>2
      <4>3. CASE s = t
        <5>1. Peer(s) = f
          BY <1>2, <4>3, TwoPeers
        <5>2. SUFFICES ASSUME NEW n \in Notes, agent[t][n] # NoFile,
                              agent[t][n] # agent[f][n]
                       PROVE  /\ agent[f][n] = NoFile => pair'[n] # NoFile
                              /\ agent[f][n] # NoFile => pair'[n] # agent[f][n]
          BY <1>1, <4>3, <5>1 DEF DoneFrom
        <5>3. pair'[n] = pair[n]
          BY <1>1, <3>2, <5>2
        <5>4. QED BY <4>1, <4>3, <5>1, <5>2, <5>3 DEF DoneFrom
      <4>4. QED BY <4>1, <4>2, <4>3
    <3>5. \A s \in calm' : s \in calm \/ s = f
      BY <1>1
    <3>6. ASSUME NEW s \in calm' PROVE DoneFrom(s)'
      <4>1. CASE s \in calm
        BY <3>4, <4>1
      <4>2. CASE s = f
        BY <3>3, <4>2
      <4>3. QED BY <3>5, <3>6, <4>1, <4>2
    <3>7. QED BY <3>6 DEF CalmDone
  <2>3. QED BY <2>1, <2>2
<1> QED BY <1>3, <1>4, <1>5, <1>6, <1>7, <1>8 DEF AgentInv

LEMMA PassEndsKeeps ==
  ASSUME AgentInv, PassEnds
  PROVE  AgentInv'
<1>1. /\ Mishap /\ pass' = Waiting
      /\ UNCHANGED <<agent, pair, changes, had, shared, last>>
  BY DEF PassEnds
<1>2. AgentTyped'
  BY <1>1, AgentAssumption DEF AgentInv, AgentTyped, Mishap, Passes
<1>3. AllKnown' /\ PairWasShared' /\ SharedSaved' /\ WritesAreFair'
  BY <1>1 DEF AgentInv, AllKnown, HasHad, PairWasShared, SharedSaved, WritesAreFair
<1>4. PassKnown' /\ PassCurrent' /\ CalmDone'
  BY <1>1 DEF PassKnown, PassCurrent, CalmDone, Waiting, Mishap
<1> QED BY <1>2, <1>3, <1>4 DEF AgentInv

LEMMA PairTornKeeps ==
  ASSUME AgentInv, PairTorn
  PROVE  AgentInv'
<1>1. /\ Mishap /\ pass' = Waiting /\ pair' = Nothing /\ shared' = {}
      /\ UNCHANGED <<agent, changes, had, last>>
  BY DEF PairTorn
<1>2. AgentTyped'
  BY <1>1, AgentAssumption, NothingRead DEF AgentInv, AgentTyped, Mishap, Passes
<1>3. AllKnown' /\ PairWasShared' /\ SharedSaved' /\ WritesAreFair'
  BY <1>1 DEF AgentInv, AllKnown, HasHad, PairWasShared, SharedSaved, WritesAreFair, Nothing
<1>4. PassKnown' /\ PassCurrent' /\ CalmDone'
  BY <1>1 DEF PassKnown, PassCurrent, CalmDone, Waiting, Mishap
<1> QED BY <1>2, <1>3, <1>4 DEF AgentInv

LEMMA AgentStep == AgentInv /\ [AgentNext]_agentVars => AgentInv'
<1> SUFFICES ASSUME AgentInv, [AgentNext]_agentVars PROVE AgentInv'
  OBVIOUS
<1>1. ASSUME NEW s \in Peers, PutNote(s) PROVE AgentInv'
  BY <1>1, ChangeKeeps DEF PutNote, MaybeContent
<1>2. ASSUME NEW s \in Peers, RemoveNote(s) PROVE AgentInv'
  BY <1>2, ChangeKeeps DEF RemoveNote, Present, MaybeContent
<1>3. ASSUME NEW s \in Peers, ListSource(s) PROVE AgentInv'
  BY <1>3, ListSourceKeeps
<1>4. CASE GetNote
  BY <1>4, GetNoteKeeps
<1>5. CASE ListDest
  BY <1>5, ListDestKeeps
<1>6. CASE Plan
  BY <1>6, PlanKeeps
<1>7. CASE PutPlanned
  BY <1>7, PutPlannedKeeps
<1>8. CASE PutPlannedFails
  BY <1>8, PutPlannedFailsKeeps
<1>9. CASE SavePair
  BY <1>9, SavePairKeeps
<1>10. CASE PassEnds
  BY <1>10, PassEndsKeeps
<1>11. CASE PairTorn
  BY <1>11, PairTornKeeps
<1>12. CASE UNCHANGED agentVars
  BY <1>12, AgentStutters
<1> QED BY <1>1, <1>2, <1>3, <1>4, <1>5, <1>6, <1>7, <1>8, <1>9, <1>10, <1>11, <1>12 DEF AgentNext

LEMMA AgentSafe == AgentSpec => []AgentInv
BY AgentStart, AgentStep, PTL DEF AgentSpec

(* Nothing is left for either direction where both have run in peace.      *)
LEMMA DoneIsSettled == AgentInv => Settled
<1> SUFFICES ASSUME AgentInv, calm = Peers, NEW n \in Notes, NEW s \in Peers
             PROVE  LET mine == agent[s][n]
                        theirs == agent[Peer(s)][n]
                    IN mine = theirs \/ IF NoFile \in {mine, theirs} THEN pair[n] # NoFile
                                                                  ELSE pair[n] \notin {mine, theirs}
  BY DEF Settled
<1>1. Peer(s) \in Peers /\ Peer(Peer(s)) = s
  BY TwoPeers
<1>2. DoneFrom(s) /\ DoneFrom(Peer(s))
  BY <1>1 DEF AgentInv, CalmDone
<1> QED BY <1>1, <1>2 DEF DoneFrom

(* The agents' files, the saved hashes, the sync that runs and the         *)
(* histories are always of their kinds, within the bounds.                 *)
THEOREM AgentTypeCorrect == AgentSpec => []AgentTypeOK
<1>1. AgentInv => AgentTypeOK
  BY DEF AgentInv, AgentTyped, AgentTypeOK, Files, MaybeContent
<1> QED BY <1>1, AgentSafe, PTL

(* However users and agents put and remove files while a sync reads and    *)
(* writes them, whichever requests fail and wherever it is cut short: a    *)
(* saved hash is of content that both sides have held, a sync writes over  *)
(* what it read only if the source held it too, brings nothing back that   *)
(* an undisturbed sync had shared, and after both directions ran in peace  *)
(* only conflicts and removals are left.                                   *)
THEOREM AgentsFair == AgentSpec => []AgentsKept
<1>1. AgentInv => AgentsKept
  BY DoneIsSettled DEF AgentInv, AgentsKept
<1> QED BY <1>1, AgentSafe, PTL
------------------------------------------------------------------------------
(* A chat session.                                                         *)

Messages == {m \in [role : {"user", "assistant"}, uses : SUBSET Uses, results : SUBSET Uses,
                    done : BOOLEAN] :
               /\ m.role = "user" => m.uses = {}
               /\ m.role = "assistant" => m.results = {}
               /\ ~m.done => m.uses = {}}

Sessions == [messages : Seq(Messages), pending : BOOLEAN, deleted : BOOLEAN]

Contained == SUBSET (Uses \union Marks)

Readings == Contained \union {Unread}

Bases == UNION {[S -> Readings] : S \in SUBSET Uses}

Turns == {r \in [step : {"none", "call", "tools"}, round : 0 .. MaxRounds, uses : SUBSET Uses,
                 base : Bases] :
            DOMAIN r.base \subseteq r.uses /\ (DOMAIN r.base # {} => r.step = "tools")}

Pasts == [overlapped : BOOLEAN, spurned : BOOLEAN, odd : BOOLEAN, clobbered : BOOLEAN,
          crossed : BOOLEAN, asked : SUBSET Uses, acked : SUBSET Uses, made : SUBSET Marks,
          unseen : SUBSET Marks, ran : [Uses -> Nat], reloads : Nat, troubles : Nat]

ChatTyped ==
  /\ chat \in Sessions /\ saved \in Sessions /\ full \in BOOLEAN /\ open \in BOOLEAN
  /\ loops \in Seq(Turns) /\ sending \in 0 .. Len(loops)
  /\ doc \in Contained /\ cache \in Readings /\ past \in Pasts

(* A session that is deleted is empty.  Calls are of those asked for.      *)
WellAsked(session) ==
  /\ session.deleted => session.messages = <<>> /\ ~session.pending
  /\ \A i \in DOMAIN session.messages : session.messages[i].uses \subseteq past.asked

AllAsked ==
  /\ WellAsked(chat) /\ WellAsked(saved)
  /\ \A l \in DOMAIN loops : loops[l].uses \subseteq past.asked

(* What the tool reads is never behind what was reported, nor behind what  *)
(* others added that the page could see.                                   *)
MustHave == past.acked \union (past.made \ past.unseen)

CopiesCurrent ==
  /\ cache = Unread => \A l \in DOMAIN loops : \A u \in DOMAIN loops[l].base : loops[l].base[u] = Unread
  /\ ~past.crossed =>
       /\ MustHave \subseteq doc
       /\ cache # Unread => MustHave \subseteq cache
       /\ \A l \in DOMAIN loops : \A u \in DOMAIN loops[l].base :
            loops[l].base[u] # Unread => MustHave \subseteq loops[l].base[u]

(* Results stand after their calls. *)
ResultsFollow(session) ==
  \A i \in DOMAIN session.messages : session.messages[i].results # {} =>
    i > 1 /\ session.messages[i - 1].uses = session.messages[i].results

(* Where the loop is, and how the transcript ends. *)
Placed(l) ==
  /\ chat.pending \/ chat.deleted
  /\ loops[l].step = "call" => ~Clobbers(chat)
  /\ loops[l].step = "tools" /\ ~chat.deleted =>
       Clobbers(chat) /\ Last(chat.messages).uses = loops[l].uses

(* A tool that may still run while the page stays. *)
MayRun(u) ==
  \/ u \notin past.asked
  \/ \E l \in DOMAIN loops : u \in DOMAIN loops[l].base
  \/ Running = {} /\ NeedsResume /\ u \in PendingUses(chat)

OneTurn ==
  ~past.overlapped =>
    /\ \A l, m \in Running : l = m
    /\ ResultsFollow(chat) /\ ResultsFollow(saved)
    /\ \A l \in Running : Placed(l)
    /\ ~past.clobbered
    /\ \A u \in Uses : /\ past.ran[u] <= 1 + past.reloads
                       /\ MayRun(u) => past.ran[u] <= past.reloads

(* Every message that waits for an answer has one, or is the last. *)
Answers(s, waits) ==
  \A i \in DOMAIN s.messages : s.messages[i].uses # {} =>
    \/ i < Len(s.messages) /\ s.messages[i + 1].results = s.messages[i].uses
    \/ i = Len(s.messages) /\ waits

(* Nothing but the last message waits for an answer, and it has one due.   *)
NothingUnanswered ==
  ~past.overlapped /\ ~past.spurned /\ ~past.odd /\ ~full => Answers(chat, chat.pending)

ChatInv ==
  ChatTyped /\ AllAsked /\ CopiesCurrent /\ SavedAsShown /\ OneTurn /\ NothingUnanswered

LEMMA ChatKinds ==
  /\ 0 \notin Uses /\ 0 \notin Marks /\ Uses \intersect Marks = {}
  /\ Unread \notin Contained /\ {} \in Contained
  /\ <<>> \in Bases /\ DOMAIN <<>> = {}
  /\ NoLoop \in Turns /\ DOMAIN NoLoop.base = {} /\ NoLoop.step = "none"
<1>1. 0 \notin Uses /\ 0 \notin Marks /\ Uses \intersect Marks = {}
  BY ChatAssumption DEF Uses
<1>2. Unread \notin Contained /\ {} \in Contained
  BY <1>1 DEF Unread, Contained
<1>3. <<>> \in [{} -> Readings] /\ DOMAIN <<>> = {}
  OBVIOUS
<1>4. <<>> \in Bases
  BY <1>3 DEF Bases
<1>5. NoLoop \in Turns
  BY <1>3, <1>4, ChatAssumption DEF NoLoop, Turns
<1>6. QED BY <1>1, <1>2, <1>3, <1>4, <1>5 DEF NoLoop

LEMMA MessageKinds ==
  /\ UserText \in Messages /\ UserText.role = "user"
  /\ UserText.uses = {} /\ UserText.results = {} /\ UserText.done
  /\ Note \in Messages /\ Note.role = "assistant" /\ Note.uses = {} /\ Note.results = {} /\ Note.done
  /\ \A uses \in SUBSET Uses :
       /\ Results(uses) \in Messages /\ Results(uses).role = "user"
       /\ Results(uses).uses = {} /\ Results(uses).results = uses /\ Results(uses).done
       /\ Message("assistant", uses, {}, TRUE) \in Messages
  /\ Message("assistant", {}, {}, FALSE) \in Messages
BY DEF UserText, Note, Results, Message, Messages

LEMMA MessageFields ==
  ASSUME NEW m \in Messages
  PROVE  /\ m.role \in {"user", "assistant"} /\ m.uses \in SUBSET Uses /\ m.results \in SUBSET Uses
         /\ m.role = "user" => m.uses = {}
         /\ m.role = "assistant" => m.results = {}
         /\ ~m.done => m.uses = {}
BY DEF Messages

(* A session with m after the first k messages of s. *)
Grows(s, t, k, m) ==
  /\ t \in Sessions /\ t.deleted = s.deleted
  /\ k \in Nat /\ k <= Len(s.messages)
  /\ Len(t.messages) = k + 1 /\ t.messages[k + 1] = m
  /\ \A i \in 1 .. k : t.messages[i] = s.messages[i]

LEMMA SessionFields ==
  ASSUME NEW s \in Sessions
  PROVE  /\ s.messages \in Seq(Messages) /\ s.pending \in BOOLEAN /\ s.deleted \in BOOLEAN
         /\ Len(s.messages) \in Nat /\ DOMAIN s.messages = 1 .. Len(s.messages)
         /\ \A i \in 1 .. Len(s.messages) : s.messages[i] \in Messages
BY DEF Sessions

LEMMA AppendedGrows ==
  ASSUME NEW s \in Sessions, NEW m \in Messages
  PROVE  Grows(s, Appended(s, m), Len(s.messages), m) /\ Appended(s, m).pending = s.pending
<1>1. /\ Append(s.messages, m) \in Seq(Messages)
      /\ Len(Append(s.messages, m)) = Len(s.messages) + 1
      /\ \A i \in 1 .. Len(s.messages) : Append(s.messages, m)[i] = s.messages[i]
      /\ Append(s.messages, m)[Len(s.messages) + 1] = m
  BY SessionFields, AppendProperties
<1>2. /\ Appended(s, m).messages = Append(s.messages, m)
      /\ Appended(s, m).pending = s.pending /\ Appended(s, m).deleted = s.deleted
      /\ Appended(s, m) \in Sessions
  BY <1>1 DEF Appended, Sessions
<1>3. QED BY <1>1, <1>2, SessionFields DEF Grows

LEMMA PendingSame ==
  ASSUME NEW s \in Sessions, NEW b \in BOOLEAN
  PROVE  /\ Pending(s, b) \in Sessions /\ Pending(s, b).messages = s.messages
         /\ Pending(s, b).deleted = s.deleted /\ Pending(s, b).pending = b
BY DEF Pending, Sessions

(* How a session ends. *)
LEMMA Ends ==
  ASSUME NEW s \in Sessions
  PROVE  LET n == Len(s.messages) IN
         /\ EndsWithAssistant(s) <=> n > 0 /\ s.messages[n].role = "assistant"
         /\ Clobbers(s) <=> n > 0 /\ s.messages[n].role = "assistant" /\ s.messages[n].done
         /\ Last(s.messages) = s.messages[n]
         /\ PendingUses(s) = IF n > 0 THEN s.messages[n].uses ELSE {}
         /\ PendingUses(s) \in SUBSET Uses
<1> DEFINE n == Len(s.messages)
<1>1. n \in Nat /\ (s.messages # <<>> <=> n > 0)
  BY SessionFields, EmptySeq
<1>2. Last(s.messages) = s.messages[n]
  BY DEF Last
<1>3. n > 0 => /\ s.messages[n] \in Messages
               /\ s.messages[n].role \in {"user", "assistant"} /\ s.messages[n].uses \in SUBSET Uses
               /\ s.messages[n].role = "user" => s.messages[n].uses = {}
  <2>1. n > 0 => s.messages[n] \in Messages
    BY <1>1, SessionFields
  <2>2. QED BY <2>1, MessageFields
<1>4. /\ EndsWithAssistant(s) <=> n > 0 /\ s.messages[n].role = "assistant"
      /\ Clobbers(s) <=> n > 0 /\ s.messages[n].role = "assistant" /\ s.messages[n].done
  BY <1>1, <1>2 DEF EndsWithAssistant, Clobbers
<1>5. PendingUses(s) = IF n > 0 THEN s.messages[n].uses ELSE {}
  BY <1>2, <1>3, <1>4 DEF PendingUses
<1>6. QED BY <1>2, <1>3, <1>4, <1>5

LEMMA FinalizedGrows ==
  ASSUME NEW s \in Sessions, NEW uses \in SUBSET Uses
  PROVE  /\ Grows(s, Finalized(s, uses),
                  IF EndsWithAssistant(s) THEN Len(s.messages) - 1 ELSE Len(s.messages),
                  Message("assistant", uses, {}, TRUE))
         /\ Finalized(s, uses).pending = s.pending
<1> DEFINE m == Message("assistant", uses, {}, TRUE)
           n == Len(s.messages)
<1>1. m \in Messages
  BY MessageKinds
<1>2. CASE ~EndsWithAssistant(s)
  BY <1>1, <1>2, AppendedGrows DEF Finalized
<1>3. CASE EndsWithAssistant(s)
  <2>1. n \in Nat /\ n > 0
    BY <1>3, Ends, SessionFields
  <2>2. \A i \in 1 .. n - 1 : s.messages[i] \in Messages
    BY SessionFields, <2>1
  <2>3. /\ Front(s.messages) \in Seq(Messages) /\ Len(Front(s.messages)) = n - 1
        /\ \A i \in 1 .. n - 1 : Front(s.messages)[i] = s.messages[i]
    <3>1. /\ SubSeq(s.messages, 1, n - 1) \in Seq(Messages)
          /\ Len(SubSeq(s.messages, 1, n - 1)) = IF 1 <= n - 1 THEN (n - 1) - 1 + 1 ELSE 0
          /\ \A i \in 1 .. (n - 1) - 1 + 1 : SubSeq(s.messages, 1, n - 1)[i] = s.messages[1 + i - 1]
      BY <2>1, <2>2, SubSeqProperties
    <3>2. QED BY <2>1, <3>1 DEF Front
  <2> DEFINE f == Front(s.messages)
             q == Append(f, m)
  <2>4. /\ q \in Seq(Messages) /\ Len(q) = n /\ q[n] = m
        /\ \A i \in 1 .. n - 1 : q[i] = s.messages[i]
    <3>1. f \in Seq(Messages) /\ Len(f) = n - 1 /\ \A i \in 1 .. n - 1 : f[i] = s.messages[i]
      BY <2>3
    <3> HIDE DEF f, m
    <3>2. /\ q \in Seq(Messages) /\ Len(q) = Len(f) + 1 /\ q[Len(f) + 1] = m
          /\ \A i \in 1 .. Len(f) : q[i] = f[i]
      BY <1>1, <3>1, AppendProperties
    <3>3. Len(f) + 1 = n
      BY <2>1, <3>1
    <3>4. QED BY <3>1, <3>2, <3>3
  <2>5. /\ Finalized(s, uses).messages = q
        /\ Finalized(s, uses).pending = s.pending /\ Finalized(s, uses).deleted = s.deleted
        /\ Finalized(s, uses) \in Sessions
    BY <1>3, <2>4 DEF Finalized, Sessions
  <2>6. n - 1 \in Nat /\ n - 1 <= n /\ (n - 1) + 1 = n
    BY <2>1
  <2> HIDE DEF q, m
  <2>7. Grows(s, Finalized(s, uses), n - 1, m)
    BY <2>4, <2>5, <2>6 DEF Grows
  <2>8. QED BY <1>3, <2>5, <2>7 DEF m
<1>4. QED BY <1>2, <1>3

LEMMA ChatStart == ChatInit => ChatInv
<1> SUFFICES ASSUME ChatInit PROVE ChatInv
  OBVIOUS
<1>1. /\ chat = [messages |-> <<>>, pending |-> FALSE, deleted |-> FALSE]
      /\ saved = chat /\ full = FALSE /\ open = TRUE /\ sending = 0
      /\ loops = <<>> /\ doc = {} /\ cache = Unread
      /\ past = [overlapped |-> FALSE, spurned |-> FALSE, odd |-> FALSE, clobbered |-> FALSE,
                 crossed |-> FALSE, asked |-> {}, acked |-> {}, made |-> {}, unseen |-> {},
                 ran |-> [u \in Uses |-> 0], reloads |-> 0, troubles |-> 0]
  BY DEF ChatInit
<1>2. ChatTyped
  <2>1. chat \in Sessions /\ loops \in Seq(Turns) /\ Len(loops) = 0
    BY <1>1 DEF Sessions
  <2>2. past \in Pasts
    BY <1>1 DEF Pasts
  <2>3. full \in BOOLEAN /\ open \in BOOLEAN /\ saved \in Sessions
    BY <1>1, <2>1
  <2>4. doc \in Contained /\ cache \in Readings /\ sending \in 0 .. Len(loops)
    BY <1>1, <2>1, ChatKinds DEF Readings
  <2>5. QED BY <2>1, <2>2, <2>3, <2>4 DEF ChatTyped
<1>3. DOMAIN loops = {} /\ DOMAIN chat.messages = {} /\ DOMAIN saved.messages = {}
  BY <1>1
<1>4. AllAsked
  BY <1>1, <1>3 DEF AllAsked, WellAsked
<1>5. CopiesCurrent
  BY <1>1, <1>3 DEF CopiesCurrent, MustHave
<1>6. SavedAsShown
  BY <1>1 DEF SavedAsShown
<1>7. OneTurn
  <2>1. Running = {} /\ ResultsFollow(chat) /\ ResultsFollow(saved) /\ ~past.clobbered
    BY <1>1, <1>3 DEF Running, ResultsFollow
  <2>2. \A u \in Uses : past.ran[u] = 0
    BY <1>1
  <2>3. past.reloads = 0
    BY <1>1
  <2>4. QED BY <2>1, <2>2, <2>3 DEF OneTurn
<1>8. NothingUnanswered
  BY <1>3 DEF NothingUnanswered, Answers
<1> QED BY <1>2, <1>4, <1>5, <1>6, <1>7, <1>8 DEF ChatInv

(* Neither the transcripts nor the turns change. *)
LEMMA QuietKeeps ==
  ASSUME ChatInv, UNCHANGED <<chat, saved, loops>>, full => full',
         past'.overlapped = past.overlapped, past'.spurned = past.spurned, past'.odd = past.odd,
         past'.clobbered = past.clobbered, past'.asked = past.asked, past'.ran = past.ran,
         past'.reloads = past.reloads
  PROVE  AllAsked' /\ SavedAsShown' /\ OneTurn' /\ NothingUnanswered'
<1>1. AllAsked'
  BY DEF ChatInv, AllAsked, WellAsked
<1>2. SavedAsShown'
  BY DEF ChatInv, SavedAsShown
<1>3. OneTurn'
  <2>1. Running' = Running /\ NeedsResume' = NeedsResume /\ PendingUses(chat)' = PendingUses(chat)
    BY DEF Running, NeedsResume, PendingUses, EndsWithAssistant
  <2>2. \A u : MayRun(u)' = MayRun(u)
    BY <2>1 DEF MayRun
  <2>3. \A l : Placed(l)' = Placed(l)
    BY DEF Placed, Clobbers, EndsWithAssistant
  <2>4. ResultsFollow(chat)' = ResultsFollow(chat) /\ ResultsFollow(saved)' = ResultsFollow(saved)
    BY DEF ResultsFollow
  <2>5. OneTurn
    BY DEF ChatInv
  <2>6. QED BY <2>1, <2>2, <2>3, <2>4, <2>5 DEF OneTurn
<1>4. NothingUnanswered'
  BY DEF ChatInv, NothingUnanswered, Answers
<1> QED BY <1>1, <1>2, <1>3, <1>4

LEMMA PastFields ==
  ASSUME past \in Pasts
  PROVE  /\ past.overlapped \in BOOLEAN /\ past.spurned \in BOOLEAN /\ past.odd \in BOOLEAN
         /\ past.clobbered \in BOOLEAN /\ past.crossed \in BOOLEAN
         /\ past.asked \in SUBSET Uses /\ past.acked \in SUBSET Uses
         /\ past.made \in SUBSET Marks /\ past.unseen \in SUBSET Marks
         /\ past.ran \in [Uses -> Nat] /\ past.reloads \in Nat /\ past.troubles \in Nat
BY DEF Pasts

LEMMA TurnsTyped ==
  ASSUME ChatTyped, NEW l \in DOMAIN loops
  PROVE  /\ DOMAIN loops = 1 .. Len(loops) /\ Len(loops) \in Nat
         /\ loops[l] \in Turns /\ loops[l].uses \in SUBSET Uses /\ loops[l].base \in Bases
         /\ DOMAIN loops[l].base \subseteq loops[l].uses
         /\ DOMAIN loops[l].base # {} => loops[l].step = "tools"
         /\ \A u \in DOMAIN loops[l].base : loops[l].base[u] \in Readings
<1>1. DOMAIN loops = 1 .. Len(loops) /\ Len(loops) \in Nat /\ loops[l] \in Turns
  BY DEF ChatTyped
<1>2. /\ loops[l].uses \in SUBSET Uses /\ loops[l].base \in Bases
      /\ DOMAIN loops[l].base \subseteq loops[l].uses
      /\ DOMAIN loops[l].base # {} => loops[l].step = "tools"
  BY <1>1 DEF Turns
<1>3. QED BY <1>1, <1>2 DEF Bases

LEMMA TroubledIs ==
  ASSUME NEW h \in Pasts
  PROVE  LET t == Troubled(h) IN
         /\ t \in Pasts /\ t.made = h.made /\ t.unseen = h.unseen
         /\ t.overlapped = h.overlapped /\ t.spurned = h.spurned /\ t.odd = h.odd
         /\ t.clobbered = h.clobbered /\ t.crossed = h.crossed /\ t.asked = h.asked
         /\ t.acked = h.acked /\ t.ran = h.ran /\ t.reloads = h.reloads
BY DEF Pasts, Troubled

LEMMA EditElsewhereKeeps ==
  ASSUME ChatInv, EditElsewhere
  PROVE  ChatInv'
<1>1. PICK m \in Marks \ past.made :
        /\ doc' = doc \union {m}
        /\ past' = [Troubled(past) EXCEPT !.made = @ \union {m},
                      !.unseen = IF cache = Unread THEN @ ELSE @ \union {m}]
        /\ UNCHANGED <<chat, saved, full, open, sending, loops, cache>>
  BY DEF EditElsewhere
<1>2. ChatTyped
  BY DEF ChatInv
<1>3. /\ past' \in Pasts
      /\ past'.made = past.made \union {m}
      /\ past'.unseen = IF cache = Unread THEN past.unseen ELSE past.unseen \union {m}
      /\ past'.overlapped = past.overlapped /\ past'.spurned = past.spurned
      /\ past'.odd = past.odd /\ past'.clobbered = past.clobbered /\ past'.crossed = past.crossed
      /\ past'.asked = past.asked /\ past'.acked = past.acked /\ past'.ran = past.ran
      /\ past'.reloads = past.reloads
  <2> DEFINE t == Troubled(past)
             unseen == IF cache = Unread THEN past.unseen ELSE past.unseen \union {m}
  <2>1. /\ t \in Pasts /\ t.made = past.made /\ t.unseen = past.unseen
        /\ t.overlapped = past.overlapped /\ t.spurned = past.spurned /\ t.odd = past.odd
        /\ t.clobbered = past.clobbered /\ t.crossed = past.crossed /\ t.asked = past.asked
        /\ t.acked = past.acked /\ t.ran = past.ran /\ t.reloads = past.reloads
    BY <1>2, TroubledIs DEF ChatTyped
  <2>2. past' = [t EXCEPT !.made = past.made \union {m}, !.unseen = unseen]
    BY <1>1, <2>1
  <2>3. past.made \union {m} \in SUBSET Marks /\ unseen \in SUBSET Marks
    BY <1>2, PastFields DEF ChatTyped
  <2> HIDE DEF t, unseen
  <2>4. /\ past' \in Pasts /\ past'.made = past.made \union {m} /\ past'.unseen = unseen
        /\ past'.overlapped = t.overlapped /\ past'.spurned = t.spurned /\ past'.odd = t.odd
        /\ past'.clobbered = t.clobbered /\ past'.crossed = t.crossed /\ past'.asked = t.asked
        /\ past'.acked = t.acked /\ past'.ran = t.ran /\ past'.reloads = t.reloads
    BY <2>1, <2>2, <2>3 DEF Pasts
  <2>5. QED BY <2>1, <2>4 DEF unseen
<1>4. AllAsked' /\ SavedAsShown' /\ OneTurn' /\ NothingUnanswered'
  BY <1>1, <1>3, QuietKeeps
<1>5. ChatTyped'
  BY <1>1, <1>2, <1>3 DEF ChatTyped, Contained
<1>6. CopiesCurrent'
  <2>1. CopiesCurrent
    BY DEF ChatInv
  <2>2. CASE cache = Unread
    <3>1. MustHave' \subseteq MustHave \union {m}
      BY <1>3, <2>2 DEF MustHave
    <3>2. \A l \in DOMAIN loops : \A u \in DOMAIN loops[l].base : loops[l].base[u] = Unread
      BY <2>1, <2>2 DEF CopiesCurrent
    <3>3. QED BY <1>1, <1>3, <2>1, <2>2, <3>1, <3>2 DEF CopiesCurrent
  <2>3. CASE cache # Unread
    <3>1. MustHave' \subseteq MustHave
      BY <1>3, <2>3 DEF MustHave
    <3>2. QED BY <1>1, <1>3, <2>1, <2>3, <3>1 DEF CopiesCurrent
  <2>4. QED BY <2>2, <2>3
<1> QED BY <1>4, <1>5, <1>6 DEF ChatInv

LEMMA ViewKeeps ==
  ASSUME ChatInv, Leave \/ Enter \/ StorageFull \/ UNCHANGED chatVars
  PROVE  ChatInv'
<1>1. ChatTyped /\ CopiesCurrent
  BY DEF ChatInv
<1>2. /\ UNCHANGED <<chat, saved, loops, doc, cache>>
      /\ past' = Troubled(past) \/ past' = past
  BY DEF Leave, Enter, StorageFull, chatVars
<1>3. /\ full' \in BOOLEAN /\ open' \in BOOLEAN /\ sending' \in 0 .. Len(loops)
      /\ full => full'
  <2>1. CASE Leave
    <3>1. Len(loops) \in Nat /\ full \in BOOLEAN
      BY <1>1 DEF ChatTyped
    <3>2. open' = FALSE /\ sending' = 0 /\ full' = full
      BY <2>1 DEF Leave
    <3>3. full' \in BOOLEAN /\ (full => full')
      BY <3>1, <3>2
    <3>4. open' \in BOOLEAN
      BY <3>2
    <3>5. sending' \in 0 .. Len(loops)
      BY <3>1, <3>2
    <3>6. QED BY <3>3, <3>4, <3>5
  <2>2. CASE Enter
    BY <1>1, <2>2 DEF Enter, ChatTyped
  <2>3. CASE StorageFull
    BY <1>1, <2>3 DEF StorageFull, ChatTyped
  <2>4. CASE UNCHANGED chatVars
    BY <1>1, <2>4 DEF chatVars, ChatTyped
  <2>5. QED BY <2>1, <2>2, <2>3, <2>4
<1>4. /\ past' \in Pasts
      /\ past'.made = past.made /\ past'.unseen = past.unseen
      /\ past'.overlapped = past.overlapped /\ past'.spurned = past.spurned
      /\ past'.odd = past.odd /\ past'.clobbered = past.clobbered /\ past'.crossed = past.crossed
      /\ past'.asked = past.asked /\ past'.acked = past.acked /\ past'.ran = past.ran
      /\ past'.reloads = past.reloads
  BY <1>1, <1>2, TroubledIs DEF ChatTyped
<1>5. AllAsked' /\ SavedAsShown' /\ OneTurn' /\ NothingUnanswered'
  BY <1>2, <1>3, <1>4, QuietKeeps
<1>6. ChatTyped'
  BY <1>1, <1>2, <1>3, <1>4 DEF ChatTyped
<1>7. CopiesCurrent'
  <2>1. MustHave' = MustHave
    BY <1>4 DEF MustHave
  <2>2. QED BY <1>1, <1>2, <1>4, <2>1 DEF CopiesCurrent
<1> QED BY <1>5, <1>6, <1>7 DEF ChatInv

(* Sessions, as they end when they are left to grow. *)

LEMMA BecomesKeeps ==
  ASSUME ChatInv, NEW session \in Sessions, ~chat.deleted => ~session.deleted, Becomes(session),
         full' = full
  PROVE  /\ chat' \in Sessions /\ saved' \in Sessions /\ SavedAsShown'
         /\ chat.deleted => chat' = chat
         /\ ~chat.deleted => chat' = session
         /\ saved' = saved \/ saved' = chat'
         /\ ~full => saved' = chat'
<1>1. chat \in Sessions /\ saved \in Sessions /\ SavedAsShown
  BY DEF ChatInv, ChatTyped
<1>2. CASE chat.deleted
  <2>1. chat' = chat /\ saved' = saved
    BY <1>2 DEF Becomes
  <2>2. QED BY <1>1, <1>2, <2>1 DEF SavedAsShown
<1>3. CASE ~chat.deleted
  <2>1. chat' = session /\ saved' = IF full THEN saved ELSE session
    BY <1>3 DEF Becomes
  <2>2. ~session.deleted
    BY <1>3
  <2>3. SavedAsShown'
    BY <2>1, <2>2 DEF SavedAsShown
  <2>4. QED BY <1>1, <1>3, <2>1, <2>3
<1>4. QED BY <1>2, <1>3

LEMMA GrownAsked ==
  ASSUME NEW s \in Sessions, NEW t \in Sessions, NEW k, NEW m \in Messages, Grows(s, t, k, m),
         NEW A, \A i \in DOMAIN s.messages : s.messages[i].uses \subseteq A,
         m.uses \subseteq A
  PROVE  \A i \in DOMAIN t.messages : t.messages[i].uses \subseteq A
<1> SUFFICES ASSUME NEW i \in DOMAIN t.messages PROVE t.messages[i].uses \subseteq A
  OBVIOUS
<1>1. i \in 1 .. k + 1 /\ k \in Nat /\ k <= Len(s.messages) /\ Len(s.messages) \in Nat
      /\ DOMAIN s.messages = 1 .. Len(s.messages)
  BY SessionFields DEF Grows
<1>2. CASE i = k + 1
  BY <1>2 DEF Grows
<1>3. CASE i # k + 1
  <2>1. i \in 1 .. k /\ i \in DOMAIN s.messages
    BY <1>1, <1>3
  <2>2. QED BY <2>1 DEF Grows
<1>4. QED BY <1>2, <1>3

LEMMA GrownFollows ==
  ASSUME NEW s \in Sessions, NEW t \in Sessions, NEW k, NEW m \in Messages, Grows(s, t, k, m),
         ResultsFollow(s),
         m.results # {} => k > 0 /\ s.messages[k].uses = m.results
  PROVE  ResultsFollow(t)
<1> SUFFICES ASSUME NEW i \in DOMAIN t.messages, t.messages[i].results # {}
             PROVE  i > 1 /\ t.messages[i - 1].uses = t.messages[i].results
  BY DEF ResultsFollow
<1>1. i \in 1 .. k + 1 /\ k \in Nat /\ k <= Len(s.messages) /\ Len(s.messages) \in Nat
      /\ DOMAIN s.messages = 1 .. Len(s.messages)
  BY SessionFields DEF Grows
<1>2. CASE i = k + 1
  <2>1. t.messages[i] = m /\ k > 0 /\ s.messages[k].uses = m.results
    BY <1>2 DEF Grows
  <2>2. k \in 1 .. k /\ i - 1 = k
    BY <1>1, <1>2, <2>1
  <2>3. t.messages[k] = s.messages[k]
    BY <2>2 DEF Grows
  <2>4. QED BY <1>1, <1>2, <2>1, <2>2, <2>3
<1>3. CASE i # k + 1
  <2>1. i \in 1 .. k /\ i \in DOMAIN s.messages /\ t.messages[i] = s.messages[i]
    BY <1>1, <1>3 DEF Grows
  <2>2. i > 1 /\ s.messages[i - 1].uses = s.messages[i].results
    BY <2>1 DEF ResultsFollow
  <2>3. i - 1 \in 1 .. k
    BY <1>1, <2>1, <2>2
  <2>4. t.messages[i - 1] = s.messages[i - 1]
    BY <2>3 DEF Grows
  <2>5. QED BY <2>1, <2>2, <2>4
<1>4. QED BY <1>2, <1>3

LEMMA GrownAnswers ==
  ASSUME NEW s \in Sessions, NEW t \in Sessions, NEW k, NEW m \in Messages, Grows(s, t, k, m),
         NEW waits \in BOOLEAN, NEW then \in BOOLEAN, Answers(s, waits),
         k < Len(s.messages) => s.messages[Len(s.messages)].role = "assistant" /\ k + 1 = Len(s.messages),
         k = Len(s.messages) /\ k > 0 =>
           s.messages[k].uses = {} \/ s.messages[k].uses = m.results,
         m.uses # {} => then
  PROVE  Answers(t, then)
<1> SUFFICES ASSUME NEW i \in DOMAIN t.messages, t.messages[i].uses # {}
             PROVE  \/ i < Len(t.messages) /\ t.messages[i + 1].results = t.messages[i].uses
                    \/ i = Len(t.messages) /\ then
  BY DEF Answers
<1> DEFINE n == Len(s.messages)
<1>1. /\ i \in 1 .. k + 1 /\ k \in Nat /\ k <= n /\ n \in Nat
      /\ DOMAIN s.messages = 1 .. n /\ Len(t.messages) = k + 1
      /\ \A j \in 1 .. k : t.messages[j] = s.messages[j]
      /\ t.messages[k + 1] = m
  BY SessionFields DEF Grows
<1>2. CASE i = k + 1
  BY <1>1, <1>2
<1>3. CASE i # k + 1
  <2>1. i \in 1 .. k /\ i \in DOMAIN s.messages /\ t.messages[i] = s.messages[i] /\ i < k + 1
    BY <1>1, <1>3
  <2>2. CASE i = k /\ k = n
    BY <1>1, <2>1, <2>2
  <2>3. CASE i = k /\ k < n
    <3>1. s.messages[i + 1].results = s.messages[i].uses
      BY <1>1, <2>1, <2>3 DEF Answers
    <3>2. i + 1 = n /\ s.messages[n] \in Messages /\ s.messages[n].role = "assistant"
      BY <1>1, <2>3, SessionFields
    <3>3. s.messages[n].results = {}
      BY <3>2, MessageFields
    <3>4. QED BY <2>1, <3>1, <3>2, <3>3
  <2>4. CASE i < k
    <3>1. i + 1 \in 1 .. k /\ i < n
      BY <1>1, <2>1, <2>4
    <3>2. s.messages[i + 1].results = s.messages[i].uses
      BY <2>1, <3>1 DEF Answers
    <3>3. QED BY <1>1, <2>1, <3>1, <3>2
  <2>5. QED BY <1>1, <2>1, <2>2, <2>3, <2>4
<1>4. QED BY <1>2, <1>3

(* What is not ended calls nothing. *)
LEMMA CallEnds ==
  ASSUME NEW s \in Sessions, ~Clobbers(s), Len(s.messages) > 0
  PROVE  s.messages[Len(s.messages)].uses = {}
<1>1. s.messages[Len(s.messages)] \in Messages
  BY SessionFields
<1>2. QED BY <1>1, Ends, MessageFields

LEMMA TurnSet ==
  ASSUME ChatTyped, NEW l \in DOMAIN loops, NEW r \in Turns, loops' = [loops EXCEPT ![l] = r],
         sending' = sending \/ sending' = 0
  PROVE  /\ loops' \in Seq(Turns) /\ DOMAIN loops' = DOMAIN loops /\ Len(loops') = Len(loops)
         /\ sending' \in 0 .. Len(loops')
         /\ loops'[l] = r /\ \A m \in DOMAIN loops \ {l} : loops'[m] = loops[m]
<1>1. loops \in Seq(Turns) /\ Len(loops) \in Nat /\ DOMAIN loops = 1 .. Len(loops)
      /\ sending \in 0 .. Len(loops)
  BY DEF ChatTyped
<1>2. QED BY <1>1

(* Copies that turns have are as they were, or of the cache. *)
LEMMA CopiesKeep ==
  ASSUME CopiesCurrent, UNCHANGED <<doc, cache>>,
         past'.acked = past.acked, past'.made = past.made, past'.unseen = past.unseen,
         past'.crossed = past.crossed,
         \A l \in DOMAIN loops' : \A u \in DOMAIN loops'[l].base :
           \/ loops'[l].base[u] = cache
           \/ l \in DOMAIN loops /\ u \in DOMAIN loops[l].base /\ loops'[l].base[u] = loops[l].base[u]
  PROVE  CopiesCurrent'
<1>1. MustHave' = MustHave
  BY DEF MustHave
<1>2. QED BY <1>1 DEF CopiesCurrent

(* Two that are one. *)
LEMMA OnlyOne ==
  ASSUME OneTurn, ~past.overlapped, NEW l \in Running
  PROVE  Running = {l} /\ Placed(l)
BY DEF OneTurn

LEMMA StreamTextKeeps ==
  ASSUME ChatInv, NEW l \in DOMAIN loops, StreamText(l)
  PROVE  ChatInv'
<1> DEFINE m == Message("assistant", {}, {}, FALSE)
<1>1. /\ loops[l].step = "call" /\ ~chat.deleted
      /\ Becomes(Streamed(chat))
      /\ past' = [past EXCEPT !.clobbered = @ \/ Clobbers(chat)]
      /\ UNCHANGED <<full, open, sending, loops, doc, cache>>
  BY DEF StreamText
<1>2. ChatTyped /\ chat \in Sessions /\ saved \in Sessions /\ past \in Pasts
  BY DEF ChatInv, ChatTyped
<1>3. \/ Streamed(chat) = chat
      \/ ~EndsWithAssistant(chat) /\ Grows(chat, Streamed(chat), Len(chat.messages), m)
         /\ Streamed(chat).pending = chat.pending
  BY <1>2, MessageKinds, AppendedGrows DEF Streamed
<1>4. Streamed(chat) \in Sessions /\ ~Streamed(chat).deleted
  BY <1>1, <1>2, <1>3 DEF Grows
<1>5. /\ chat' = Streamed(chat) /\ saved' \in Sessions /\ SavedAsShown'
      /\ saved' = saved \/ saved' = chat'
      /\ ~full => saved' = chat'
  BY <1>1, <1>4, BecomesKeeps
<1>6. /\ past' \in Pasts /\ past'.overlapped = past.overlapped /\ past'.spurned = past.spurned
      /\ past'.odd = past.odd /\ past'.crossed = past.crossed
      /\ past'.asked = past.asked /\ past'.acked = past.acked /\ past'.ran = past.ran
      /\ past'.reloads = past.reloads /\ past'.made = past.made /\ past'.unseen = past.unseen
      /\ past'.clobbered <=> past.clobbered \/ Clobbers(chat)
  BY <1>1, <1>2 DEF Pasts, Clobbers
<1>7. ChatTyped'
  BY <1>1, <1>2, <1>4, <1>5, <1>6 DEF ChatTyped
<1>8. AllAsked'
  <2>1. WellAsked(chat) /\ WellAsked(saved)
    BY DEF ChatInv, AllAsked
  <2>2. \A i \in DOMAIN chat'.messages : chat'.messages[i].uses \subseteq past.asked
    <3>1. CASE Streamed(chat) = chat
      BY <1>5, <2>1, <3>1 DEF WellAsked
    <3>2. CASE Grows(chat, Streamed(chat), Len(chat.messages), m)
      <4>1. m \in Messages /\ m.uses = {}
        BY MessageKinds DEF Message
      <4>2. \A i \in DOMAIN chat.messages : chat.messages[i].uses \subseteq past.asked
        BY <2>1 DEF WellAsked
      <4> HIDE DEF m
      <4>3. \A i \in DOMAIN Streamed(chat).messages : Streamed(chat).messages[i].uses \subseteq past.asked
        BY <1>1, <1>2, <1>4, <3>2, <4>1, <4>2, GrownAsked
      <4>4. QED BY <1>5, <4>3
    <3>3. QED BY <1>3, <3>1, <3>2
  <2>3. WellAsked(chat)' /\ WellAsked(saved)'
    BY <1>4, <1>5, <1>6, <2>1, <2>2 DEF WellAsked
  <2>4. QED BY <1>1, <1>6, <2>3 DEF ChatInv, AllAsked
<1>9. CopiesCurrent'
  <2>1. CopiesCurrent
    BY DEF ChatInv
  <2>2. QED BY <1>1, <1>6, <2>1, CopiesKeep
<1>10. OneTurn'
  <2> SUFFICES ASSUME ~past.overlapped PROVE OneTurn'
    BY <1>6 DEF OneTurn
  <2>1. l \in Running /\ Running' = Running /\ OneTurn
    BY <1>1 DEF Running, ChatInv
  <2>2. Running = {l} /\ Placed(l)
    BY <2>1, OnlyOne
  <2>3. ~Clobbers(chat) /\ chat.pending
    BY <1>1, <2>2 DEF Placed
  <2>4. ~Clobbers(chat)' /\ chat'.pending /\ ResultsFollow(chat)'
    <3>1. CASE Streamed(chat) = chat
      BY <1>5, <2>1, <2>3, <3>1 DEF OneTurn, ResultsFollow, Clobbers, EndsWithAssistant
    <3>2. CASE Grows(chat, Streamed(chat), Len(chat.messages), m) /\ Streamed(chat).pending = chat.pending
      <4>1. m \in Messages /\ m.results = {} /\ ~m.done
        BY MessageKinds DEF Message
      <4>2. ResultsFollow(Streamed(chat))
        BY <1>2, <1>4, <2>1, <3>2, <4>1, GrownFollows DEF OneTurn
      <4>3. ~Clobbers(Streamed(chat))
        <5>1. Streamed(chat).messages[Len(Streamed(chat).messages)] = m
          BY <3>2 DEF Grows
        <5>2. QED BY <1>4, <4>1, <5>1, Ends
      <4>4. QED BY <1>5, <2>3, <3>2, <4>2, <4>3 DEF ResultsFollow, Clobbers, EndsWithAssistant
    <3>3. QED BY <1>3, <3>1, <3>2
  <2>5. ResultsFollow(saved)'
    BY <1>5, <2>1, <2>4 DEF OneTurn, ResultsFollow
  <2>6. Placed(l)'
    BY <1>1, <2>4 DEF Placed
  <2>7. ASSUME NEW u \in Uses, MayRun(u)' PROVE MayRun(u)
    BY <1>1, <1>6, <2>1, <2>2, <2>7 DEF MayRun
  <2>8. ~past'.clobbered
    BY <1>6, <2>1, <2>3 DEF OneTurn
  <2>9. QED BY <1>6, <2>1, <2>2, <2>4, <2>5, <2>6, <2>7, <2>8 DEF OneTurn
<1>11. NothingUnanswered'
  <2> SUFFICES ASSUME ~past.overlapped, ~past.spurned, ~past.odd, ~full
               PROVE  Answers(chat', chat'.pending)
    BY <1>1, <1>6 DEF NothingUnanswered, Answers
  <2>1. Answers(chat, chat.pending) /\ chat.pending \in BOOLEAN
    BY <1>2 DEF ChatInv, NothingUnanswered, Sessions
  <2>2. CASE Streamed(chat) = chat
    BY <1>5, <2>1, <2>2
  <2>3. CASE ~EndsWithAssistant(chat) /\ Grows(chat, Streamed(chat), Len(chat.messages), m)
             /\ Streamed(chat).pending = chat.pending
    <3>1. m \in Messages /\ m.uses = {} /\ Len(chat.messages) \in Nat
      BY <1>2, MessageKinds, SessionFields DEF Message
    <3>2. Len(chat.messages) > 0 => chat.messages[Len(chat.messages)].uses = {}
      BY <1>2, <2>3, CallEnds DEF Clobbers
    <3> HIDE DEF m
    <3>3. Answers(Streamed(chat), chat.pending)
      <4>1. ~(Len(chat.messages) < Len(chat.messages))
        BY <3>1
      <4>2. QED BY <1>2, <1>4, <2>1, <2>3, <3>1, <3>2, <4>1, GrownAnswers
    <3>4. QED BY <1>5, <2>3, <3>3
  <2>4. QED BY <1>3, <2>2, <2>3
<1> QED BY <1>5, <1>7, <1>8, <1>9, <1>10, <1>11 DEF ChatInv

(* What holds of a session that changes, unless it is deleted. *)
LEMMA SessionChanges ==
  ASSUME ChatInv, NEW t \in Sessions, t.deleted = chat.deleted, Becomes(t),
         full' = full, past.asked \subseteq past'.asked,
         ~chat.deleted => \A i \in DOMAIN t.messages : t.messages[i].uses \subseteq past'.asked
  PROVE  /\ chat' \in Sessions /\ saved' \in Sessions /\ SavedAsShown'
         /\ WellAsked(chat)' /\ WellAsked(saved)'
         /\ chat.deleted => chat' = chat
         /\ ~chat.deleted => chat' = t /\ ~chat'.deleted
         /\ ResultsFollow(chat) /\ ResultsFollow(saved) /\ (~chat.deleted => ResultsFollow(t)) =>
              ResultsFollow(chat)' /\ ResultsFollow(saved)'
<1>1. chat \in Sessions /\ saved \in Sessions /\ WellAsked(chat) /\ WellAsked(saved)
  BY DEF ChatInv, ChatTyped, AllAsked
<1>2. /\ chat' \in Sessions /\ saved' \in Sessions /\ SavedAsShown'
      /\ chat.deleted => chat' = chat
      /\ ~chat.deleted => chat' = t
      /\ saved' = saved \/ saved' = chat'
  BY BecomesKeeps
<1>3. \A i \in DOMAIN saved.messages : saved.messages[i].uses \subseteq past'.asked
  BY <1>1 DEF WellAsked
<1>4. /\ chat'.deleted => chat'.messages = <<>> /\ ~chat'.pending
      /\ \A i \in DOMAIN chat'.messages : chat'.messages[i].uses \subseteq past'.asked
  <2>1. \A i \in DOMAIN chat.messages : chat.messages[i].uses \subseteq past'.asked
    BY <1>1 DEF WellAsked
  <2>2. CASE chat.deleted
    BY <1>1, <1>2, <2>1, <2>2 DEF WellAsked
  <2>3. CASE ~chat.deleted
    BY <1>2, <2>3
  <2>4. QED BY <2>2, <2>3
<1>5. WellAsked(chat)' /\ WellAsked(saved)'
  BY <1>1, <1>2, <1>3, <1>4 DEF WellAsked
<1>6. ASSUME ResultsFollow(chat), ResultsFollow(saved), ~chat.deleted => ResultsFollow(t)
      PROVE  ResultsFollow(chat)' /\ ResultsFollow(saved)'
  <2>1. ResultsFollow(chat')
    BY <1>2, <1>6
  <2>2. ResultsFollow(saved')
    BY <1>2, <1>6, <2>1
  <2>3. QED BY <2>1, <2>2 DEF ResultsFollow
<1>7. QED BY <1>2, <1>5, <1>6

LEMMA GrownSession ==
  ASSUME ChatInv, NEW t \in Sessions, NEW k, NEW m \in Messages, Grows(chat, t, k, m), Becomes(t),
         full' = full, past.asked \subseteq past'.asked, m.uses \subseteq past'.asked
  PROVE  /\ chat' \in Sessions /\ saved' \in Sessions /\ SavedAsShown'
         /\ WellAsked(chat)' /\ WellAsked(saved)'
         /\ chat.deleted => chat' = chat
         /\ ~chat.deleted => chat' = t /\ ~chat'.deleted
         /\ ResultsFollow(chat) /\ ResultsFollow(saved)
              /\ (~chat.deleted /\ m.results # {} => k > 0 /\ chat.messages[k].uses = m.results) =>
                ResultsFollow(chat)' /\ ResultsFollow(saved)'
<1>1. chat \in Sessions /\ \A i \in DOMAIN chat.messages : chat.messages[i].uses \subseteq past'.asked
  BY DEF ChatInv, ChatTyped, AllAsked, WellAsked
<1>2. t.deleted = chat.deleted
  BY DEF Grows
<1>3. ~chat.deleted => \A i \in DOMAIN t.messages : t.messages[i].uses \subseteq past'.asked
  BY <1>1, GrownAsked
<1>4. ResultsFollow(chat)
        /\ (~chat.deleted /\ m.results # {} => k > 0 /\ chat.messages[k].uses = m.results) =>
          (~chat.deleted => ResultsFollow(t))
  BY <1>1, GrownFollows
<1>5. QED BY <1>2, <1>3, <1>4, SessionChanges

(* The only turn ends, and leaves nothing to resume. *)
LEMMA TurnEnds ==
  ASSUME ChatInv, ~past.overlapped, NEW l \in Running,
         DOMAIN loops' = DOMAIN loops, loops'[l] = NoLoop,
         \A m \in DOMAIN loops \ {l} : loops'[m] = loops[m],
         ~chat'.pending, ResultsFollow(chat)', ResultsFollow(saved)', ~past'.clobbered,
         past.asked \subseteq past'.asked, past'.ran = past.ran, past'.reloads = past.reloads
  PROVE  OneTurn'
<1>1. OneTurn /\ Running = {l}
  BY OnlyOne DEF ChatInv
<1>2. Running' = {}
  BY <1>1, ChatKinds DEF Running
<1>3. ASSUME NEW u \in Uses, MayRun(u)' PROVE MayRun(u)
  <2>1. \A m \in DOMAIN loops : DOMAIN loops'[m].base \subseteq DOMAIN loops[m].base
    BY ChatKinds
  <2>2. QED BY <1>3, <2>1 DEF MayRun, NeedsResume
<1>4. QED BY <1>1, <1>2, <1>3 DEF OneTurn

LEMMA FinishedIs ==
  ASSUME ChatTyped, NEW l \in DOMAIN loops, Finished(l)
  PROVE  /\ loops' \in Seq(Turns) /\ DOMAIN loops' = DOMAIN loops /\ Len(loops') = Len(loops)
         /\ sending' \in 0 .. Len(loops')
         /\ loops'[l] = NoLoop /\ \A m \in DOMAIN loops \ {l} : loops'[m] = loops[m]
<1>1. loops' = [loops EXCEPT ![l] = NoLoop] /\ (sending' = sending \/ sending' = 0)
  BY DEF Finished
<1>2. QED BY <1>1, ChatKinds, TurnSet

LEMMA FinishedCopies ==
  ASSUME CopiesCurrent, DOMAIN loops' = DOMAIN loops, NEW l \in DOMAIN loops, loops'[l] = NoLoop,
         \A m \in DOMAIN loops \ {l} : loops'[m] = loops[m], UNCHANGED <<doc, cache>>,
         past'.acked = past.acked, past'.made = past.made, past'.unseen = past.unseen,
         past'.crossed = past.crossed
  PROVE  CopiesCurrent'
<1>1. DOMAIN NoLoop.base = {}
  BY ChatKinds
<1>2. QED BY <1>1, CopiesKeep

LEMMA FinishedAsked ==
  ASSUME AllAsked, DOMAIN loops' = DOMAIN loops, NEW l \in DOMAIN loops, loops'[l] = NoLoop,
         \A m \in DOMAIN loops \ {l} : loops'[m] = loops[m],
         past.asked \subseteq past'.asked
  PROVE  \A m \in DOMAIN loops' : loops'[m].uses \subseteq past'.asked
<1>1. NoLoop.uses = {}
  BY DEF NoLoop
<1>2. QED BY <1>1 DEF AllAsked

LEMMA CallFailsKeeps ==
  ASSUME ChatInv, NEW l \in DOMAIN loops, CallFails(l)
  PROVE  ChatInv'
<1> DEFINE a == Appended(chat, Note)
           t == Pending(a, FALSE)
           n == Len(chat.messages)
<1>1. /\ loops[l].step = "call" /\ Becomes(t) /\ Finished(l)
      /\ UNCHANGED <<full, open, doc, cache, past>>
  BY DEF CallFails
<1>2. ChatTyped /\ chat \in Sessions /\ saved \in Sessions /\ past \in Pasts
  BY DEF ChatInv, ChatTyped
<1>3. Note \in Messages /\ Note.uses = {} /\ Note.results = {}
  BY MessageKinds
<1>4. t \in Sessions /\ ~t.pending /\ Grows(chat, t, n, Note)
  <2>1. Grows(chat, a, n, Note) /\ a \in Sessions
    BY <1>2, <1>3, AppendedGrows DEF Grows
  <2>2. t \in Sessions /\ t.messages = a.messages /\ t.deleted = a.deleted /\ t.pending = FALSE
    BY <2>1, PendingSame
  <2>3. QED BY <2>1, <2>2 DEF Grows
<1> HIDE DEF t
<1>5. /\ chat' \in Sessions /\ saved' \in Sessions /\ SavedAsShown'
      /\ WellAsked(chat)' /\ WellAsked(saved)'
      /\ chat.deleted => chat' = chat
      /\ ~chat.deleted => chat' = t /\ ~chat'.deleted
      /\ ResultsFollow(chat) /\ ResultsFollow(saved) =>
           ResultsFollow(chat)' /\ ResultsFollow(saved)'
  BY <1>1, <1>3, <1>4, GrownSession
<1>6. /\ loops' \in Seq(Turns) /\ DOMAIN loops' = DOMAIN loops
      /\ sending' \in 0 .. Len(loops')
      /\ loops'[l] = NoLoop /\ \A m \in DOMAIN loops \ {l} : loops'[m] = loops[m]
  BY <1>1, <1>2, FinishedIs
<1>7. ChatTyped'
  BY <1>1, <1>2, <1>5, <1>6 DEF ChatTyped
<1>8. AllAsked'
  <2>1. \A m \in DOMAIN loops' : loops'[m].uses \subseteq past'.asked
    BY <1>1, <1>6, FinishedAsked DEF ChatInv
  <2>2. QED BY <1>5, <2>1 DEF AllAsked
<1>9. CopiesCurrent'
  BY <1>1, <1>6, FinishedCopies DEF ChatInv
<1>10. ~chat'.pending
  <2>1. WellAsked(chat)
    BY DEF ChatInv, AllAsked
  <2>2. QED BY <1>4, <1>5, <2>1 DEF WellAsked
<1>11. ~past.overlapped => l \in Running /\ Running = {l} /\ Placed(l) /\ OneTurn
  <2>1. l \in Running /\ OneTurn
    BY <1>1 DEF Running, ChatInv
  <2>2. QED BY <2>1, OnlyOne
<1>12. OneTurn'
  <2> SUFFICES ASSUME ~past.overlapped PROVE OneTurn'
    BY <1>1 DEF OneTurn
  <2>1. ResultsFollow(chat) /\ ResultsFollow(saved) /\ ~past.clobbered
    BY <1>11 DEF OneTurn
  <2>2. QED BY <1>1, <1>5, <1>6, <1>10, <1>11, <2>1, TurnEnds
<1>13. NothingUnanswered'
  <2> SUFFICES ASSUME ~past.overlapped, ~past.spurned, ~past.odd, ~full
               PROVE  Answers(chat', chat'.pending)
    BY <1>1 DEF NothingUnanswered, Answers
  <2>1. Answers(chat, chat.pending) /\ chat.pending \in BOOLEAN
    BY <1>2 DEF ChatInv, NothingUnanswered, Sessions
  <2>2. CASE chat.deleted
    BY <1>5, <2>1, <2>2
  <2>3. CASE ~chat.deleted
    <3>1. ~Clobbers(chat)
      BY <1>1, <1>11 DEF Placed
    <3>2. n \in Nat /\ ~(n < n) /\ (n > 0 => chat.messages[n].uses = {})
      BY <1>2, <3>1, CallEnds, SessionFields
    <3>3. Answers(t, FALSE)
      BY <1>2, <1>3, <1>4, <2>1, <3>2, GrownAnswers
    <3>4. Answers(t, t.pending)
      BY <1>4, <3>3 DEF Answers
    <3>5. QED BY <1>5, <2>3, <3>4
  <2>4. QED BY <2>2, <2>3
<1> QED BY <1>5, <1>7, <1>8, <1>9, <1>12, <1>13 DEF ChatInv

(* A round's answers are appended, and the next call begins. *)
LEMMA NextRoundKeeps ==
  ASSUME ChatInv, NEW l \in DOMAIN loops, loops[l].step = "tools", DOMAIN loops[l].base = {},
         loops[l].round # MaxRounds, Becomes(Appended(chat, Results(loops[l].uses))),
         NextRound(l, loops[l]), UNCHANGED <<full, open, doc, cache, past>>
  PROVE  ChatInv'
<1> DEFINE uses == loops[l].uses
           m == Results(uses)
           t == Appended(chat, m)
           n == Len(chat.messages)
           r == [loops[l] EXCEPT !.step = "call", !.round = @ + 1]
<1>1. ChatTyped /\ chat \in Sessions /\ saved \in Sessions /\ past \in Pasts /\ n \in Nat
  BY SessionFields DEF ChatInv, ChatTyped
<1>2. /\ uses \in SUBSET Uses /\ m \in Messages /\ m.uses = {} /\ m.results = uses
      /\ m.role = "user"
  BY <1>1, TurnsTyped, MessageKinds
<1>3. t \in Sessions /\ Grows(chat, t, n, m) /\ t.pending = chat.pending
  BY <1>1, <1>2, AppendedGrows DEF Grows
<1> HIDE DEF t, m
<1>4. /\ chat' \in Sessions /\ saved' \in Sessions /\ SavedAsShown'
      /\ WellAsked(chat)' /\ WellAsked(saved)'
      /\ chat.deleted => chat' = chat
      /\ ~chat.deleted => chat' = t /\ ~chat'.deleted
      /\ ResultsFollow(chat) /\ ResultsFollow(saved)
           /\ (~chat.deleted /\ m.results # {} => n > 0 /\ chat.messages[n].uses = m.results) =>
             ResultsFollow(chat)' /\ ResultsFollow(saved)'
  BY <1>2, <1>3, GrownSession DEF t, m
<1>5. r \in Turns /\ r.base = loops[l].base /\ r.uses = uses /\ r.step = "call"
  <2>1. loops[l] \in Turns
    BY <1>1, TurnsTyped
  <2>2. loops[l].round + 1 \in 0 .. MaxRounds
    BY <2>1, ChatAssumption DEF Turns
  <2>3. QED BY <2>1, <2>2 DEF Turns
<1> HIDE DEF r
<1>6. /\ loops' \in Seq(Turns) /\ DOMAIN loops' = DOMAIN loops
      /\ sending' \in 0 .. Len(loops')
      /\ loops'[l] = IF chat.deleted THEN NoLoop ELSE r
      /\ \A k \in DOMAIN loops \ {l} : loops'[k] = loops[k]
  <2>1. CASE chat.deleted
    BY <1>1, <2>1, FinishedIs DEF NextRound
  <2>2. CASE ~chat.deleted
    <3>1. loops' = [loops EXCEPT ![l] = r] /\ sending' = sending
      BY <2>2 DEF NextRound, r
    <3>2. QED BY <1>1, <1>5, <2>2, <3>1, TurnSet
  <2>3. QED BY <2>1, <2>2
<1>7. ChatTyped'
  BY <1>1, <1>4, <1>6 DEF ChatTyped
<1>8. AllAsked'
  <2>1. AllAsked /\ NoLoop.uses = {}
    BY DEF ChatInv, NoLoop
  <2>2. \A k \in DOMAIN loops' : loops'[k].uses \subseteq past'.asked
    BY <1>5, <1>6, <2>1 DEF AllAsked
  <2>3. QED BY <1>4, <2>2 DEF AllAsked
<1>9. CopiesCurrent'
  <2>1. DOMAIN loops'[l].base = {}
    BY <1>5, <1>6, ChatKinds
  <2>2. QED BY <1>6, <2>1, CopiesKeep DEF ChatInv
<1>10. ~past.overlapped => l \in Running /\ Running = {l} /\ Placed(l) /\ OneTurn
  <2>1. l \in Running /\ OneTurn
    BY DEF Running, ChatInv
  <2>2. QED BY <2>1, OnlyOne
<1>11. ~past.overlapped /\ ~chat.deleted =>
         n > 0 /\ chat.messages[n].uses = uses /\ chat.messages[n].role = "assistant"
  BY <1>1, <1>10, Ends DEF Placed
<1>12. OneTurn'
  <2> SUFFICES ASSUME ~past.overlapped PROVE OneTurn'
    BY DEF OneTurn
  <2>1. ResultsFollow(chat) /\ ResultsFollow(saved) /\ ~past.clobbered
    BY <1>10 DEF OneTurn
  <2>2. ResultsFollow(chat)' /\ ResultsFollow(saved)'
    BY <1>2, <1>4, <1>11, <2>1
  <2>3. CASE chat.deleted
    <3>1. ~chat'.pending
      BY <1>4, <2>3 DEF ChatInv, AllAsked, WellAsked
    <3>2. QED BY <1>6, <1>10, <2>1, <2>2, <2>3, <3>1, TurnEnds
  <2>4. CASE ~chat.deleted
    <3>1. Running' = {l}
      BY <1>5, <1>6, <1>10, <2>4 DEF Running
    <3>2. ~Clobbers(t)
      <4>1. t.messages[Len(t.messages)] = m
        BY <1>3 DEF Grows
      <4>2. QED BY <1>2, <1>3, <4>1, Ends
    <3>3. chat'.pending
      BY <1>3, <1>4, <1>10, <2>4 DEF Placed
    <3>4. Placed(l)'
      <4>1. chat' = t /\ loops'[l].step = "call"
        BY <1>4, <1>5, <1>6, <2>4
      <4>2. ~Clobbers(chat)'
        BY <3>2, <4>1 DEF Clobbers, EndsWithAssistant
      <4>3. QED BY <3>3, <4>1, <4>2 DEF Placed
    <3>5. ASSUME NEW u \in Uses, MayRun(u)' PROVE MayRun(u)
      <4>1. \A k \in DOMAIN loops : loops'[k].base = loops[k].base
        BY <1>5, <1>6, <2>4
      <4>2. QED BY <1>6, <3>1, <3>5, <4>1 DEF MayRun
    <3>6. QED BY <1>10, <2>1, <2>2, <3>1, <3>4, <3>5 DEF OneTurn
  <2>5. QED BY <2>3, <2>4
<1>13. NothingUnanswered'
  <2> SUFFICES ASSUME ~past.overlapped, ~past.spurned, ~past.odd, ~full
               PROVE  Answers(chat', chat'.pending)
    BY DEF NothingUnanswered, Answers
  <2>1. Answers(chat, chat.pending) /\ chat.pending \in BOOLEAN
    BY <1>1 DEF ChatInv, NothingUnanswered, Sessions
  <2>2. CASE chat.deleted
    BY <1>4, <2>1, <2>2
  <2>3. CASE ~chat.deleted
    <3>1. ~(n < n) /\ chat.messages[n].uses = m.results
      BY <1>1, <1>2, <1>11, <2>3
    <3>2. Answers(t, chat.pending)
      BY <1>1, <1>2, <1>3, <2>1, <3>1, GrownAnswers
    <3>3. QED BY <1>3, <1>4, <2>3, <3>2
  <2>4. QED BY <2>2, <2>3
<1> QED BY <1>4, <1>7, <1>8, <1>9, <1>12, <1>13 DEF ChatInv

(* Or that was the last round. *)
LEMMA LastRoundKeeps ==
  ASSUME ChatInv, NEW l \in DOMAIN loops, loops[l].step = "tools", DOMAIN loops[l].base = {},
         Becomes(Pending(Appended(Appended(chat, Results(loops[l].uses)), Note), FALSE)),
         Finished(l), UNCHANGED <<full, open, doc, cache, past>>
  PROVE  ChatInv'
<1> DEFINE uses == loops[l].uses
           m == Results(uses)
           q == Appended(chat, m)
           a == Appended(q, Note)
           t == Pending(a, FALSE)
           n == Len(chat.messages)
<1>1. ChatTyped /\ chat \in Sessions /\ saved \in Sessions /\ past \in Pasts /\ n \in Nat
  BY SessionFields DEF ChatInv, ChatTyped
<1>2. /\ uses \in SUBSET Uses /\ m \in Messages /\ m.uses = {} /\ m.results = uses
      /\ Note \in Messages /\ Note.uses = {} /\ Note.results = {}
  BY <1>1, TurnsTyped, MessageKinds
<1>3. q \in Sessions /\ Grows(chat, q, n, m)
  BY <1>1, <1>2, AppendedGrows DEF Grows
<1> HIDE DEF q, m
<1>4. t \in Sessions /\ ~t.pending /\ Grows(q, t, Len(q.messages), Note)
  <2>1. Grows(q, a, Len(q.messages), Note) /\ a \in Sessions
    BY <1>2, <1>3, AppendedGrows DEF Grows
  <2>2. t \in Sessions /\ t.messages = a.messages /\ t.deleted = a.deleted /\ t.pending = FALSE
    BY <2>1, PendingSame
  <2>3. QED BY <2>1, <2>2 DEF Grows
<1>5. Becomes(t)
  BY DEF q, m
<1> HIDE DEF t
<1>6. /\ chat' \in Sessions /\ saved' \in Sessions /\ SavedAsShown'
      /\ WellAsked(chat)' /\ WellAsked(saved)'
      /\ chat.deleted => chat' = chat
      /\ ~chat.deleted => chat' = t /\ ~chat'.deleted
      /\ ResultsFollow(chat) /\ ResultsFollow(saved) /\ (~chat.deleted => ResultsFollow(t)) =>
           ResultsFollow(chat)' /\ ResultsFollow(saved)'
  <2>1. t.deleted = chat.deleted /\ q.deleted = chat.deleted
    BY <1>3, <1>4 DEF Grows
  <2>2. ASSUME ~chat.deleted
        PROVE  \A i \in DOMAIN t.messages : t.messages[i].uses \subseteq past.asked
    <3>1. \A i \in DOMAIN chat.messages : chat.messages[i].uses \subseteq past.asked
      BY DEF ChatInv, AllAsked, WellAsked
    <3>2. \A i \in DOMAIN q.messages : q.messages[i].uses \subseteq past.asked
      BY <1>1, <1>2, <1>3, <2>2, <3>1, GrownAsked
    <3>3. QED BY <1>2, <1>3, <1>4, <2>1, <2>2, <3>2, GrownAsked
  <2>3. QED BY <1>4, <1>5, <2>1, <2>2, SessionChanges
<1>7. /\ loops' \in Seq(Turns) /\ DOMAIN loops' = DOMAIN loops
      /\ sending' \in 0 .. Len(loops')
      /\ loops'[l] = NoLoop /\ \A k \in DOMAIN loops \ {l} : loops'[k] = loops[k]
  BY <1>1, FinishedIs
<1>8. ChatTyped'
  BY <1>1, <1>6, <1>7 DEF ChatTyped
<1>9. AllAsked'
  <2>1. \A k \in DOMAIN loops' : loops'[k].uses \subseteq past'.asked
    BY <1>7, FinishedAsked DEF ChatInv
  <2>2. QED BY <1>6, <2>1 DEF AllAsked
<1>10. CopiesCurrent'
  BY <1>7, FinishedCopies DEF ChatInv
<1>11. ~past.overlapped => l \in Running /\ Running = {l} /\ Placed(l) /\ OneTurn
  <2>1. l \in Running /\ OneTurn
    BY DEF Running, ChatInv
  <2>2. QED BY <2>1, OnlyOne
<1>12. ~past.overlapped /\ ~chat.deleted => n > 0 /\ chat.messages[n].uses = uses
  BY <1>1, <1>11, Ends DEF Placed
<1>13. OneTurn'
  <2> SUFFICES ASSUME ~past.overlapped PROVE OneTurn'
    BY DEF OneTurn
  <2>1. ResultsFollow(chat) /\ ResultsFollow(saved) /\ ~past.clobbered
    BY <1>11 DEF OneTurn
  <2>2. ASSUME ~chat.deleted PROVE ResultsFollow(t)
    <3>1. ResultsFollow(q)
      BY <1>1, <1>2, <1>3, <1>12, <2>1, <2>2, GrownFollows
    <3>2. QED BY <1>2, <1>3, <1>4, <3>1, GrownFollows
  <2>3. ~chat'.pending
    <3>1. WellAsked(chat)
      BY DEF ChatInv, AllAsked
    <3>2. QED BY <1>4, <1>6, <3>1 DEF WellAsked
  <2>4. QED BY <1>6, <1>7, <1>11, <2>1, <2>2, <2>3, TurnEnds
<1>14. NothingUnanswered'
  <2> SUFFICES ASSUME ~past.overlapped, ~past.spurned, ~past.odd, ~full
               PROVE  Answers(chat', chat'.pending)
    BY DEF NothingUnanswered, Answers
  <2>1. Answers(chat, chat.pending) /\ chat.pending \in BOOLEAN
    BY <1>1 DEF ChatInv, NothingUnanswered, Sessions
  <2>2. CASE chat.deleted
    BY <1>6, <2>1, <2>2
  <2>3. CASE ~chat.deleted
    <3>1. ~(n < n) /\ chat.messages[n].uses = m.results
      BY <1>1, <1>2, <1>12, <2>3
    <3>2. Answers(q, FALSE)
      BY <1>1, <1>2, <1>3, <2>1, <3>1, GrownAnswers
    <3>3. ~(Len(q.messages) < Len(q.messages)) /\ q.messages[Len(q.messages)].uses = {}
      BY <1>1, <1>2, <1>3 DEF Grows
    <3>4. Answers(t, FALSE)
      BY <1>2, <1>3, <1>4, <3>2, <3>3, GrownAnswers
    <3>5. Answers(t, t.pending)
      BY <1>4, <3>4 DEF Answers
    <3>6. QED BY <1>6, <2>3, <3>5
  <2>4. QED BY <2>2, <2>3
<1> QED BY <1>6, <1>8, <1>9, <1>10, <1>13, <1>14 DEF ChatInv

LEMMA ToolsDoneKeeps ==
  ASSUME ChatInv, NEW l \in DOMAIN loops, ToolsDone(l)
  PROVE  ChatInv'
<1>1. CASE loops[l].round = MaxRounds
  BY <1>1, LastRoundKeeps DEF ToolsDone
<1>2. CASE loops[l].round # MaxRounds
  BY <1>2, NextRoundKeeps DEF ToolsDone
<1>3. QED BY <1>1, <1>2

LEMMA ToolsBeginIs ==
  ASSUME ChatTyped, NEW r \in Turns, NEW uses \in SUBSET Uses
  PROVE  LET t == ToolsBegin(r, uses) IN
         /\ t \in Turns /\ t.step = "tools" /\ t.uses = uses
         /\ t.base = [u \in uses |-> cache] /\ DOMAIN t.base = uses
<1>1. cache \in Readings
  BY DEF ChatTyped
<1>2. [u \in uses |-> cache] \in [uses -> Readings]
  BY <1>1
<1>3. [u \in uses |-> cache] \in Bases
  BY <1>2 DEF Bases
<1>4. QED BY <1>3 DEF ToolsBegin, Turns

(* New calls have ids that no call had. *)
LEMMA FreshUses ==
  ASSUME past.asked \in SUBSET Uses,
         NEW uses \in {{}} \union {(Asked + 1) .. n : n \in Asked + 1 .. MaxUses}
  PROVE  uses \in SUBSET Uses /\ uses \intersect past.asked = {}
<1>1. MaxUses \in Nat /\ Uses \in SUBSET Nat /\ \A u \in Uses : 1 <= u /\ u <= MaxUses
  BY ChatAssumption DEF Uses
<1>2. Asked \in Nat /\ \A u \in past.asked : u <= Asked
  <2>1. CASE past.asked = {}
    BY <2>1 DEF Asked
  <2>2. CASE past.asked # {}
    <3>1. past.asked \in SUBSET Nat /\ \A u \in past.asked : u <= MaxUses
      BY <1>1
    <3>2. Max(past.asked) \in past.asked /\ \A u \in past.asked : u <= Max(past.asked)
      BY <1>1, <2>2, <3>1, MaxProperty
    <3>3. Asked = Max(past.asked)
      BY <2>2 DEF Asked
    <3>4. QED BY <3>1, <3>2, <3>3
  <2>3. QED BY <2>1, <2>2
<1>3. CASE uses = {}
  BY <1>3
<1>4. ASSUME NEW n \in Asked + 1 .. MaxUses, uses = (Asked + 1) .. n
      PROVE  uses \in SUBSET Uses /\ uses \intersect past.asked = {}
  <2>1. \A u \in uses : u \in Nat /\ Asked < u /\ u <= MaxUses
    BY <1>1, <1>2, <1>4
  <2>2. uses \subseteq Uses
    BY <1>1, <1>2, <2>1 DEF Uses
  <2>3. ASSUME NEW u \in uses, u \in past.asked PROVE FALSE
    BY <1>2, <2>1, <2>3
  <2>4. QED BY <2>2, <2>3
<1>5. QED BY <1>3, <1>4

(* What an answer does to the history. *)
AnswerPast(uses, stop) ==
  past' = [past EXCEPT !.clobbered = @ \/ (~chat.deleted /\ Clobbers(chat)),
                       !.asked = @ \union uses,
                       !.odd = @ \/ (uses # {} <=> stop # "tool_use")]

LEMMA AnswerPastIs ==
  ASSUME past \in Pasts, NEW uses \in SUBSET Uses, NEW stop, AnswerPast(uses, stop)
  PROVE  /\ past' \in Pasts /\ past'.overlapped = past.overlapped /\ past'.spurned = past.spurned
         /\ past'.crossed = past.crossed /\ past'.acked = past.acked /\ past'.ran = past.ran
         /\ past'.reloads = past.reloads /\ past'.made = past.made /\ past'.unseen = past.unseen
         /\ past'.asked = past.asked \union uses
         /\ past'.clobbered <=> past.clobbered \/ (~chat.deleted /\ Clobbers(chat))
         /\ past'.odd <=> past.odd \/ (uses # {} <=> stop # "tool_use")
<1> DEFINE c == past.clobbered \/ (~chat.deleted /\ Clobbers(chat))
           o == past.odd \/ (uses # {} <=> stop # "tool_use")
<1>1. c \in BOOLEAN /\ o \in BOOLEAN
  OBVIOUS
<1>2. past' = [past EXCEPT !.clobbered = c, !.asked = past.asked \union uses, !.odd = o]
  BY DEF AnswerPast
<1>3. past.asked \union uses \in SUBSET Uses
  BY PastFields
<1> HIDE DEF c, o
<1>4. /\ past' \in Pasts /\ past'.overlapped = past.overlapped /\ past'.spurned = past.spurned
      /\ past'.crossed = past.crossed /\ past'.acked = past.acked /\ past'.ran = past.ran
      /\ past'.reloads = past.reloads /\ past'.made = past.made /\ past'.unseen = past.unseen
      /\ past'.asked = past.asked \union uses /\ past'.clobbered = c /\ past'.odd = o
  BY <1>1, <1>2, <1>3 DEF Pasts
<1>5. QED BY <1>4 DEF c, o

(* What an answer makes of the session. *)
LEMMA AnswerGrows ==
  ASSUME ChatInv, NEW uses \in SUBSET Uses
  PROVE  LET n == Len(chat.messages)
             k == IF EndsWithAssistant(chat) THEN n - 1 ELSE n
             m == Message("assistant", uses, {}, TRUE)
             session == Finalized(chat, uses)
         IN /\ chat \in Sessions /\ m \in Messages /\ m.uses = uses /\ m.results = {}
            /\ m.role = "assistant" /\ m.done
            /\ session \in Sessions /\ session.pending = chat.pending
            /\ Grows(chat, session, k, m) /\ n \in Nat /\ k \in Nat
            /\ k < n => chat.messages[n].role = "assistant" /\ k + 1 = n
            /\ Clobbers(session) /\ Last(session.messages).uses = uses
<1> DEFINE n == Len(chat.messages)
           k == IF EndsWithAssistant(chat) THEN n - 1 ELSE n
           m == Message("assistant", uses, {}, TRUE)
           session == Finalized(chat, uses)
<1>1. /\ chat \in Sessions /\ n \in Nat
      /\ m \in Messages /\ m.uses = uses /\ m.results = {} /\ m.role = "assistant" /\ m.done
  BY MessageKinds, SessionFields DEF ChatInv, ChatTyped, Message
<1>2. Grows(chat, session, k, m) /\ session.pending = chat.pending
  BY <1>1, FinalizedGrows
<1>3. session \in Sessions /\ k \in Nat /\ Len(session.messages) = k + 1
      /\ session.messages[Len(session.messages)] = m
  BY <1>2 DEF Grows
<1>4. k < n => chat.messages[n].role = "assistant" /\ k + 1 = n
  BY <1>1, Ends
<1> HIDE DEF m, session, k
<1>5. Clobbers(session) /\ Last(session.messages).uses = uses
  <2>1. Len(session.messages) > 0
    BY <1>3
  <2>2. QED BY <1>1, <1>3, <2>1, Ends
<1> QED BY <1>1, <1>2, <1>3, <1>4, <1>5 DEF m, session, k

(* The model stops for its tools, which all begin. *)
LEMMA ToolsCalledKeeps ==
  ASSUME ChatInv, NEW l \in DOMAIN loops, loops[l].step = "call",
         NEW uses \in SUBSET Uses, uses \intersect past.asked = {}, AnswerPast(uses, "tool_use"),
         Becomes(Finalized(chat, uses)),
         loops' = [loops EXCEPT ![l] = ToolsBegin(@, uses)],
         UNCHANGED <<full, open, sending, doc, cache>>
  PROVE  ChatInv'
<1> DEFINE n == Len(chat.messages)
           k == IF EndsWithAssistant(chat) THEN n - 1 ELSE n
           m == Message("assistant", uses, {}, TRUE)
           t == Finalized(chat, uses)
           r == ToolsBegin(loops[l], uses)
<1>1. ChatTyped /\ chat \in Sessions /\ saved \in Sessions /\ past \in Pasts
  BY DEF ChatInv, ChatTyped
<1>2. /\ m \in Messages /\ m.uses = uses /\ m.results = {}
      /\ t \in Sessions /\ t.pending = chat.pending
      /\ Grows(chat, t, k, m) /\ n \in Nat /\ k \in Nat
      /\ k < n => chat.messages[n].role = "assistant" /\ k + 1 = n
      /\ Clobbers(t) /\ Last(t.messages).uses = uses
  BY AnswerGrows
<1>3. /\ past' \in Pasts /\ past'.overlapped = past.overlapped /\ past'.spurned = past.spurned
      /\ past'.crossed = past.crossed /\ past'.acked = past.acked /\ past'.ran = past.ran
      /\ past'.reloads = past.reloads /\ past'.made = past.made /\ past'.unseen = past.unseen
      /\ past'.asked = past.asked \union uses
      /\ past'.clobbered <=> past.clobbered \/ (~chat.deleted /\ Clobbers(chat))
      /\ past'.odd <=> past.odd \/ uses = {}
  BY <1>1, AnswerPastIs
<1>4. /\ r \in Turns /\ r.step = "tools" /\ r.uses = uses /\ DOMAIN r.base = uses
      /\ r.base = [u \in uses |-> cache]
  BY <1>1, TurnsTyped, ToolsBeginIs
<1>5. loops' = [loops EXCEPT ![l] = r] /\ Becomes(t)
  OBVIOUS
<1> HIDE DEF t, m, r, k
<1>6. /\ chat' \in Sessions /\ saved' \in Sessions /\ SavedAsShown'
      /\ WellAsked(chat)' /\ WellAsked(saved)'
      /\ chat.deleted => chat' = chat
      /\ ~chat.deleted => chat' = t /\ ~chat'.deleted
      /\ ResultsFollow(chat) /\ ResultsFollow(saved) =>
           ResultsFollow(chat)' /\ ResultsFollow(saved)'
  BY <1>2, <1>3, <1>5, GrownSession
<1>7. /\ loops' \in Seq(Turns) /\ DOMAIN loops' = DOMAIN loops
      /\ sending' \in 0 .. Len(loops') /\ loops'[l] = r
      /\ \A j \in DOMAIN loops \ {l} : loops'[j] = loops[j]
  BY <1>1, <1>4, <1>5, TurnSet
<1>8. ChatTyped'
  BY <1>1, <1>3, <1>6, <1>7 DEF ChatTyped
<1>9. AllAsked'
  <2>1. \A j \in DOMAIN loops' : loops'[j].uses \subseteq past'.asked
    BY <1>3, <1>4, <1>7 DEF ChatInv, AllAsked
  <2>2. QED BY <1>6, <2>1 DEF AllAsked
<1>10. CopiesCurrent'
  <2>1. \A u \in DOMAIN loops'[l].base : loops'[l].base[u] = cache
    BY <1>4, <1>7
  <2>2. QED BY <1>3, <1>7, <2>1, CopiesKeep DEF ChatInv
<1>11. ~past.overlapped => l \in Running /\ Running = {l} /\ Placed(l) /\ OneTurn
  <2>1. l \in Running /\ OneTurn
    BY DEF Running, ChatInv
  <2>2. QED BY <2>1, OnlyOne
<1>12. OneTurn'
  <2> SUFFICES ASSUME ~past.overlapped PROVE OneTurn'
    BY <1>3 DEF OneTurn
  <2>1. ResultsFollow(chat) /\ ResultsFollow(saved) /\ ~past.clobbered
    BY <1>11 DEF OneTurn
  <2>2. ResultsFollow(chat)' /\ ResultsFollow(saved)'
    BY <1>6, <2>1
  <2>3. ~Clobbers(chat) /\ (chat.pending \/ chat.deleted)
    BY <1>11 DEF Placed
  <2>4. ~past'.clobbered
    BY <1>3, <2>1, <2>3
  <2>5. Running' = {l}
    BY <1>4, <1>7, <1>11 DEF Running
  <2>6. Placed(l)'
    <3>1. CASE chat.deleted
      <4>1. chat' = chat /\ loops'[l].step = "tools"
        BY <1>4, <1>6, <1>7, <3>1
      <4>2. QED BY <3>1, <4>1 DEF Placed
    <3>2. CASE ~chat.deleted
      <4>1. chat' = t /\ loops'[l].uses = uses /\ loops'[l].step = "tools"
        BY <1>4, <1>6, <1>7, <3>2
      <4>2. Clobbers(chat)' /\ Last(chat'.messages).uses = uses
        BY <1>2, <4>1 DEF Clobbers, EndsWithAssistant
      <4>3. chat'.pending
        BY <1>2, <2>3, <3>2, <4>1
      <4>4. QED BY <4>1, <4>2, <4>3 DEF Placed
    <3>3. QED BY <3>1, <3>2
  <2>7. ASSUME NEW u \in Uses, MayRun(u)' PROVE MayRun(u)
    <3>1. u \notin past'.asked \/ \E j \in DOMAIN loops' : u \in DOMAIN loops'[j].base
      BY <2>5, <2>7 DEF MayRun
    <3>2. CASE u \notin past'.asked
      BY <1>3, <3>2 DEF MayRun
    <3>3. ASSUME NEW j \in DOMAIN loops', u \in DOMAIN loops'[j].base PROVE MayRun(u)
      <4>1. CASE j = l
        BY <1>4, <1>7, <3>3, <4>1 DEF MayRun
      <4>2. CASE j # l
        BY <1>7, <3>3, <4>2 DEF MayRun
      <4>3. QED BY <4>1, <4>2
    <3>4. QED BY <3>1, <3>2, <3>3
  <2>8. QED BY <1>3, <1>11, <2>2, <2>4, <2>5, <2>6, <2>7 DEF OneTurn
<1>13. NothingUnanswered'
  <2> SUFFICES ASSUME ~past.overlapped, ~past.spurned, ~past.odd, ~full
               PROVE  Answers(chat', chat'.pending)
    BY <1>3 DEF NothingUnanswered, Answers
  <2>1. Answers(chat, chat.pending) /\ chat.pending \in BOOLEAN
    BY <1>1 DEF ChatInv, NothingUnanswered, Sessions
  <2>2. CASE chat.deleted
    BY <1>6, <2>1, <2>2
  <2>3. CASE ~chat.deleted
    <3>1. ~Clobbers(chat) /\ chat.pending
      BY <1>11, <2>3 DEF Placed
    <3>2. k = n /\ k > 0 => chat.messages[k].uses = {}
      BY <1>1, <3>1, CallEnds
    <3>3. Answers(t, chat.pending)
      BY <1>1, <1>2, <2>1, <3>1, <3>2, GrownAnswers
    <3>4. QED BY <1>2, <1>6, <2>3, <3>3
  <2>4. QED BY <2>2, <2>3
<1> QED BY <1>6, <1>8, <1>9, <1>10, <1>12, <1>13 DEF ChatInv

(* Or it ends the turn, out of tokens or not. *)
LEMMA AnsweredKeeps ==
  ASSUME ChatInv, NEW l \in DOMAIN loops, loops[l].step = "call",
         NEW uses \in SUBSET Uses, NEW stop, stop # "tool_use", AnswerPast(uses, stop),
         NEW a, a \in {Finalized(chat, uses), Appended(Finalized(chat, uses), Note)},
         Becomes(Pending(a, FALSE)), Finished(l),
         UNCHANGED <<full, open, doc, cache>>
  PROVE  ChatInv'
<1> DEFINE n == Len(chat.messages)
           k == IF EndsWithAssistant(chat) THEN n - 1 ELSE n
           m == Message("assistant", uses, {}, TRUE)
           q == Finalized(chat, uses)
           t == Pending(a, FALSE)
<1>1. ChatTyped /\ chat \in Sessions /\ saved \in Sessions /\ past \in Pasts
  BY DEF ChatInv, ChatTyped
<1>2. /\ m \in Messages /\ m.uses = uses /\ m.results = {}
      /\ q \in Sessions
      /\ Grows(chat, q, k, m) /\ n \in Nat /\ k \in Nat
      /\ k < n => chat.messages[n].role = "assistant" /\ k + 1 = n
  BY AnswerGrows
<1>3. /\ past' \in Pasts /\ past'.overlapped = past.overlapped /\ past'.spurned = past.spurned
      /\ past'.crossed = past.crossed /\ past'.acked = past.acked /\ past'.ran = past.ran
      /\ past'.reloads = past.reloads /\ past'.made = past.made /\ past'.unseen = past.unseen
      /\ past'.asked = past.asked \union uses
      /\ past'.clobbered <=> past.clobbered \/ (~chat.deleted /\ Clobbers(chat))
      /\ past'.odd <=> past.odd \/ uses # {}
  BY <1>1, AnswerPastIs
<1>4. a \in Sessions /\ (a = q \/ Grows(q, a, Len(q.messages), Note))
  <2> DEFINE b == Appended(q, Note)
  <2>1. a = q \/ a = b
    OBVIOUS
  <2> HIDE DEF q
  <2>2. Grows(q, b, Len(q.messages), Note)
    BY <1>2, MessageKinds, AppendedGrows
  <2> HIDE DEF b
  <2>3. b \in Sessions
    BY <2>2 DEF Grows
  <2>4. QED BY <1>2, <2>1, <2>2, <2>3
<1>5. /\ t \in Sessions /\ ~t.pending /\ t.messages = a.messages /\ t.deleted = a.deleted
      /\ Becomes(t)
  BY <1>4, PendingSame
<1>6. t.messages = q.messages \/ Grows(q, t, Len(q.messages), Note)
  <2>1. CASE a = q
    BY <1>5, <2>1
  <2>2. CASE Grows(q, a, Len(q.messages), Note)
    <3> HIDE DEF t, q
    <3>1. QED BY <1>5, <2>2 DEF Grows
  <2>3. QED BY <1>4, <2>1, <2>2
<1>7. t.deleted = chat.deleted
  BY <1>2, <1>4, <1>5 DEF Grows
<1>8. Note \in Messages /\ Note.uses = {} /\ Note.results = {}
  BY MessageKinds
<1> HIDE DEF t, m, q, k
<1>9. /\ chat' \in Sessions /\ saved' \in Sessions /\ SavedAsShown'
      /\ WellAsked(chat)' /\ WellAsked(saved)'
      /\ chat.deleted => chat' = chat
      /\ ~chat.deleted => chat' = t /\ ~chat'.deleted
      /\ ResultsFollow(chat) /\ ResultsFollow(saved) =>
           ResultsFollow(chat)' /\ ResultsFollow(saved)'
  <2>1. \A i \in DOMAIN t.messages : t.messages[i].uses \subseteq past'.asked
    <3>1. \A i \in DOMAIN chat.messages : chat.messages[i].uses \subseteq past'.asked
      BY <1>3 DEF ChatInv, AllAsked, WellAsked
    <3>2. \A i \in DOMAIN q.messages : q.messages[i].uses \subseteq past'.asked
      BY <1>1, <1>2, <1>3, <3>1, GrownAsked
    <3>3. CASE t.messages = q.messages
      BY <3>2, <3>3
    <3>4. CASE Grows(q, t, Len(q.messages), Note)
      BY <1>2, <1>5, <1>8, <3>2, <3>4, GrownAsked
    <3>5. QED BY <1>6, <3>3, <3>4
  <2>2. ASSUME ResultsFollow(chat) PROVE ResultsFollow(t)
    <3>1. ResultsFollow(q)
      BY <1>1, <1>2, <2>2, GrownFollows
    <3>2. CASE t.messages = q.messages
      BY <3>1, <3>2 DEF ResultsFollow
    <3>3. CASE Grows(q, t, Len(q.messages), Note)
      BY <1>2, <1>5, <1>8, <3>1, <3>3, GrownFollows
    <3>4. QED BY <1>6, <3>2, <3>3
  <2>3. QED BY <1>3, <1>5, <1>7, <2>1, <2>2, SessionChanges
<1>10. /\ loops' \in Seq(Turns) /\ DOMAIN loops' = DOMAIN loops
       /\ sending' \in 0 .. Len(loops')
       /\ loops'[l] = NoLoop /\ \A j \in DOMAIN loops \ {l} : loops'[j] = loops[j]
  BY <1>1, FinishedIs
<1>11. ChatTyped'
  BY <1>1, <1>3, <1>9, <1>10 DEF ChatTyped
<1>12. AllAsked'
  <2>1. \A j \in DOMAIN loops' : loops'[j].uses \subseteq past'.asked
    BY <1>3, <1>10, FinishedAsked DEF ChatInv
  <2>2. QED BY <1>9, <2>1 DEF AllAsked
<1>13. CopiesCurrent'
  BY <1>3, <1>10, FinishedCopies DEF ChatInv
<1>14. ~past.overlapped => l \in Running /\ Running = {l} /\ Placed(l) /\ OneTurn
  <2>1. l \in Running /\ OneTurn
    BY DEF Running, ChatInv
  <2>2. QED BY <2>1, OnlyOne
<1>15. OneTurn'
  <2> SUFFICES ASSUME ~past.overlapped PROVE OneTurn'
    BY <1>3 DEF OneTurn
  <2>1. ResultsFollow(chat) /\ ResultsFollow(saved) /\ ~past.clobbered
    BY <1>14 DEF OneTurn
  <2>2. ~Clobbers(chat)
    BY <1>14 DEF Placed
  <2>3. ~past'.clobbered
    BY <1>3, <2>1, <2>2
  <2>4. ~chat'.pending
    <3>1. WellAsked(chat)
      BY DEF ChatInv, AllAsked
    <3>2. QED BY <1>5, <1>9, <3>1 DEF WellAsked
  <2>5. past.asked \subseteq past'.asked
    BY <1>3
  <2>6. QED BY <1>3, <1>9, <1>10, <1>14, <2>1, <2>3, <2>4, <2>5, TurnEnds
<1>16. NothingUnanswered'
  <2> SUFFICES ASSUME ~past.overlapped, ~past.spurned, ~past'.odd, ~full
               PROVE  Answers(chat', chat'.pending)
    BY <1>3 DEF NothingUnanswered, Answers
  <2>1. Answers(chat, chat.pending) /\ chat.pending \in BOOLEAN /\ uses = {}
    BY <1>1, <1>3 DEF ChatInv, NothingUnanswered, Sessions
  <2>2. CASE chat.deleted
    BY <1>9, <2>1, <2>2
  <2>3. CASE ~chat.deleted
    <3>1. ~Clobbers(chat)
      BY <1>14 DEF Placed
    <3>2. k = n /\ k > 0 => chat.messages[k].uses = {}
      BY <1>1, <3>1, CallEnds
    <3>3. Answers(q, FALSE)
      BY <1>1, <1>2, <2>1, <3>2, GrownAnswers
    <3>4. Answers(t, FALSE)
      <4>1. CASE t.messages = q.messages
        BY <3>3, <4>1 DEF Answers
      <4>2. CASE Grows(q, t, Len(q.messages), Note)
        <5>1. Len(q.messages) \in Nat /\ Len(q.messages) = k + 1 /\ q.messages[k + 1] = m
          BY <1>2, SessionFields DEF Grows
        <5>2. ~(Len(q.messages) < Len(q.messages))
          BY <5>1
        <5>3. q.messages[Len(q.messages)].uses = {}
          BY <1>2, <2>1, <5>1
        <5>4. QED BY <1>2, <1>5, <1>8, <3>3, <4>2, <5>2, <5>3, GrownAnswers
      <4>3. QED BY <1>6, <4>1, <4>2
    <3>5. Answers(t, t.pending)
      BY <1>5, <3>4 DEF Answers
    <3>6. QED BY <1>9, <2>3, <3>5
  <2>4. QED BY <2>2, <2>3
<1> QED BY <1>9, <1>11, <1>12, <1>13, <1>15, <1>16 DEF ChatInv

LEMMA AnswerKeeps ==
  ASSUME ChatInv, NEW l \in DOMAIN loops, Answer(l)
  PROVE  ChatInv'
<1>1. PICK uses \in {{}} \union {(Asked + 1) .. n : n \in Asked + 1 .. MaxUses},
           stop \in {"tool_use", "end_turn", "max_tokens"} :
        LET session == Finalized(chat, uses) IN
        /\ loops[l].step = "call"
        /\ AnswerPast(uses, stop)
        /\ \/ /\ stop = "tool_use"
              /\ Becomes(session)
              /\ loops' = [loops EXCEPT ![l] = ToolsBegin(@, uses)] /\ UNCHANGED sending
           \/ /\ stop # "tool_use"
              /\ Becomes(Pending(IF stop = "max_tokens" THEN Appended(session, Note) ELSE session, FALSE))
              /\ Finished(l)
        /\ UNCHANGED <<full, open, doc, cache>>
  BY DEF Answer, AnswerPast
<1>2. uses \in SUBSET Uses /\ uses \intersect past.asked = {}
  <2>1. past.asked \in SUBSET Uses
    BY PastFields DEF ChatInv, ChatTyped
  <2>2. QED BY <1>1, <2>1, FreshUses
<1>3. CASE stop = "tool_use"
  BY <1>1, <1>2, <1>3, ToolsCalledKeeps
<1>4. CASE stop # "tool_use"
  <2> DEFINE a == IF stop = "max_tokens" THEN Appended(Finalized(chat, uses), Note)
                  ELSE Finalized(chat, uses)
  <2>1. a \in {Finalized(chat, uses), Appended(Finalized(chat, uses), Note)}
    OBVIOUS
  <2>2. Becomes(Pending(a, FALSE)) /\ Finished(l)
    BY <1>1, <1>4
  <2> HIDE DEF a
  <2>3. QED BY <1>1, <1>2, <1>4, <2>1, <2>2, AnsweredKeeps
<1>5. QED BY <1>3, <1>4

(* A text of the user's, or a turn that goes on. *)
Begun(s) ==
  \/ s = chat /\ NeedsResume
  \/ Grows(chat, s, Len(chat.messages), UserText)

(* Turns that have not begun, or whose tools have, in the history. *)
SendPast ==
  /\ past' \in Pasts /\ past'.odd = past.odd /\ past'.clobbered = past.clobbered
  /\ past'.crossed = past.crossed /\ past'.asked = past.asked /\ past'.acked = past.acked
  /\ past'.ran = past.ran /\ past'.reloads = past.reloads /\ past'.made = past.made
  /\ past'.unseen = past.unseen
  /\ past'.overlapped <=> past.overlapped \/ Running # {}
  /\ past.spurned => past'.spurned

LEMMA BegunSession ==
  ASSUME ChatInv, NEW s \in Sessions, Begun(s)
  PROVE  /\ s.deleted = chat.deleted
         /\ \A i \in DOMAIN s.messages : s.messages[i].uses \subseteq past.asked
         /\ ResultsFollow(chat) => ResultsFollow(s)
         /\ ~past.overlapped /\ ~past.spurned /\ ~past.odd /\ ~full /\ (s = chat \/ ~NeedsResume) =>
              Answers(s, TRUE)
         /\ (s = chat /\ NeedsResume) \/ (~Clobbers(s) /\ PendingUses(s) = {})
<1> DEFINE n == Len(chat.messages)
<1>1. /\ chat \in Sessions /\ n \in Nat /\ chat.pending \in BOOLEAN
      /\ \A i \in DOMAIN chat.messages : chat.messages[i].uses \subseteq past.asked
  BY SessionFields DEF ChatInv, ChatTyped, AllAsked, WellAsked
<1>2. ~past.overlapped /\ ~past.spurned /\ ~past.odd /\ ~full => Answers(chat, chat.pending)
  BY DEF ChatInv, NothingUnanswered
<1>3. CASE s = chat /\ NeedsResume
  <2>1. chat.pending = TRUE
    BY <1>1, <1>3 DEF NeedsResume
  <2>2. Answers(chat, chat.pending) => Answers(chat, TRUE)
    BY <2>1
  <2>3. QED BY <1>1, <1>2, <1>3, <2>2
<1>4. CASE Grows(chat, s, n, UserText)
  <2>1. /\ UserText \in Messages /\ UserText.role = "user" /\ UserText.uses = {}
        /\ UserText.results = {}
    BY MessageKinds
  <2>2. \A i \in DOMAIN s.messages : s.messages[i].uses \subseteq past.asked
    BY <1>1, <1>4, <2>1, GrownAsked
  <2>3. ResultsFollow(chat) => ResultsFollow(s)
    BY <1>1, <1>4, <2>1, GrownFollows
  <2>4. ~Clobbers(s) /\ PendingUses(s) = {}
    <3>1. s.messages[Len(s.messages)] = UserText
      BY <1>4 DEF Grows
    <3>2. QED BY <2>1, <3>1, Ends
  <2>5. ASSUME ~past.overlapped, ~past.spurned, ~past.odd, ~full, ~NeedsResume
        PROVE  Answers(s, TRUE)
    <3>1. Answers(chat, chat.pending)
      BY <1>2, <2>5
    <3>2. ~(n < n)
      BY <1>1
    <3>3. n > 0 => chat.messages[n].uses = {}
      <4>1. SUFFICES ASSUME n > 0, chat.messages[n].uses # {} PROVE FALSE
        OBVIOUS
      <4>2. n \in DOMAIN chat.messages
        BY <1>1, <4>1, SessionFields
      <4>3. chat.pending
        BY <3>1, <3>2, <4>1, <4>2 DEF Answers
      <4>4. PendingUses(chat) # {}
        BY <1>1, <4>1, Ends
      <4>5. QED BY <2>5, <4>3, <4>4 DEF NeedsResume
    <3>4. Answers(s, FALSE)
      BY <1>1, <1>4, <2>1, <3>1, <3>2, <3>3, GrownAnswers
    <3>5. QED BY <3>4 DEF Answers
  <2>7. ~past.overlapped /\ ~past.spurned /\ ~past.odd /\ ~full /\ (s = chat \/ ~NeedsResume) =>
          Answers(s, TRUE)
    <3>1. s # chat
      BY <1>1, <1>4 DEF Grows
    <3>2. QED BY <2>5, <3>1
  <2>8. s.deleted = chat.deleted
    BY <1>4 DEF Grows
  <2>9. QED BY <2>2, <2>3, <2>4, <2>7, <2>8
<1>5. QED BY <1>3, <1>4 DEF Begun

LEMMA TurnAppended ==
  ASSUME ChatTyped, NEW r \in Turns, loops' = Append(loops, r), NEW l, l = Len(loops) + 1
  PROVE  /\ loops' \in Seq(Turns) /\ DOMAIN loops' = DOMAIN loops \union {l} /\ Len(loops') = l
         /\ l \notin DOMAIN loops /\ Len(loops) \in Nat
         /\ 0 .. Len(loops) \subseteq 0 .. Len(loops') /\ l \in 0 .. Len(loops')
         /\ loops'[l] = r /\ \A j \in DOMAIN loops : loops'[j] = loops[j]
<1>1. loops \in Seq(Turns) /\ Len(loops) \in Nat /\ DOMAIN loops = 1 .. Len(loops)
  BY DEF ChatTyped
<1>2. /\ loops' \in Seq(Turns) /\ Len(loops') = Len(loops) + 1
      /\ \A i \in 1 .. Len(loops) : loops'[i] = loops[i]
      /\ loops'[Len(loops) + 1] = r
  BY <1>1, AppendProperties
<1>3. DOMAIN loops' = 1 .. Len(loops) + 1
  BY <1>2
<1>4. QED BY <1>1, <1>2, <1>3

(* The turn that LoopBegins begins. *)
Starts(s) ==
  LET fresh == [NoLoop EXCEPT !.step = "call", !.round = 1] IN
  IF PendingUses(s) = {} THEN fresh
  ELSE ToolsBegin([fresh EXCEPT !.round = 0], PendingUses(s))

LEMMA StartsIs ==
  ASSUME ChatTyped, NEW s \in Sessions
  PROVE  LET r == Starts(s) IN
         /\ r \in Turns
         /\ PendingUses(s) = {} => r.step = "call" /\ r.uses = {} /\ DOMAIN r.base = {}
         /\ PendingUses(s) # {} => r.step = "tools" /\ r.uses = PendingUses(s)
                                   /\ r.base = [u \in r.uses |-> cache]
<1> DEFINE fresh == [NoLoop EXCEPT !.step = "call", !.round = 1]
           zero == [fresh EXCEPT !.round = 0]
<1>1. NoLoop \in Turns /\ NoLoop.base = <<>> /\ NoLoop.uses = {} /\ DOMAIN <<>> = {}
  BY ChatKinds DEF NoLoop
<1>2. 0 \in 0 .. MaxRounds /\ 1 \in 0 .. MaxRounds
  BY ChatAssumption
<1>3. /\ fresh \in Turns /\ fresh.step = "call" /\ fresh.uses = {} /\ DOMAIN fresh.base = {}
  BY <1>1, <1>2 DEF Turns
<1>4. zero \in Turns
  BY <1>2, <1>3 DEF Turns
<1> HIDE DEF zero
<1>5. PendingUses(s) \in SUBSET Uses
  BY Ends
<1> DEFINE p == PendingUses(s)
           t == ToolsBegin(zero, p)
<1>6. t \in Turns /\ t.step = "tools" /\ t.uses = p /\ t.base = [u \in p |-> cache]
  BY <1>4, <1>5, ToolsBeginIs
<1>7. Starts(s) = IF p = {} THEN fresh ELSE t
  BY DEF Starts, zero
<1> HIDE DEF t, fresh, p
<1>8. QED BY <1>3, <1>6, <1>7 DEF p

LEMMA BeginsKeep ==
  ASSUME ChatInv, ~chat.deleted, NEW s \in Sessions, Begun(s), LoopBegins(s), SendPast,
         s # chat /\ NeedsResume => past'.spurned,
         UNCHANGED <<full, open, doc, cache>>
  PROVE  ChatInv'
<1> DEFINE t == Pending(s, TRUE)
           r == Starts(s)
<1> PICK l : l = Len(loops) + 1
  OBVIOUS
<1>1. ChatTyped /\ chat \in Sessions /\ saved \in Sessions /\ past \in Pasts
  BY DEF ChatInv, ChatTyped
<1>2. /\ s.deleted = chat.deleted
      /\ \A i \in DOMAIN s.messages : s.messages[i].uses \subseteq past.asked
      /\ ResultsFollow(chat) => ResultsFollow(s)
      /\ ~past.overlapped /\ ~past.spurned /\ ~past.odd /\ ~full /\ (s = chat \/ ~NeedsResume) =>
           Answers(s, TRUE)
      /\ (s = chat /\ NeedsResume) \/ (~Clobbers(s) /\ PendingUses(s) = {})
  BY BegunSession
<1>3. t \in Sessions /\ t.messages = s.messages /\ t.deleted = s.deleted /\ t.pending = TRUE
  BY PendingSame
<1>4. Becomes(t) /\ loops' = Append(loops, r) /\ sending' = l
  BY DEF LoopBegins, Starts
<1>5. /\ r \in Turns
      /\ PendingUses(s) = {} => r.step = "call" /\ r.uses = {} /\ DOMAIN r.base = {}
      /\ PendingUses(s) # {} => r.step = "tools" /\ r.uses = PendingUses(s)
                                /\ r.base = [u \in r.uses |-> cache]
  BY <1>1, StartsIs
<1> HIDE DEF t, r
<1>6. /\ loops' \in Seq(Turns) /\ DOMAIN loops' = DOMAIN loops \union {l}
      /\ l \notin DOMAIN loops /\ sending' \in 0 .. Len(loops')
      /\ loops'[l] = r /\ \A j \in DOMAIN loops : loops'[j] = loops[j]
  BY <1>1, <1>4, <1>5, TurnAppended
<1>7. /\ past' \in Pasts /\ past'.odd = past.odd /\ past'.clobbered = past.clobbered
      /\ past'.crossed = past.crossed /\ past'.asked = past.asked /\ past'.acked = past.acked
      /\ past'.ran = past.ran /\ past'.reloads = past.reloads /\ past'.made = past.made
      /\ past'.unseen = past.unseen
      /\ past'.overlapped <=> past.overlapped \/ Running # {}
      /\ past.spurned => past'.spurned
  BY DEF SendPast
<1>8. /\ chat' \in Sessions /\ saved' \in Sessions /\ SavedAsShown'
      /\ WellAsked(chat)' /\ WellAsked(saved)'
      /\ chat' = t
      /\ ResultsFollow(chat) /\ ResultsFollow(saved) =>
           ResultsFollow(chat)' /\ ResultsFollow(saved)'
  <2>1. \A i \in DOMAIN t.messages : t.messages[i].uses \subseteq past'.asked
    BY <1>2, <1>3, <1>7
  <2>2. ResultsFollow(s) => ResultsFollow(t)
    BY <1>3 DEF ResultsFollow
  <2>3. t.deleted = chat.deleted /\ past.asked \subseteq past'.asked
    BY <1>2, <1>3, <1>7
  <2>4. QED BY <1>2, <1>3, <1>4, <2>1, <2>2, <2>3, SessionChanges
<1>9. ChatTyped'
  BY <1>1, <1>6, <1>7, <1>8 DEF ChatTyped
<1>10. PendingUses(s) \subseteq past.asked
  <2>1. CASE Len(s.messages) > 0
    <3>1. Len(s.messages) \in DOMAIN s.messages
      BY <2>1, SessionFields
    <3>2. QED BY <1>2, <2>1, <3>1, Ends
  <2>2. CASE ~(Len(s.messages) > 0)
    BY <2>2, Ends
  <2>3. QED BY <2>1, <2>2
<1>11. AllAsked'
  <2>1. r.uses \subseteq past.asked
    BY <1>5, <1>10
  <2>2. \A j \in DOMAIN loops' : loops'[j].uses \subseteq past'.asked
    BY <1>6, <1>7, <2>1 DEF ChatInv, AllAsked
  <2>3. QED BY <1>8, <2>2 DEF AllAsked
<1>12. CopiesCurrent'
  <2>1. \A u \in DOMAIN loops'[l].base : loops'[l].base[u] = cache
    BY <1>5, <1>6
  <2>2. \A j \in DOMAIN loops' : \A u \in DOMAIN loops'[j].base :
          \/ loops'[j].base[u] = cache
          \/ j \in DOMAIN loops /\ u \in DOMAIN loops[j].base /\ loops'[j].base[u] = loops[j].base[u]
    BY <1>6, <2>1
  <2>3. QED BY <1>7, <2>2, CopiesKeep DEF ChatInv
<1>13. OneTurn'
  <2> SUFFICES ASSUME ~past'.overlapped PROVE OneTurn'
    BY DEF OneTurn
  <2>1. OneTurn /\ ~past.overlapped /\ Running = {}
    BY <1>7 DEF ChatInv
  <2>2. ResultsFollow(chat)' /\ ResultsFollow(saved)' /\ ~past'.clobbered
    BY <1>7, <1>8, <2>1 DEF OneTurn
  <2>3. Running' = {l}
    <3>1. \A j \in DOMAIN loops : loops[j].step = "none"
      BY <2>1 DEF Running
    <3>2. r.step # "none"
      BY <1>5
    <3>3. QED BY <1>6, <3>1, <3>2 DEF Running
  <2>4. Placed(l)'
    <3>1. chat'.pending
      BY <1>3, <1>8
    <3>2. Clobbers(chat') <=> Clobbers(s)
      BY <1>3, <1>8 DEF Clobbers, EndsWithAssistant
    <3>3. loops'[l].step = "call" => ~Clobbers(chat)'
      <4>1. ASSUME r.step = "call" PROVE ~Clobbers(s)
        <5>1. PendingUses(s) = {}
          BY <1>5, <4>1
        <5>2. QED BY <1>2, <5>1 DEF NeedsResume
      <4>2. QED BY <1>6, <3>2, <4>1 DEF Clobbers, EndsWithAssistant
    <3>4. loops'[l].step = "tools" => Clobbers(chat)' /\ Last(chat'.messages).uses = loops'[l].uses
      <4>1. ASSUME r.step = "tools" PROVE Clobbers(s) /\ Last(s.messages).uses = r.uses
        <5>1. PendingUses(s) # {} /\ r.uses = PendingUses(s)
          BY <1>5, <4>1
        <5>2. /\ Len(s.messages) > 0 /\ s.messages[Len(s.messages)].uses = r.uses
              /\ s.messages[Len(s.messages)].uses # {}
              /\ Last(s.messages) = s.messages[Len(s.messages)]
          BY <5>1, Ends
        <5>3. Clobbers(s)
          BY <5>2, CallEnds
        <5>4. QED BY <5>2, <5>3
      <4>2. QED BY <1>3, <1>6, <1>8, <3>2, <4>1 DEF Clobbers, EndsWithAssistant
    <3>5. QED BY <3>1, <3>3, <3>4 DEF Placed
  <2>5. ASSUME NEW u \in Uses, MayRun(u)' PROVE MayRun(u)
    <3>1. u \notin past'.asked \/ \E j \in DOMAIN loops' : u \in DOMAIN loops'[j].base
      BY <2>3, <2>5 DEF MayRun
    <3>2. CASE u \notin past'.asked
      BY <1>7, <3>2 DEF MayRun
    <3>3. ASSUME NEW j \in DOMAIN loops', u \in DOMAIN loops'[j].base PROVE MayRun(u)
      <4>1. CASE j = l
        <5>1. u \in DOMAIN r.base
          BY <1>6, <3>3, <4>1
        <5>2. PendingUses(s) # {} /\ u \in PendingUses(s)
          BY <1>5, <5>1
        <5>3. s = chat /\ NeedsResume
          BY <1>2, <5>2
        <5>4. QED BY <2>1, <5>2, <5>3 DEF MayRun
      <4>2. CASE j # l
        BY <1>6, <3>3, <4>2 DEF MayRun
      <4>3. QED BY <4>1, <4>2
    <3>4. QED BY <3>1, <3>2, <3>3
  <2>6. QED BY <1>7, <2>1, <2>2, <2>3, <2>4, <2>5 DEF OneTurn
<1>14. NothingUnanswered'
  <2> SUFFICES ASSUME ~past'.overlapped, ~past'.spurned, ~past'.odd, ~full
               PROVE  Answers(chat', chat'.pending)
    BY DEF NothingUnanswered, Answers
  <2>1. Answers(s, TRUE)
    BY <1>2, <1>7
  <2>2. chat'.messages = s.messages /\ chat'.pending = TRUE
    BY <1>3, <1>8
  <2>3. QED BY <2>1, <2>2 DEF Answers
<1> QED BY <1>8, <1>9, <1>11, <1>12, <1>13, <1>14 DEF ChatInv

(* The model is not known: a note is the answer, and no turn begins. *)
LEMMA NotedKeeps ==
  ASSUME ChatInv, ~chat.deleted, NEW s \in Sessions, Begun(s), Becomes(Appended(s, Note)),
         loops' = Append(loops, NoLoop), SendPast,
         NeedsResume => past'.spurned,
         UNCHANGED <<full, open, sending, doc, cache>>
  PROVE  ChatInv'
<1> DEFINE t == Appended(s, Note)
<1>1. ChatTyped /\ chat \in Sessions /\ saved \in Sessions /\ past \in Pasts
  BY DEF ChatInv, ChatTyped
<1>2. /\ s.deleted = chat.deleted
      /\ \A i \in DOMAIN s.messages : s.messages[i].uses \subseteq past.asked
      /\ ResultsFollow(chat) => ResultsFollow(s)
      /\ ~past.overlapped /\ ~past.spurned /\ ~past.odd /\ ~full /\ (s = chat \/ ~NeedsResume) =>
           Answers(s, TRUE)
      /\ (s = chat /\ NeedsResume) \/ (~Clobbers(s) /\ PendingUses(s) = {})
  BY BegunSession
<1>3. /\ Note \in Messages /\ Note.uses = {} /\ Note.results = {} /\ Note.role = "assistant"
  BY MessageKinds
<1>4. t \in Sessions /\ Grows(s, t, Len(s.messages), Note) /\ t.deleted = s.deleted
  BY <1>3, AppendedGrows DEF Grows
<1>5. Becomes(t)
  OBVIOUS
<1> HIDE DEF t
<1> PICK l : l = Len(loops) + 1
  OBVIOUS
<1>6. /\ loops' \in Seq(Turns) /\ DOMAIN loops' = DOMAIN loops \union {l}
      /\ l \notin DOMAIN loops /\ sending' \in 0 .. Len(loops')
      /\ loops'[l] = NoLoop /\ \A j \in DOMAIN loops : loops'[j] = loops[j]
  <2>1. NoLoop \in Turns /\ sending \in 0 .. Len(loops)
    BY <1>1, ChatKinds DEF ChatTyped
  <2>2. QED BY <1>1, <2>1, TurnAppended
<1>7. /\ past' \in Pasts /\ past'.odd = past.odd /\ past'.clobbered = past.clobbered
      /\ past'.crossed = past.crossed /\ past'.asked = past.asked /\ past'.acked = past.acked
      /\ past'.ran = past.ran /\ past'.reloads = past.reloads /\ past'.made = past.made
      /\ past'.unseen = past.unseen
      /\ past'.overlapped <=> past.overlapped \/ Running # {}
      /\ past.spurned => past'.spurned
  BY DEF SendPast
<1>8. /\ chat' \in Sessions /\ saved' \in Sessions /\ SavedAsShown'
      /\ WellAsked(chat)' /\ WellAsked(saved)'
      /\ chat' = t
      /\ ResultsFollow(chat) /\ ResultsFollow(saved) =>
           ResultsFollow(chat)' /\ ResultsFollow(saved)'
  <2>1. \A i \in DOMAIN t.messages : t.messages[i].uses \subseteq past'.asked
    BY <1>2, <1>3, <1>4, <1>7, GrownAsked
  <2>2. ResultsFollow(s) => ResultsFollow(t)
    BY <1>3, <1>4, GrownFollows
  <2>3. t.deleted = chat.deleted /\ past.asked \subseteq past'.asked
    BY <1>2, <1>4, <1>7
  <2>4. QED BY <1>2, <1>4, <1>5, <2>1, <2>2, <2>3, SessionChanges
<1>9. ChatTyped'
  BY <1>1, <1>6, <1>7, <1>8 DEF ChatTyped
<1>10. NoLoop.uses = {} /\ DOMAIN NoLoop.base = {} /\ NoLoop.step = "none"
  BY ChatKinds DEF NoLoop
<1>11. AllAsked'
  <2>1. \A j \in DOMAIN loops' : loops'[j].uses \subseteq past'.asked
    BY <1>6, <1>7, <1>10 DEF ChatInv, AllAsked
  <2>2. QED BY <1>8, <2>1 DEF AllAsked
<1>12. CopiesCurrent'
  <2>1. \A j \in DOMAIN loops' : \A u \in DOMAIN loops'[j].base :
          j \in DOMAIN loops /\ u \in DOMAIN loops[j].base /\ loops'[j].base[u] = loops[j].base[u]
    BY <1>6, <1>10
  <2>2. QED BY <1>7, <2>1, CopiesKeep DEF ChatInv
<1>13. OneTurn'
  <2> SUFFICES ASSUME ~past'.overlapped PROVE OneTurn'
    BY DEF OneTurn
  <2>1. OneTurn /\ ~past.overlapped /\ Running = {}
    BY <1>7 DEF ChatInv
  <2>2. ResultsFollow(chat)' /\ ResultsFollow(saved)' /\ ~past'.clobbered
    BY <1>7, <1>8, <2>1 DEF OneTurn
  <2>3. Running' = {}
    <3>1. \A j \in DOMAIN loops : loops[j].step = "none"
      BY <2>1 DEF Running
    <3>2. QED BY <1>6, <1>10, <3>1 DEF Running
  <2>4. ~NeedsResume'
    <3>1. t.messages[Len(t.messages)] = Note
      BY <1>4 DEF Grows
    <3>2. PendingUses(t) = {}
      BY <1>3, <1>4, <3>1, Ends
    <3>3. PendingUses(chat)' = PendingUses(t)
      BY <1>8 DEF PendingUses, EndsWithAssistant
    <3>4. QED BY <3>2, <3>3 DEF NeedsResume
  <2>5. ASSUME NEW u \in Uses, MayRun(u)' PROVE MayRun(u)
    <3>1. u \notin past'.asked \/ \E j \in DOMAIN loops' : u \in DOMAIN loops'[j].base
      BY <2>4, <2>5 DEF MayRun
    <3>2. QED BY <1>6, <1>7, <1>10, <3>1 DEF MayRun
  <2>6. QED BY <1>7, <2>1, <2>2, <2>3, <2>5 DEF OneTurn
<1>14. NothingUnanswered'
  <2> SUFFICES ASSUME ~past'.overlapped, ~past'.spurned, ~past'.odd, ~full
               PROVE  Answers(chat', chat'.pending)
    BY DEF NothingUnanswered, Answers
  <2>1. Answers(s, TRUE) /\ ~NeedsResume
    BY <1>2, <1>7
  <2>2. Len(s.messages) \in Nat /\ ~(Len(s.messages) < Len(s.messages))
    BY SessionFields
  <2>3. Len(s.messages) > 0 => s.messages[Len(s.messages)].uses = {}
    <3>1. PendingUses(s) = {}
      BY <1>2, <2>1
    <3>2. QED BY <3>1, Ends
  <2>4. Answers(t, FALSE)
    BY <1>3, <1>4, <2>1, <2>2, <2>3, GrownAnswers
  <2>5. QED BY <1>8, <2>4 DEF Answers
<1> QED BY <1>8, <1>9, <1>11, <1>12, <1>13, <1>14 DEF ChatInv

LEMMA SendKeeps ==
  ASSUME ChatInv, Send
  PROVE  ChatInv'
<1> DEFINE s == Appended(chat, UserText)
<1>1. /\ ~chat.deleted
      /\ past' = [past EXCEPT !.overlapped = @ \/ Running # {}, !.spurned = @ \/ NeedsResume]
      /\ \/ LoopBegins(s)
         \/ /\ Becomes(Appended(s, Note))
            /\ loops' = Append(loops, NoLoop) /\ UNCHANGED sending
      /\ UNCHANGED <<full, open, doc, cache>>
  BY DEF Send
<1>2. past \in Pasts /\ chat \in Sessions
  BY DEF ChatInv, ChatTyped
<1>3. Grows(chat, s, Len(chat.messages), UserText) /\ s \in Sessions
  BY <1>2, MessageKinds, AppendedGrows DEF Grows
<1>4. SendPast /\ (NeedsResume => past'.spurned)
  <2> DEFINE o == past.overlapped \/ Running # {}
             p == past.spurned \/ NeedsResume
  <2>1. o \in BOOLEAN /\ p \in BOOLEAN
    OBVIOUS
  <2>2. past' = [past EXCEPT !.overlapped = o, !.spurned = p]
    BY <1>1
  <2> HIDE DEF o, p
  <2>3. /\ past' \in Pasts /\ past'.odd = past.odd /\ past'.clobbered = past.clobbered
        /\ past'.crossed = past.crossed /\ past'.asked = past.asked /\ past'.acked = past.acked
        /\ past'.ran = past.ran /\ past'.reloads = past.reloads /\ past'.made = past.made
        /\ past'.unseen = past.unseen /\ past'.overlapped = o /\ past'.spurned = p
    BY <1>2, <2>1, <2>2 DEF Pasts
  <2>4. QED BY <2>3 DEF SendPast, o, p
<1> HIDE DEF s
<1>5. Begun(s)
  BY <1>3 DEF Begun
<1>6. QED BY <1>1, <1>3, <1>4, <1>5, BeginsKeep, NotedKeeps

LEMMA ResumeKeeps ==
  ASSUME ChatInv, Resume
  PROVE  ChatInv'
<1>1. ~chat.deleted /\ NeedsResume /\ UNCHANGED <<full, open, doc, cache>>
  BY DEF Resume
<1>2. past \in Pasts /\ chat \in Sessions /\ Begun(chat)
  BY <1>1 DEF ChatInv, ChatTyped, Begun
<1> DEFINE o == past.overlapped \/ Running # {}
<1>3. o \in BOOLEAN /\ TRUE \in BOOLEAN
  OBVIOUS
<1>4. CASE LoopBegins(chat) /\ past' = [past EXCEPT !.overlapped = @ \/ Running # {}]
  <2>1. past' = [past EXCEPT !.overlapped = o]
    BY <1>4
  <2> HIDE DEF o
  <2>2. /\ past' \in Pasts /\ past'.odd = past.odd /\ past'.clobbered = past.clobbered
        /\ past'.crossed = past.crossed /\ past'.asked = past.asked /\ past'.acked = past.acked
        /\ past'.ran = past.ran /\ past'.reloads = past.reloads /\ past'.made = past.made
        /\ past'.unseen = past.unseen /\ past'.overlapped = o /\ past'.spurned = past.spurned
    BY <1>2, <1>3, <2>1 DEF Pasts
  <2>3. SendPast
    BY <2>2 DEF SendPast, o
  <2>4. QED BY <1>1, <1>2, <1>4, <2>3, BeginsKeep
<1>5. CASE /\ Becomes(Appended(chat, Note))
           /\ loops' = Append(loops, NoLoop) /\ UNCHANGED sending
           /\ past' = [past EXCEPT !.overlapped = @ \/ Running # {}, !.spurned = TRUE]
  <2>1. past' = [past EXCEPT !.overlapped = o, !.spurned = TRUE]
    BY <1>5
  <2> HIDE DEF o
  <2>2. /\ past' \in Pasts /\ past'.odd = past.odd /\ past'.clobbered = past.clobbered
        /\ past'.crossed = past.crossed /\ past'.asked = past.asked /\ past'.acked = past.acked
        /\ past'.ran = past.ran /\ past'.reloads = past.reloads /\ past'.made = past.made
        /\ past'.unseen = past.unseen /\ past'.overlapped = o /\ past'.spurned = TRUE
    BY <1>2, <1>3, <2>1 DEF Pasts
  <2>3. SendPast /\ past'.spurned
    BY <2>2 DEF SendPast, o
  <2>4. QED BY <1>1, <1>2, <1>5, <2>3, NotedKeeps
<1>6. QED BY <1>4, <1>5 DEF Resume

(* A tool of a turn goes a step; the sessions stay.                        *)
LEMMA ToolStepKeeps ==
  ASSUME ChatInv, NEW l \in DOMAIN loops, loops[l].step = "tools",
         NEW r \in Turns, r.step = "tools", r.uses = loops[l].uses,
         DOMAIN r.base \subseteq DOMAIN loops[l].base,
         loops' = [loops EXCEPT ![l] = r], UNCHANGED <<chat, saved, full, sending>>,
         past'.overlapped = past.overlapped, past'.spurned = past.spurned,
         past'.odd = past.odd, past'.clobbered = past.clobbered, past'.asked = past.asked,
         past'.reloads = past.reloads,
         \A u \in Uses :
           \/ past'.ran[u] = past.ran[u]
           \/ /\ u \in DOMAIN loops[l].base /\ u \notin DOMAIN r.base
              /\ past'.ran[u] = past.ran[u] + 1
  PROVE  /\ AllAsked' /\ SavedAsShown' /\ OneTurn' /\ NothingUnanswered'
         /\ loops' \in Seq(Turns) /\ DOMAIN loops' = DOMAIN loops
         /\ sending' \in 0 .. Len(loops')
         /\ loops'[l] = r /\ \A j \in DOMAIN loops \ {l} : loops'[j] = loops[j]
<1>1. ChatTyped /\ past \in Pasts
  BY DEF ChatInv, ChatTyped
<1>2. /\ loops' \in Seq(Turns) /\ DOMAIN loops' = DOMAIN loops
      /\ sending' \in 0 .. Len(loops')
      /\ loops'[l] = r /\ \A j \in DOMAIN loops \ {l} : loops'[j] = loops[j]
  BY <1>1, TurnSet
<1>3. AllAsked'
  BY <1>2 DEF ChatInv, AllAsked, WellAsked
<1>4. SavedAsShown'
  BY DEF ChatInv, SavedAsShown
<1>5. OneTurn'
  <2> SUFFICES ASSUME ~past.overlapped PROVE OneTurn'
    BY DEF OneTurn
  <2>1. l \in Running /\ OneTurn
    BY DEF Running, ChatInv
  <2>2. Running = {l} /\ Placed(l)
    BY <2>1, OnlyOne
  <2>3. Running' = {l}
    BY <1>2, <2>2 DEF Running
  <2>4. ResultsFollow(chat)' /\ ResultsFollow(saved)' /\ ~past'.clobbered
    BY <2>1 DEF OneTurn, ResultsFollow
  <2>5. Placed(l)'
    BY <1>2, <2>2 DEF Placed, Clobbers, EndsWithAssistant
  <2>6. \A j \in DOMAIN loops \ {l} : DOMAIN loops[j].base = {}
    <3>1. SUFFICES ASSUME NEW j \in DOMAIN loops \ {l}, DOMAIN loops[j].base # {} PROVE FALSE
      OBVIOUS
    <3>2. loops[j].step = "tools"
      BY <1>1, <3>1, TurnsTyped
    <3>3. j \in Running
      BY <3>2 DEF Running
    <3>4. QED BY <2>2, <3>1, <3>3
  <2>7. ASSUME NEW u \in Uses
        PROVE  /\ past'.ran[u] <= 1 + past'.reloads
               /\ MayRun(u)' => past'.ran[u] <= past'.reloads
    <3>1. /\ past.ran[u] \in Nat /\ past.reloads \in Nat
          /\ past.ran[u] <= 1 + past.reloads
          /\ MayRun(u) => past.ran[u] <= past.reloads
      BY <1>1, <2>1, PastFields DEF OneTurn
    <3>2. MayRun(u)' <=> u \notin past.asked \/ u \in DOMAIN r.base
      BY <1>2, <2>3, <2>6 DEF MayRun
    <3>3. CASE past'.ran[u] = past.ran[u]
      <4>1. u \notin past.asked \/ u \in DOMAIN r.base => MayRun(u)
        BY DEF MayRun
      <4>2. QED BY <3>1, <3>2, <3>3, <4>1
    <3>4. CASE /\ u \in DOMAIN loops[l].base /\ u \notin DOMAIN r.base
               /\ past'.ran[u] = past.ran[u] + 1
      <4>1. MayRun(u)
        BY <3>4 DEF MayRun
      <4>2. u \in past.asked
        <5>1. loops[l].uses \subseteq past.asked /\ u \in loops[l].uses
          BY <1>1, <3>4, TurnsTyped DEF ChatInv, AllAsked
        <5>2. QED BY <5>1
      <4>3. ~MayRun(u)'
        BY <3>2, <3>4, <4>2
      <4>4. past.ran[u] + 1 <= 1 + past.reloads
        BY <3>1, <4>1
      <4>5. QED BY <3>4, <4>3, <4>4
    <3>5. QED BY <3>3, <3>4
  <2>8. QED BY <2>3, <2>4, <2>5, <2>7 DEF OneTurn
<1>6. NothingUnanswered'
  BY DEF ChatInv, NothingUnanswered, Answers
<1> QED BY <1>2, <1>3, <1>4, <1>5, <1>6

LEMMA FetchDocKeeps ==
  ASSUME ChatInv, NEW l \in DOMAIN loops, NEW u \in Uses, FetchDoc(l, u)
  PROVE  ChatInv'
<1> DEFINE r == [loops[l] EXCEPT !.base[u] = doc]
<1>1. /\ loops[l].step = "tools" /\ u \in DOMAIN loops[l].base
      /\ loops' = [loops EXCEPT ![l] = r] /\ cache' = doc
      /\ UNCHANGED <<chat, saved, full, open, sending, doc, past>>
  BY DEF FetchDoc
<1>2. ChatTyped /\ doc \in Readings /\ doc \in Contained
  BY DEF ChatInv, ChatTyped, Readings
<1>3. /\ r \in Turns /\ r.step = "tools" /\ r.uses = loops[l].uses
      /\ DOMAIN r.base = DOMAIN loops[l].base /\ r.base[u] = doc
      /\ \A v \in DOMAIN loops[l].base \ {u} : r.base[v] = loops[l].base[v]
  <2> DEFINE b == [loops[l].base EXCEPT ![u] = doc]
  <2>1. loops[l] \in Turns /\ loops[l].base \in Bases
    BY <1>2, TurnsTyped
  <2>2. b \in Bases /\ DOMAIN b = DOMAIN loops[l].base /\ b[u] = doc
        /\ \A v \in DOMAIN loops[l].base \ {u} : b[v] = loops[l].base[v]
    BY <1>1, <1>2, <2>1 DEF Bases
  <2>3. r = [loops[l] EXCEPT !.base = b]
    BY <2>1 DEF Turns
  <2> HIDE DEF b, r
  <2>4. r \in Turns /\ r.step = loops[l].step /\ r.uses = loops[l].uses /\ r.base = b
    BY <1>1, <2>1, <2>2, <2>3 DEF Turns
  <2>5. QED BY <1>1, <2>2, <2>4
<1> HIDE DEF r
<1>4. \A v \in Uses : past'.ran[v] = past.ran[v]
  BY <1>1
<1>5. /\ AllAsked' /\ SavedAsShown' /\ OneTurn' /\ NothingUnanswered'
      /\ loops' \in Seq(Turns) /\ DOMAIN loops' = DOMAIN loops
      /\ sending' \in 0 .. Len(loops')
      /\ loops'[l] = r /\ \A j \in DOMAIN loops \ {l} : loops'[j] = loops[j]
  BY <1>1, <1>3, <1>4, ToolStepKeeps
<1>6. ChatTyped'
  BY <1>1, <1>2, <1>5 DEF ChatTyped
<1>7. CopiesCurrent'
  <2>1. CopiesCurrent /\ MustHave' = MustHave
    BY <1>1 DEF ChatInv, MustHave
  <2>2. cache' # Unread
    BY <1>1, <1>2, ChatKinds
  <2>3. \A j \in DOMAIN loops' : \A v \in DOMAIN loops'[j].base :
          \/ loops'[j].base[v] = doc
          \/ v \in DOMAIN loops[j].base /\ loops'[j].base[v] = loops[j].base[v]
    BY <1>3, <1>5
  <2>4. ~past.crossed => MustHave \subseteq doc
    BY <2>1 DEF CopiesCurrent
  <2>5. ~past.crossed =>
          \A j \in DOMAIN loops' : \A v \in DOMAIN loops'[j].base :
            loops'[j].base[v] # Unread => MustHave \subseteq loops'[j].base[v]
    BY <1>5, <2>1, <2>3, <2>4 DEF CopiesCurrent
  <2>6. QED BY <1>1, <2>1, <2>2, <2>4, <2>5 DEF CopiesCurrent
<1> QED BY <1>5, <1>6, <1>7 DEF ChatInv

(* A PUT, in the history. *)
RanOnce(h, u, b, A) == [h EXCEPT !.ran[u] = @ + 1, !.crossed = b, !.acked = A]

LEMMA RanIs ==
  ASSUME NEW h \in Pasts, NEW u \in Uses, NEW b \in BOOLEAN, NEW A \in SUBSET Uses
  PROVE  LET t == RanOnce(h, u, b, A) IN
         /\ t \in Pasts /\ t.made = h.made /\ t.unseen = h.unseen
         /\ t.overlapped = h.overlapped /\ t.spurned = h.spurned /\ t.odd = h.odd
         /\ t.clobbered = h.clobbered /\ t.asked = h.asked /\ t.reloads = h.reloads
         /\ t.crossed = b /\ t.acked = A
         /\ t.ran[u] = h.ran[u] + 1 /\ \A v \in Uses \ {u} : t.ran[v] = h.ran[v]
<1> DEFINE f == [h.ran EXCEPT ![u] = @ + 1]
           t == [h EXCEPT !.ran = f, !.crossed = b, !.acked = A]
<1>1. f \in [Uses -> Nat] /\ f[u] = h.ran[u] + 1 /\ \A v \in Uses \ {u} : f[v] = h.ran[v]
  BY DEF Pasts
<1>2. t = RanOnce(h, u, b, A)
  BY DEF Pasts, RanOnce
<1> HIDE DEF f
<1>3. /\ t \in Pasts /\ t.made = h.made /\ t.unseen = h.unseen
      /\ t.overlapped = h.overlapped /\ t.spurned = h.spurned /\ t.odd = h.odd
      /\ t.clobbered = h.clobbered /\ t.asked = h.asked /\ t.reloads = h.reloads
      /\ t.crossed = b /\ t.acked = A /\ t.ran = f
  BY <1>1 DEF Pasts
<1> HIDE DEF t
<1>4. QED BY <1>1, <1>2, <1>3

LEMMA PutDocKeeps ==
  ASSUME ChatInv, NEW l \in DOMAIN loops, NEW u \in Uses, PutDoc(l, u)
  PROVE  ChatInv'
<1> DEFINE base == loops[l].base
           rest == [v \in DOMAIN base \ {u} |-> base[v]]
           r == [loops[l] EXCEPT !.base = rest]
           c == past.crossed \/ Others(l, u) # {}
           ran == [past EXCEPT !.ran[u] = @ + 1, !.crossed = @ \/ Others(l, u) # {}]
<1>1. /\ loops[l].step = "tools" /\ u \in DOMAIN base /\ base[u] # Unread
      /\ \/ /\ doc' = base[u] \union {u}
            /\ \/ cache' = doc' /\ past' = [ran EXCEPT !.acked = @ \union {u}]
               \/ cache' = cache /\ past' = ran
         \/ UNCHANGED <<doc, cache, past>>
      /\ loops' = [loops EXCEPT ![l] = r]
      /\ UNCHANGED <<chat, saved, full, open, sending>>
  BY DEF PutDoc, Cached
<1>2. ChatTyped /\ past \in Pasts /\ doc \in Contained /\ cache \in Readings
  BY DEF ChatInv, ChatTyped
<1>3. c \in BOOLEAN /\ past.acked \in SUBSET Uses /\ past.acked \union {u} \in SUBSET Uses
  BY <1>2, PastFields
<1>4. \/ UNCHANGED <<doc, cache, past>>
      \/ /\ doc' = base[u] \union {u} /\ cache' = doc'
         /\ past' = RanOnce(past, u, c, past.acked \union {u})
      \/ /\ doc' = base[u] \union {u} /\ cache' = cache
         /\ past' = RanOnce(past, u, c, past.acked)
  <2>1. ran = RanOnce(past, u, c, past.acked)
    BY <1>2 DEF Pasts, RanOnce
  <2>2. [ran EXCEPT !.acked = @ \union {u}] = RanOnce(past, u, c, past.acked \union {u})
    BY <1>2 DEF Pasts, RanOnce
  <2>3. QED BY <1>1, <2>1, <2>2
<1>5. /\ r \in Turns /\ r.step = "tools" /\ r.uses = loops[l].uses
      /\ r.base = rest /\ DOMAIN rest = DOMAIN base \ {u}
      /\ \A v \in DOMAIN rest : rest[v] = base[v]
  <2>1. loops[l] \in Turns /\ base \in Bases
    BY <1>2, TurnsTyped
  <2>2. PICK S \in SUBSET Uses : base \in [S -> Readings]
    BY <2>1 DEF Bases
  <2>3. rest \in [S \ {u} -> Readings] /\ S \ {u} \in SUBSET Uses
    BY <2>2
  <2>4. rest \in Bases /\ DOMAIN rest = DOMAIN base \ {u}
    BY <2>2, <2>3 DEF Bases
  <2> HIDE DEF rest
  <2>5. r \in Turns /\ r.step = loops[l].step /\ r.uses = loops[l].uses /\ r.base = rest
    BY <1>1, <2>1, <2>4 DEF Turns
  <2>6. QED BY <1>1, <2>4, <2>5 DEF rest
<1> HIDE DEF c, ran, r, rest
<1>6. \/ past' = past
      \/ past'.acked = past.acked /\ past'.crossed = c
      \/ past'.acked = past.acked \union {u} /\ past'.crossed = c
  BY <1>2, <1>3, <1>4, RanIs
<1>7. /\ past' \in Pasts /\ past'.made = past.made /\ past'.unseen = past.unseen
      /\ past'.overlapped = past.overlapped /\ past'.spurned = past.spurned
      /\ past'.odd = past.odd /\ past'.clobbered = past.clobbered
      /\ past'.asked = past.asked /\ past'.reloads = past.reloads
      /\ past'.ran[u] = past.ran[u] \/ past'.ran[u] = past.ran[u] + 1
      /\ \A v \in Uses \ {u} : past'.ran[v] = past.ran[v]
  BY <1>2, <1>3, <1>4, RanIs
<1>8. \A v \in Uses :
        \/ past'.ran[v] = past.ran[v]
        \/ v \in DOMAIN base /\ v \notin DOMAIN r.base /\ past'.ran[v] = past.ran[v] + 1
  BY <1>1, <1>5, <1>7
<1>9. /\ AllAsked' /\ SavedAsShown' /\ OneTurn' /\ NothingUnanswered'
      /\ loops' \in Seq(Turns) /\ DOMAIN loops' = DOMAIN loops
      /\ sending' \in 0 .. Len(loops')
      /\ loops'[l] = r /\ \A j \in DOMAIN loops \ {l} : loops'[j] = loops[j]
  BY <1>1, <1>5, <1>7, <1>8, ToolStepKeeps
<1>10. base[u] \in Contained /\ base[u] \union {u} \in Contained
  <2>1. base[u] \in Readings
    BY <1>1, <1>2, TurnsTyped
  <2>2. QED BY <1>1, <2>1 DEF Readings, Contained
<1>11. doc' \in Contained /\ cache' \in Readings
  BY <1>1, <1>2, <1>10 DEF Readings
<1>12. ChatTyped'
  BY <1>1, <1>2, <1>7, <1>9, <1>11 DEF ChatTyped
<1>13. CopiesCurrent'
  <2>1. CopiesCurrent
    BY DEF ChatInv
  <2>2. \A j \in DOMAIN loops' : \A v \in DOMAIN loops'[j].base :
          v \in DOMAIN loops[j].base /\ loops'[j].base[v] = loops[j].base[v]
    BY <1>5, <1>9
  <2>3. CASE UNCHANGED <<doc, cache, past>>
    BY <1>9, <2>1, <2>2, <2>3, CopiesKeep
  <2>4. CASE /\ doc' = base[u] \union {u} /\ past'.crossed = c
             /\ \/ cache' = doc' /\ past'.acked = past.acked \union {u}
                \/ cache' = cache /\ past'.acked = past.acked
    <3>1. cache # Unread
      BY <1>1, <2>1 DEF CopiesCurrent
    <3>2. cache' # Unread
      BY <1>11, <2>4, <3>1, ChatKinds
    <3>3. ASSUME ~past'.crossed
          PROVE  /\ MustHave' \subseteq doc' /\ MustHave' \subseteq cache'
                 /\ \A j \in DOMAIN loops' : DOMAIN loops'[j].base = {}
      <4>1. ~past.crossed /\ Others(l, u) = {}
        BY <2>4, <3>3 DEF c
      <4>2. MustHave \subseteq base[u] /\ MustHave \subseteq cache
        BY <1>1, <2>1, <3>1, <4>1 DEF CopiesCurrent
      <4>3. MustHave' \subseteq doc' /\ MustHave' \subseteq cache'
        <5>1. CASE cache' = doc' /\ past'.acked = past.acked \union {u}
          <6>1. MustHave' \subseteq MustHave \union {u}
            BY <1>7, <5>1 DEF MustHave
          <6>2. QED BY <2>4, <4>2, <5>1, <6>1
        <5>2. CASE cache' = cache /\ past'.acked = past.acked
          <6>1. MustHave' = MustHave
            BY <1>7, <5>2 DEF MustHave
          <6>2. QED BY <2>4, <4>2, <5>2, <6>1
        <5>3. QED BY <2>4, <5>1, <5>2
      <4>4. ASSUME NEW j \in DOMAIN loops', NEW v \in DOMAIN loops'[j].base PROVE FALSE
        <5>1. j \in DOMAIN loops /\ v \in DOMAIN loops[j].base
          BY <1>9, <2>2
        <5>2. v \in Uses
          BY <1>2, <5>1, TurnsTyped
        <5>3. <<j, v>> # <<l, u>>
          BY <1>5, <1>9
        <5>4. <<j, v>> \in Others(l, u)
          BY <5>1, <5>2, <5>3 DEF Others
        <5>5. QED BY <4>1, <5>4
      <4>5. QED BY <4>3, <4>4
    <3>4. QED BY <3>2, <3>3 DEF CopiesCurrent
  <2>5. QED
    <3>1. \A A \in SUBSET Uses : past' = RanOnce(past, u, c, A) => past'.crossed = c /\ past'.acked = A
      BY <1>2, <1>3, RanIs
    <3>2. QED BY <1>3, <1>4, <2>3, <2>4, <3>1
<1> QED BY <1>9, <1>12, <1>13 DEF ChatInv

LEMMA DeleteKeeps ==
  ASSUME ChatInv, Delete
  PROVE  ChatInv'
<1>1. chat' = Gone /\ saved' = Gone /\ UNCHANGED <<full, open, sending, loops, doc, cache, past>>
  BY DEF Delete
<1>2. ChatTyped
  BY DEF ChatInv
<1>3. /\ Gone \in Sessions /\ Gone.messages = <<>> /\ DOMAIN <<>> = {} /\ ~Gone.pending /\ Gone.deleted
      /\ ~Clobbers(Gone)
  BY DEF Gone, Sessions, Clobbers, EndsWithAssistant
<1>4. ChatTyped'
  BY <1>1, <1>2, <1>3 DEF ChatTyped
<1>5. AllAsked'
  BY <1>1, <1>3 DEF ChatInv, AllAsked, WellAsked
<1>6. CopiesCurrent'
  BY <1>1, CopiesKeep DEF ChatInv
<1>7. SavedAsShown'
  BY <1>1 DEF SavedAsShown
<1>8. OneTurn'
  <2> SUFFICES ASSUME ~past.overlapped PROVE OneTurn'
    BY <1>1 DEF OneTurn
  <2>1. OneTurn /\ Running' = Running
    BY <1>1 DEF ChatInv, Running
  <2>2. ResultsFollow(chat)' /\ ResultsFollow(saved)'
    BY <1>1, <1>3 DEF ResultsFollow
  <2>3. \A l \in Running : Placed(l)'
    <3>1. ~Clobbers(chat)' /\ chat'.deleted
      BY <1>1, <1>3 DEF Clobbers, EndsWithAssistant
    <3>2. QED BY <3>1 DEF Placed
  <2>4. ASSUME NEW u \in Uses, MayRun(u)' PROVE MayRun(u)
    <3>1. ~NeedsResume'
      BY <1>1, <1>3 DEF NeedsResume
    <3>2. QED BY <1>1, <2>4, <3>1 DEF MayRun
  <2>5. QED BY <1>1, <2>1, <2>2, <2>3, <2>4 DEF OneTurn
<1>9. NothingUnanswered'
  BY <1>1, <1>3 DEF NothingUnanswered, Answers
<1> QED BY <1>4, <1>5, <1>6, <1>7, <1>8, <1>9 DEF ChatInv

LEMMA ReloadKeeps ==
  ASSUME ChatInv, Reload
  PROVE  ChatInv'
<1>1. /\ chat' = saved /\ cache' = Unread /\ sending' = 0
      /\ loops' = [l \in DOMAIN loops |-> NoLoop]
      /\ past' = [Troubled(past) EXCEPT !.reloads = @ + 1]
      /\ UNCHANGED <<saved, full, open, doc>>
  BY DEF Reload
<1>2. ChatTyped /\ past \in Pasts /\ loops \in Seq(Turns) /\ Len(loops) \in Nat
  BY DEF ChatInv, ChatTyped
<1>3. /\ past' \in Pasts /\ past'.made = past.made /\ past'.unseen = past.unseen
      /\ past'.overlapped = past.overlapped /\ past'.spurned = past.spurned
      /\ past'.odd = past.odd /\ past'.clobbered = past.clobbered
      /\ past'.crossed = past.crossed /\ past'.asked = past.asked
      /\ past'.acked = past.acked /\ past'.ran = past.ran
      /\ past'.reloads = past.reloads + 1
  <2> DEFINE t == Troubled(past)
  <2>1. /\ t \in Pasts /\ t.made = past.made /\ t.unseen = past.unseen
        /\ t.overlapped = past.overlapped /\ t.spurned = past.spurned /\ t.odd = past.odd
        /\ t.clobbered = past.clobbered /\ t.crossed = past.crossed /\ t.asked = past.asked
        /\ t.acked = past.acked /\ t.ran = past.ran /\ t.reloads = past.reloads
    BY <1>2, TroubledIs
  <2>2. past' = [t EXCEPT !.reloads = t.reloads + 1]
    BY <1>1
  <2> HIDE DEF t
  <2>3. t.reloads + 1 \in Nat
    BY <2>1 DEF Pasts
  <2>4. /\ past' \in Pasts /\ past'.made = t.made /\ past'.unseen = t.unseen
        /\ past'.overlapped = t.overlapped /\ past'.spurned = t.spurned
        /\ past'.odd = t.odd /\ past'.clobbered = t.clobbered
        /\ past'.crossed = t.crossed /\ past'.asked = t.asked
        /\ past'.acked = t.acked /\ past'.ran = t.ran /\ past'.reloads = t.reloads + 1
    BY <2>1, <2>2, <2>3 DEF Pasts
  <2>5. QED BY <2>1, <2>4
<1>4. /\ NoLoop \in Turns /\ DOMAIN NoLoop.base = {} /\ NoLoop.step = "none" /\ NoLoop.uses = {}
  BY ChatKinds DEF NoLoop
<1>5. /\ loops' \in Seq(Turns) /\ DOMAIN loops' = DOMAIN loops /\ Len(loops') = Len(loops)
      /\ \A l \in DOMAIN loops' : loops'[l] = NoLoop
  <2>1. DOMAIN loops = 1 .. Len(loops)
    BY <1>2
  <2>2. loops' \in [1 .. Len(loops) -> Turns]
    BY <1>1, <1>4, <2>1
  <2>3. QED BY <1>1, <1>2, <2>1, <2>2
<1>6. ChatTyped'
  <2>1. sending' \in 0 .. Len(loops') /\ cache' \in Readings
    BY <1>1, <1>2, <1>5 DEF Readings
  <2>2. QED BY <1>1, <1>2, <1>3, <1>5, <2>1 DEF ChatTyped
<1>7. AllAsked'
  BY <1>1, <1>3, <1>4, <1>5 DEF ChatInv, AllAsked, WellAsked
<1>8. CopiesCurrent'
  <2>1. CopiesCurrent /\ MustHave' = MustHave
    BY <1>3 DEF ChatInv, MustHave
  <2>2. \A l \in DOMAIN loops' : DOMAIN loops'[l].base = {}
    BY <1>4, <1>5
  <2>3. QED BY <1>1, <1>3, <2>1, <2>2 DEF CopiesCurrent
<1>9. SavedAsShown'
  BY <1>1 DEF SavedAsShown
<1>10. OneTurn'
  <2> SUFFICES ASSUME ~past.overlapped PROVE OneTurn'
    BY <1>3 DEF OneTurn
  <2>1. OneTurn /\ Running' = {}
    BY <1>4, <1>5 DEF ChatInv, Running
  <2>2. ResultsFollow(chat)' /\ ResultsFollow(saved)' /\ ~past'.clobbered
    BY <1>1, <1>3, <2>1 DEF OneTurn, ResultsFollow
  <2>3. \A u \in Uses : past'.ran[u] <= past'.reloads /\ past'.ran[u] <= 1 + past'.reloads
    <3>1. \A u \in Uses : past.ran[u] \in Nat /\ past.reloads \in Nat /\ past.ran[u] <= 1 + past.reloads
      BY <1>2, <2>1, PastFields DEF OneTurn
    <3>2. QED BY <1>3, <3>1
  <2>4. QED BY <2>1, <2>2, <2>3 DEF OneTurn
<1>11. NothingUnanswered'
  <2> SUFFICES ASSUME ~past.overlapped, ~past.spurned, ~past.odd, ~full
               PROVE  Answers(chat', chat'.pending)
    BY <1>1, <1>3 DEF NothingUnanswered, Answers
  <2>1. chat' = chat
    BY <1>1 DEF ChatInv, SavedAsShown
  <2>2. QED BY <2>1 DEF ChatInv, NothingUnanswered
<1> QED BY <1>6, <1>7, <1>8, <1>9, <1>10, <1>11 DEF ChatInv

LEMMA ChatStep == ChatInv /\ [ChatNext]_chatVars => ChatInv'
<1> SUFFICES ASSUME ChatInv, [ChatNext]_chatVars PROVE ChatInv'
  OBVIOUS
<1>1. CASE Send
  BY <1>1, SendKeeps
<1>2. CASE Resume
  BY <1>2, ResumeKeeps
<1>3. CASE EditElsewhere
  BY <1>3, EditElsewhereKeeps
<1>4. CASE Leave \/ Enter \/ StorageFull
  BY <1>4, ViewKeeps
<1>5. CASE Delete
  BY <1>5, DeleteKeeps
<1>6. CASE Reload
  BY <1>6, ReloadKeeps
<1>7. CASE Done \/ UNCHANGED chatVars
  BY <1>7, ViewKeeps DEF Done
<1>8. ASSUME NEW l \in DOMAIN loops,
             \/ StreamText(l) \/ CallFails(l) \/ Answer(l) \/ ToolsDone(l)
             \/ \E u \in Uses : FetchDoc(l, u) \/ PutDoc(l, u)
      PROVE  ChatInv'
  <2>1. CASE StreamText(l)
    BY <2>1, StreamTextKeeps
  <2>2. CASE CallFails(l)
    BY <2>2, CallFailsKeeps
  <2>3. CASE Answer(l)
    BY <2>3, AnswerKeeps
  <2>4. CASE ToolsDone(l)
    BY <2>4, ToolsDoneKeeps
  <2>5. ASSUME NEW u \in Uses, FetchDoc(l, u) \/ PutDoc(l, u) PROVE ChatInv'
    BY <2>5, FetchDocKeeps, PutDocKeeps
  <2>6. QED BY <1>8, <2>1, <2>2, <2>3, <2>4, <2>5
<1>9. QED BY <1>1, <1>2, <1>3, <1>4, <1>5, <1>6, <1>7, <1>8 DEF ChatNext

LEMMA ChatSafe == ChatSpec => []ChatInv
<1>1. QED BY ChatStart, ChatStep, PTL DEF ChatSpec

(* What is promised of a session follows. *)
LEMMA ChatInvHolds == ChatInv => ChatHolds
<1> SUFFICES ASSUME ChatInv PROVE ChatHolds
  OBVIOUS
<1>1. ChatTyped /\ OneTurn /\ NothingUnanswered /\ SavedAsShown /\ CopiesCurrent
      /\ chat \in Sessions
  BY DEF ChatInv, ChatTyped
<1>2. TurnsKeepOrder
  BY <1>1 DEF TurnsKeepOrder, OneTurn, ResultsFollow
<1>3. InterruptedTurnsResume
  <2> SUFFICES ASSUME ~past.overlapped, ~past.spurned, ~past.odd, ~full,
                      NEW i \in DOMAIN chat.messages, chat.messages[i].uses # {},
                      ~AnsweredAt(i)
               PROVE  i = Len(chat.messages) /\ NeedsResume
    BY DEF InterruptedTurnsResume
  <2>1. i = Len(chat.messages) /\ chat.pending
    BY <1>1 DEF NothingUnanswered, Answers, AnsweredAt
  <2>2. i > 0
    BY <1>1, SessionFields
  <2>3. PendingUses(chat) = chat.messages[i].uses
    BY <1>1, <2>1, <2>2, Ends
  <2>4. QED BY <2>1, <2>3 DEF NeedsResume
<1>4. EditsStay
  BY <1>1 DEF EditsStay, CopiesCurrent, MustHave
<1>5. QED BY <1>1, <1>2, <1>3, <1>4 DEF ChatHolds

LEMMA ChatInvTypes == ChatInv => ChatTypeOK
<1> SUFFICES ASSUME ChatInv PROVE ChatTypeOK
  OBVIOUS
<1>1. ChatTyped
  BY DEF ChatInv
<1>2. ASSUME NEW s \in {chat, saved}, NEW i \in DOMAIN s.messages
      PROVE  LET m == s.messages[i] IN
             /\ m.role \in {"user", "assistant"} /\ m.uses \union m.results \subseteq Uses
             /\ m.role = "user" => m.uses = {}
             /\ m.role = "assistant" => m.results = {}
  <2>1. s \in Sessions
    BY <1>1 DEF ChatTyped
  <2>2. s.messages[i] \in Messages
    BY <2>1, SessionFields
  <2>3. QED BY <2>2, MessageFields
<1>3. \A l \in DOMAIN loops :
        /\ loops[l].step \in {"none", "call", "tools"}
        /\ loops[l].round \in 0 .. MaxRounds /\ DOMAIN loops[l].base \subseteq loops[l].uses
  <2>1. \A l \in DOMAIN loops : loops[l] \in Turns
    BY <1>1, TurnsTyped
  <2>2. QED BY <2>1 DEF Turns
<1>4. doc \subseteq Uses \union Marks /\ (cache = Unread \/ cache \subseteq Uses \union Marks)
  BY <1>1 DEF ChatTyped, Readings, Contained
<1>5. QED BY <1>1, <1>2, <1>3, <1>4 DEF ChatTypeOK, ChatTyped

(* The sessions, turns and documents of a chat are what they should be,    *)
(* however turns, reloads and other people's edits interleave.             *)
THEOREM ChatTypeCorrect == ChatSpec => []ChatTypeOK
<1>1. QED BY ChatSafe, ChatInvTypes, PTL

(* What is promised of a chat session, for every number of turns, rounds,  *)
(* tool calls and troubles: results stand after the calls they answer and  *)
(* tools run once, an interrupted turn can be resumed, what is saved is    *)
(* what is shown, and no reported edit is lost, with the exceptions that   *)
(* the history records (web/src/plugins/chat: store, transport, tools).    *)
THEOREM ChatKept == ChatSpec => []ChatHolds
<1>1. QED BY ChatSafe, ChatInvHolds, PTL
------------------------------------------------------------------------------
(* The files of the documents.                                             *)

(* What belongs to one document or agent file: its names, and the inodes   *)
(* that they lead to or that a writer at it has open.                      *)
Everyone == Slugs \union Agents
NamesOf(s) == {Doc(s), Prev(s), Tmp(s)}
AllNames == UNION {NamesOf(s) : s \in Everyone}

WritesAt(s) == assign.step = "write" /\ Head(assign.todo).s = s
ToWrite(s) == \E i \in DOMAIN assign.todo : assign.todo[i].s = s
HeldAt(s) ==
  {i \in Inodes : \/ \E n \in NamesOf(s) \intersect DOMAIN file : file[n] = i
                  \/ \E c \in Clients : put[c].s = s /\ i \in {put[c].fd, put[c].src}
                  \/ WritesAt(s) /\ assign.fd = i}

PutSteps == {"idle", "others", "copy", "copy_data", "put_prev", "tmp", "write", "rename"}
IsPut(r) ==
  /\ DOMAIN r = {"step", "s", "body", "force", "fd", "src", "data", "alone", "old"}
  /\ r.step \in PutSteps /\ r.s \in Everyone \union {None} /\ (r.s = None <=> r.step = "idle")
  /\ r.fd \in Inodes \union {0} /\ (r.fd # 0 <=> r.step = "write")
  /\ r.src \in Inodes \union {0} /\ (r.src # 0 <=> r.step \in {"copy_data", "put_prev"})
  /\ r.step \in {"others", "copy", "copy_data", "put_prev"} => r.s \in Slugs
IsAssign(a) ==
  /\ DOMAIN a = {"step", "todo", "fd", "temps"}
  /\ a.step \in {"idle", "open", "write"} /\ a.todo \in Seq([s : Slugs, data : whole])
  /\ a.step = "idle" => a.todo = <<>>
  /\ IF a.step = "write" THEN a.fd \in Inodes /\ a.todo # <<>> ELSE a.fd = 0

Kinds ==
  /\ DOMAIN file \subseteq AllNames /\ \A n \in DOMAIN file : file[n] \in Inodes
  /\ \A n, m \in DOMAIN file : file[n] = file[m] => n = m
  /\ DOMAIN inode = Inodes /\ DOMAIN put = Clients /\ DOMAIN kept = Everyone
  /\ \A c \in Clients : IsPut(put[c])
  /\ IsAssign(assign)
  /\ puts \in 0 .. MaxPuts /\ assigns \in 0 .. MaxAssigns /\ crashes \in 0 .. MaxCrashes
  /\ crossed \subseteq Everyone

(* No inode is of two documents. *)
NoneShared == \A s, t \in Everyone : s # t => HeldAt(s) \intersect HeldAt(t) = {}

(* What the only writer at a name may rely on, step by step. *)
Under(r) ==
  LET s == r.s IN
  /\ r.step # "others" => r.data \in whole
  /\ s \in Slugs => r.old = IF Exists(Doc(s)) THEN Read(Doc(s)) ELSE None
  /\ r.step \in {"copy_data", "put_prev"} => Exists(Doc(s)) /\ r.src = file[Doc(s)]
  /\ r.step = "copy_data" => Exists(Prev(s)) /\ Read(Prev(s)) = <<>>
  /\ r.step \in {"tmp", "write", "rename"} /\ s \in Slugs /\ Exists(Doc(s)) =>
       Exists(Prev(s)) /\ Read(Prev(s)) = Read(Doc(s))
  /\ r.step = "write" => Exists(Tmp(s)) /\ r.fd = file[Tmp(s)] /\ Read(Tmp(s)) = <<>>
  /\ r.step = "rename" => Exists(Tmp(s)) /\ Read(Tmp(s)) = r.data

Stands(s) ==
  /\ Exists(Doc(s)) /\ Read(Doc(s)) = kept[s].now
  /\ kept[s].before # None => Exists(Prev(s)) /\ Read(Prev(s)) = kept[s].before

(* A name that no two writers were at at once. *)
Sure(s) ==
  /\ \A c, d \in Clients : put[c].s = s /\ put[d].s = s => c = d
  /\ s \in Slugs /\ assign.step # "idle" => \A c \in Clients : put[c].s # s
  /\ Exists(Doc(s)) /\ ~WritesAt(s) => Read(Doc(s)) \in whole
  /\ WritesAt(s) => Exists(Doc(s)) /\ assign.fd = file[Doc(s)] /\ Read(Doc(s)) = <<>>
  /\ kept[s] # None => Stands(s) /\ ~ToWrite(s) /\ \A c \in Clients : put[c].s # s
  /\ \A c \in Clients : put[c].s = s => Under(put[c])

FilesInv == Kinds /\ NoneShared /\ \A s \in Everyone \ crossed : Sure(s)

(* The image of a finite set is no larger than the set. *)
LEMMA ImageSize ==
  ASSUME NEW S, IsFiniteSet(S), NEW f
  PROVE  /\ IsFiniteSet({f[x] : x \in S}) /\ Cardinality({f[x] : x \in S}) <= Cardinality(S)
         /\ Cardinality({f[x] : x \in S}) \in Nat
<1> DEFINE T == {f[x] : x \in S}
           g == [x \in S |-> f[x]]
<1>1. g \in [S -> T] /\ \A t \in T : \E x \in S : g[x] = t
  OBVIOUS
<1>2. g \in Surjection(S, T)
  <2> HIDE DEF g, T
  <2>1. QED BY <1>1 DEF Surjection
<1> HIDE DEF g, T
<1>3. IsFiniteSet(T) /\ Cardinality(T) <= Cardinality(S) /\ Cardinality(T) \in Nat
  BY <1>2, FS_Surjection, FS_CardinalityType
<1>4. QED BY <1>3 DEF T

(* Two finite sets together. *)
LEMMA UnionSize ==
  ASSUME NEW S, NEW T, IsFiniteSet(S), IsFiniteSet(T), NEW m \in Nat, NEW n \in Nat,
         Cardinality(S) <= m, Cardinality(T) <= n
  PROVE  IsFiniteSet(S \union T) /\ Cardinality(S \union T) <= m + n
<1>1. /\ Cardinality(S) \in Nat /\ Cardinality(T) \in Nat
      /\ IsFiniteSet(S \cap T) /\ Cardinality(S \cap T) \in Nat
  BY FS_CardinalityType, FS_Intersection
<1>2. Cardinality(S \union T) = Cardinality(S) + Cardinality(T) - Cardinality(S \cap T)
  BY FS_Union
<1>3. QED BY <1>1, <1>2, FS_Union

Total == 3 * (Cardinality(Slugs) + Cardinality(Agents)) + 2 * Cardinality(Clients) + 2

LEMMA Sizes ==
  /\ Cardinality(Slugs) \in Nat /\ Cardinality(Agents) \in Nat /\ Cardinality(Clients) \in Nat
  /\ IsFiniteSet(Everyone) /\ Cardinality(Everyone) <= Cardinality(Slugs) + Cardinality(Agents)
  /\ Total \in Nat /\ Inodes = 1 .. Total
<1>1. Cardinality(Slugs) \in Nat /\ Cardinality(Agents) \in Nat /\ Cardinality(Clients) \in Nat
  BY FilesAssumption, FS_CardinalityType
<1>2. IsFiniteSet(Everyone) /\ Cardinality(Everyone) <= Cardinality(Slugs) + Cardinality(Agents)
  <2> DEFINE a == Cardinality(Slugs)
             b == Cardinality(Agents)
  <2>1. a \in Nat /\ b \in Nat /\ a <= a /\ b <= b
    BY <1>1
  <2> HIDE DEF a, b
  <2>2. Cardinality(Slugs) <= a /\ Cardinality(Agents) <= b
    BY <2>1 DEF a, b
  <2>3. IsFiniteSet(Slugs \union Agents) /\ Cardinality(Slugs \union Agents) <= a + b
    BY <2>1, <2>2, FilesAssumption, UnionSize
  <2>4. QED BY <2>3 DEF Everyone, a, b
<1>3. QED BY <1>1, <1>2 DEF Total, Inodes

(* There are three names of each document. *)
LEMMA NamesCounted ==
  IsFiniteSet(AllNames)
    /\ Cardinality(AllNames) <= 3 * (Cardinality(Slugs) + Cardinality(Agents))
<1> DEFINE N == Cardinality(Slugs) + Cardinality(Agents)
           docOf == [s \in Everyone |-> Doc(s)]
           prevOf == [s \in Everyone |-> Prev(s)]
           tmpOf == [s \in Everyone |-> Tmp(s)]
           D == {docOf[s] : s \in Everyone}
           P == {prevOf[s] : s \in Everyone}
           T == {tmpOf[s] : s \in Everyone}
<1>1. N \in Nat /\ IsFiniteSet(Everyone) /\ Cardinality(Everyone) \in Nat /\ Cardinality(Everyone) <= N
  BY Sizes, FS_CardinalityType
<1>2. AllNames = (D \union P) \union T
  BY DEF AllNames, NamesOf
<1> HIDE DEF docOf, prevOf, tmpOf, N
<1>3. /\ IsFiniteSet(D) /\ Cardinality(D) \in Nat /\ Cardinality(D) <= Cardinality(Everyone)
      /\ IsFiniteSet(P) /\ Cardinality(P) \in Nat /\ Cardinality(P) <= Cardinality(Everyone)
      /\ IsFiniteSet(T) /\ Cardinality(T) \in Nat /\ Cardinality(T) <= Cardinality(Everyone)
  BY <1>1, ImageSize
<1> HIDE DEF D, P, T
<1>4. Cardinality(D) <= N /\ Cardinality(P) <= N /\ Cardinality(T) <= N
  BY <1>1, <1>3
<1>5. IsFiniteSet(D \union P) /\ Cardinality(D \union P) <= N + N
  BY <1>1, <1>3, <1>4, UnionSize
<1>6. IsFiniteSet((D \union P) \union T) /\ Cardinality((D \union P) \union T) <= (N + N) + N
  <2>1. N + N \in Nat
    BY <1>1
  <2>2. QED BY <2>1, <1>1, <1>3, <1>4, <1>5, UnionSize
<1>7. (N + N) + N = 3 * N
  BY <1>1
<1>8. QED BY <1>2, <1>6, <1>7 DEF N

(* There is an inode that no name leads to and nobody has open. *)
LEMMA FreshInode ==
  ASSUME Kinds
  PROVE  /\ NewInode \in Inodes /\ \A n \in DOMAIN file : file[n] # NewInode
         /\ \A c \in Clients : put[c].fd # NewInode /\ put[c].src # NewInode
         /\ assign.fd # NewInode
<1> DEFINE A == {file[n] : n \in DOMAIN file}
           fds == [c \in Clients |-> put[c].fd]
           srcs == [c \in Clients |-> put[c].src]
           B == {fds[c] : c \in Clients}
           C == {srcs[c] : c \in Clients}
           U == ((A \union B) \union C) \union {assign.fd}
           F == {i \in Inodes : i \notin U}
           m == Cardinality(Clients)
           k == 3 * (Cardinality(Slugs) + Cardinality(Agents))
<1>1. m \in Nat /\ k \in Nat /\ Total = k + 2 * m + 2 /\ Inodes = 1 .. Total
  BY Sizes DEF Total
<1>2. IsFiniteSet(A) /\ Cardinality(A) <= k
  <2>1. IsFiniteSet(DOMAIN file) /\ Cardinality(DOMAIN file) <= Cardinality(AllNames)
        /\ Cardinality(DOMAIN file) \in Nat /\ Cardinality(AllNames) \in Nat
    BY NamesCounted, FS_Subset, FS_CardinalityType DEF Kinds
  <2>2. IsFiniteSet(A) /\ Cardinality(A) <= Cardinality(DOMAIN file) /\ Cardinality(A) \in Nat
    BY <2>1, ImageSize
  <2>3. Cardinality(AllNames) <= k
    BY NamesCounted
  <2> HIDE DEF A, k
  <2>4. QED BY <1>1, <2>1, <2>2, <2>3
<1>3. IsFiniteSet(B) /\ Cardinality(B) <= m /\ IsFiniteSet(C) /\ Cardinality(C) <= m
  <2> HIDE DEF fds, srcs
  <2>1. QED BY FilesAssumption, ImageSize
<1> DEFINE AB == A \union B
           ABC == AB \union C
           G == {assign.fd}
<1> HIDE DEF A, B, C, fds, srcs, k, m
<1>4. IsFiniteSet(AB) /\ Cardinality(AB) <= k + m
  BY <1>1, <1>2, <1>3, UnionSize
<1>5. k + m \in Nat /\ (k + m) + m \in Nat
  BY <1>1
<1> HIDE DEF AB
<1>6. IsFiniteSet(ABC) /\ Cardinality(ABC) <= (k + m) + m
  BY <1>1, <1>3, <1>4, <1>5, UnionSize
<1> HIDE DEF ABC
<1>7. IsFiniteSet(G) /\ Cardinality(G) = 1
  BY FS_Singleton
<1>8. IsFiniteSet(G) /\ Cardinality(G) <= 1 /\ 1 \in Nat
  BY <1>7
<1> HIDE DEF G
<1>9. IsFiniteSet(U) /\ Cardinality(U) <= ((k + m) + m) + 1
  <2> HIDE DEF U
  <2>1. U = ABC \union G
    BY DEF U, AB, ABC, G
  <2> DEFINE n == (k + m) + m
  <2> HIDE DEF n
  <2>2. n \in Nat /\ Cardinality(ABC) <= n
    BY <1>5, <1>6 DEF n
  <2>3. IsFiniteSet(ABC \union G) /\ Cardinality(ABC \union G) <= n + 1
    BY <2>2, <1>6, <1>8, UnionSize
  <2>4. QED BY <2>1, <2>3 DEF n
<1>10. F # {}
  <2> HIDE DEF U, k, m
  <2>1. SUFFICES ASSUME F = {} PROVE FALSE
    OBVIOUS
  <2>2. Inodes \subseteq U
    BY <2>1
  <2>3. Cardinality(Inodes) = Total
    BY <1>1, FS_Interval, Sizes
  <2>4. Cardinality(Inodes) <= Cardinality(U) /\ Cardinality(U) \in Nat
    BY <1>9, <2>2, FS_Subset, FS_CardinalityType
  <2>5. QED BY <1>1, <1>9, <2>3, <2>4
<1> USE DEF A, B, C, fds, srcs
<1>11. NewInode = Min(F)
  <2>1. F = {i \in DOMAIN inode : i \notin {file[n] : n \in DOMAIN file}
                   \union {put[c].fd : c \in Clients} \union {put[c].src : c \in Clients}
                   \union {assign.fd}}
    BY DEF Kinds
  <2>2. QED BY <2>1 DEF NewInode
<1>12. F \in SUBSET Nat
  BY Sizes
<1>13. NewInode \in F
  <2> HIDE DEF F
  <2>1. QED BY <1>10, <1>11, <1>12, MinProperty
<1>14. QED BY <1>13

(* The three names of one document, and those of two. *)
LEMMA NamesApart ==
  ASSUME NEW s, NEW t
  PROVE  /\ Doc(s) # Prev(t) /\ Doc(s) # Tmp(t) /\ Prev(s) # Tmp(t)
         /\ NamesOf(s) = {Doc(s), Prev(s), Tmp(s)}
         /\ s # t => Doc(s) # Doc(t) /\ Prev(s) # Prev(t) /\ Tmp(s) # Tmp(t)
         /\ s # t => NamesOf(s) \intersect NamesOf(t) = {}
BY DEF Doc, Prev, Tmp, NamesOf

LEMMA NamesIn == ASSUME NEW s \in Everyone PROVE NamesOf(s) \subseteq AllNames
BY DEF AllNames

(* What a step leaves alone of a document. *)
Untouched(t) ==
  /\ \A n \in NamesOf(t) :
       /\ n \in DOMAIN file' <=> n \in DOMAIN file
       /\ n \in DOMAIN file => file'[n] = file[n] /\ inode'[file[n]] = inode[file[n]]
  /\ \A c \in Clients :
       /\ put'[c].s = t <=> put[c].s = t
       /\ put[c].s = t =>
            /\ put'[c].step = put[c].step /\ put'[c].fd = put[c].fd /\ put'[c].src = put[c].src
            /\ put'[c].data = put[c].data /\ put'[c].old = put[c].old
  /\ WritesAt(t)' <=> WritesAt(t)
  /\ WritesAt(t) => assign'.fd = assign.fd
  /\ ToWrite(t)' => ToWrite(t)
  /\ t \in Slugs /\ assign'.step # "idle" => assign.step # "idle"
  /\ kept'[t] = kept[t] /\ whole \subseteq whole'

(* It keeps its inodes,                                                    *)
LEMMA UntouchedHeld ==
  ASSUME NEW t \in Everyone, Untouched(t)
  PROVE  HeldAt(t)' = HeldAt(t)
<1>1. \A n \in NamesOf(t), i \in Inodes :
        n \in DOMAIN file' /\ file'[n] = i <=> n \in DOMAIN file /\ file[n] = i
  BY DEF Untouched
<1>2. \A c \in Clients, i \in Inodes :
        put'[c].s = t /\ i \in {put'[c].fd, put'[c].src} <=> put[c].s = t /\ i \in {put[c].fd, put[c].src}
  BY DEF Untouched
<1>3. \A i \in Inodes : WritesAt(t)' /\ assign'.fd = i <=> WritesAt(t) /\ assign.fd = i
  BY DEF Untouched
<1>4. ASSUME NEW i \in Inodes PROVE i \in HeldAt(t)' <=> i \in HeldAt(t)
  BY <1>1, <1>2, <1>3 DEF HeldAt
<1>5. HeldAt(t)' \subseteq Inodes /\ HeldAt(t) \subseteq Inodes
  BY DEF HeldAt
<1>6. QED BY <1>4, <1>5

(* and what its only writer relies on.                                     *)
LEMMA UntouchedSure ==
  ASSUME NEW t \in Everyone, Untouched(t), Sure(t)
  PROVE  Sure(t)'
<1>1. /\ Exists(Doc(t))' = Exists(Doc(t)) /\ (Exists(Doc(t)) => Read(Doc(t))' = Read(Doc(t)))
      /\ Exists(Prev(t))' = Exists(Prev(t)) /\ (Exists(Prev(t)) => Read(Prev(t))' = Read(Prev(t)))
      /\ Exists(Tmp(t))' = Exists(Tmp(t)) /\ (Exists(Tmp(t)) => Read(Tmp(t))' = Read(Tmp(t)))
      /\ Exists(Doc(t)) => file'[Doc(t)] = file[Doc(t)]
      /\ Exists(Tmp(t)) => file'[Tmp(t)] = file[Tmp(t)]
  BY DEF Untouched, Exists, Read, NamesOf
<1>2. \A c, d \in Clients : put'[c].s = t /\ put'[d].s = t => c = d
  BY DEF Untouched, Sure
<1>3. t \in Slugs /\ assign'.step # "idle" => \A c \in Clients : put'[c].s # t
  BY DEF Untouched, Sure
<1>4. Exists(Doc(t))' /\ ~WritesAt(t)' => Read(Doc(t))' \in whole'
  BY <1>1 DEF Untouched, Sure
<1>5. WritesAt(t)' => Exists(Doc(t))' /\ assign'.fd = file'[Doc(t)] /\ Read(Doc(t))' = <<>>
  BY <1>1 DEF Untouched, Sure
<1>6. kept'[t] # None => Stands(t)' /\ ~ToWrite(t)' /\ \A c \in Clients : put'[c].s # t
  <2>1. kept'[t] = kept[t] /\ (ToWrite(t)' => ToWrite(t))
        /\ \A c \in Clients : put'[c].s = t <=> put[c].s = t
    BY DEF Untouched
  <2>2. Stands(t) => Stands(t)'
    BY <1>1, <2>1 DEF Stands
  <2>3. QED BY <2>1, <2>2 DEF Sure
<1>7. ASSUME NEW c \in Clients, put'[c].s = t PROVE Under(put[c])'
  <2>1. put[c].s = t /\ Under(put[c])
    BY <1>7 DEF Untouched, Sure
  <2>2. /\ put'[c].step = put[c].step /\ put'[c].fd = put[c].fd /\ put'[c].src = put[c].src
        /\ put'[c].data = put[c].data /\ put'[c].old = put[c].old /\ whole \subseteq whole'
    BY <2>1 DEF Untouched
  <2>3. QED BY <1>1, <1>7, <2>1, <2>2 DEF Under
<1>8. QED BY <1>2, <1>3, <1>4, <1>5, <1>6, <1>7 DEF Sure

(* A step of one PUT leaves the other documents alone. *)
LEMMA OthersUntouched ==
  ASSUME Kinds, NoneShared, NEW c \in Clients, NEW s \in Everyone, put[c].s = s,
         put'[c].s \in {s, None}, \A d \in Clients : d # c => put'[d] = put[d], assign' = assign,
         \A n \in DOMAIN file \union DOMAIN file' :
           n \in NamesOf(s) \/ (n \in DOMAIN file /\ n \in DOMAIN file' /\ file'[n] = file[n]),
         \A i \in Inodes : inode'[i] = inode[i] \/ i \in HeldAt(s) \/ i = NewInode,
         \A t \in Everyone : t # s => kept'[t] = kept[t], whole \subseteq whole'
  PROVE  \A t \in Everyone : t # s => Untouched(t)
<1> SUFFICES ASSUME NEW t \in Everyone, t # s PROVE Untouched(t)
  OBVIOUS
<1>1. t # None
  BY FilesAssumption DEF Everyone
<1>2. ASSUME NEW n \in NamesOf(t)
      PROVE  /\ n \in DOMAIN file' <=> n \in DOMAIN file
             /\ n \in DOMAIN file => file'[n] = file[n] /\ inode'[file[n]] = inode[file[n]]
  <2>1. n \notin NamesOf(s)
    BY NamesApart
  <2>2. /\ n \in DOMAIN file' <=> n \in DOMAIN file
        /\ n \in DOMAIN file => file'[n] = file[n]
    BY <2>1
  <2>3. ASSUME n \in DOMAIN file PROVE inode'[file[n]] = inode[file[n]]
    <3>1. file[n] \in Inodes /\ file[n] # NewInode
      BY <2>3, FreshInode DEF Kinds
    <3>2. file[n] \in HeldAt(t)
      BY <1>2, <2>3, <3>1 DEF HeldAt
    <3>3. file[n] \notin HeldAt(s)
      BY <3>2 DEF NoneShared
    <3>4. QED BY <3>1, <3>3
  <2>4. QED BY <2>2, <2>3
<1>3. \A d \in Clients : put'[d] = IF d = c THEN put'[c] ELSE put[d]
  BY DEF Kinds
<1>4. (WritesAt(t)' <=> WritesAt(t)) /\ (ToWrite(t)' <=> ToWrite(t))
  BY DEF WritesAt, ToWrite
<1>5. ASSUME NEW d \in Clients
      PROVE  /\ put'[d].s = t <=> put[d].s = t
             /\ put[d].s = t => put'[d] = put[d]
  BY <1>1, <1>3
<1>6. QED BY <1>2, <1>4, <1>5 DEF Untouched

(* When one document only takes an inode of nobody's, none is shared. *)
LEMMA StillApart ==
  ASSUME Kinds, NoneShared, NEW s \in Everyone, HeldAt(s)' \subseteq HeldAt(s) \union {NewInode},
         \A t \in Everyone : t # s => Untouched(t)
  PROVE  NoneShared'
<1>1. \A t \in Everyone : t # s => HeldAt(t)' = HeldAt(t)
  BY UntouchedHeld
<1>2. \A t \in Everyone : NewInode \notin HeldAt(t)
  BY FreshInode DEF HeldAt
<1>3. \A t, u \in Everyone : t # u => HeldAt(t)' \intersect HeldAt(u)' = {}
  BY <1>1, <1>2 DEF NoneShared
<1>4. QED BY <1>3 DEF NoneShared

(* While a PUT is at a name, assign-ids writes nothing there. *)
LEMMA AssignElsewhere ==
  ASSUME Kinds, NEW s \in Everyone, Sure(s), NEW c \in Clients, put[c].s = s
  PROVE  ~WritesAt(s) /\ ~ToWrite(s) /\ (s \in Slugs => assign.step = "idle")
<1> DEFINE T == [s : Slugs, data : whole]
<1>1. assign.todo \in Seq(T) /\ \A e \in T : e.s \in Slugs
  BY DEF Kinds, IsAssign
<1> HIDE DEF T
<1>2. CASE s \in Slugs
  <2>1. assign.step = "idle" /\ assign.todo = <<>>
    BY <1>2 DEF Sure, Kinds, IsAssign
  <2>2. DOMAIN assign.todo = {}
    BY <2>1
  <2>3. QED BY <2>1, <2>2 DEF WritesAt, ToWrite
<1>3. CASE s \notin Slugs
  <2>1. \A i \in DOMAIN assign.todo : assign.todo[i].s \in Slugs
    BY <1>1
  <2>2. assign.step = "write" => assign.todo # <<>>
    BY DEF Kinds, IsAssign
  <2>3. assign.todo # <<>> => Head(assign.todo).s \in Slugs
    BY <1>1
  <2>4. QED BY <1>3, <2>1, <2>2, <2>3 DEF WritesAt, ToWrite
<1>4. QED BY <1>2, <1>3

(* What is left to see of a name after a step of the only PUT at it. *)
LEMMA SureMine ==
  ASSUME Kinds, NEW s \in Everyone, Sure(s), NEW c \in Clients, put[c].s = s,
         put'[c].s \in {s, None}, \A d \in Clients : d # c => put'[d] = put[d], assign' = assign,
         Exists(Doc(s))' => Read(Doc(s))' \in whole',
         kept'[s] # None => Stands(s)' /\ put'[c].s # s,
         put'[c].s = s => Under(put[c])'
  PROVE  Sure(s)'
<1>1. s # None
  BY FilesAssumption DEF Everyone
<1>2. \A d \in Clients : put'[d] = IF d = c THEN put'[c] ELSE put[d]
  BY DEF Kinds
<1>3. \A d \in Clients : put[d].s = s => d = c
  BY DEF Sure
<1>4. \A d \in Clients : put'[d].s = s => d = c /\ put'[c].s = s
  BY <1>2, <1>3
<1>5. ~WritesAt(s)' /\ ~ToWrite(s)' /\ (s \in Slugs => assign'.step = "idle")
  <2>1. ~WritesAt(s) /\ ~ToWrite(s) /\ (s \in Slugs => assign.step = "idle")
    BY AssignElsewhere
  <2>2. QED BY <2>1 DEF WritesAt, ToWrite
<1>6. kept'[s] # None => Stands(s)' /\ ~ToWrite(s)' /\ \A d \in Clients : put'[d].s # s
  BY <1>4, <1>5
<1>7. \A d \in Clients : put'[d].s = s => Under(put[d])'
  BY <1>4
<1>8. QED BY <1>4, <1>5, <1>6, <1>7 DEF Sure

(* A step of one PUT, from what it does at its own name. *)
LEMMA PutStep ==
  ASSUME FilesInv, NEW c \in Clients, NEW s \in Everyone, put[c].s = s,
         put'[c].s \in {s, None}, \A d \in Clients : d # c => put'[d] = put[d], assign' = assign,
         \A n \in DOMAIN file \union DOMAIN file' :
           n \in NamesOf(s) \/ (n \in DOMAIN file /\ n \in DOMAIN file' /\ file'[n] = file[n]),
         \A i \in Inodes : inode'[i] = inode[i] \/ i \in HeldAt(s) \/ i = NewInode,
         \A t \in Everyone : t # s => kept'[t] = kept[t],
         whole \subseteq whole', crossed' = crossed,
         Kinds', HeldAt(s)' \subseteq HeldAt(s) \union {NewInode},
         s \notin crossed /\ Sure(s) =>
           /\ Exists(Doc(s))' => Read(Doc(s))' \in whole'
           /\ kept'[s] # None => Stands(s)' /\ put'[c].s # s
           /\ put'[c].s = s => Under(put[c])'
  PROVE  FilesInv'
<1>1. Kinds /\ NoneShared
  BY DEF FilesInv
<1>2. \A t \in Everyone : t # s => Untouched(t)
  BY <1>1, OthersUntouched
<1>3. NoneShared'
  BY <1>1, <1>2, StillApart
<1>4. ASSUME NEW t \in Everyone \ crossed PROVE Sure(t)'
  <2>1. Sure(t)
    BY DEF FilesInv
  <2>2. CASE t # s
    BY <1>2, <2>1, <2>2, UntouchedSure
  <2>3. CASE t = s
    BY <1>1, <2>1, <2>3, SureMine
  <2>4. QED BY <2>2, <2>3
<1>5. QED BY <1>3, <1>4 DEF FilesInv

(* A name leads to an inode and that inode holds a text. *)
Rewritten(n, k, data) ==
  /\ k \in Inodes /\ DOMAIN file' = DOMAIN file \union {n} /\ file'[n] = k
  /\ DOMAIN inode' = Inodes /\ inode'[k] = data
  /\ \A m \in DOMAIN file : m # n => file'[m] = file[m] /\ inode'[file'[m]] = inode[file[m]]
  /\ \A i \in Inodes : i # k => inode'[i] = inode[i]
  /\ DOMAIN file' \subseteq AllNames /\ \A m \in DOMAIN file' : file'[m] \in Inodes
  /\ \A m, l \in DOMAIN file' : file'[m] = file'[l] => m = l

(* A name bound to an inode that no other name leads to, with its text.    *)
LEMMA BindWrites ==
  ASSUME Kinds, NEW n \in AllNames, NEW k \in Inodes, NEW data, Bind(n, k),
         inode' = [inode EXCEPT ![k] = data], \A m \in DOMAIN file : m # n => file[m] # k
  PROVE  Rewritten(n, k, data)
<1>1. DOMAIN file' = DOMAIN file \union {n} /\ file'[n] = k
      /\ \A m \in DOMAIN file : m # n => file'[m] = file[m]
  BY DEF Bind
<1>2. DOMAIN inode' = Inodes /\ inode'[k] = data /\ \A j \in Inodes : j # k => inode'[j] = inode[j]
  BY DEF Kinds
<1>3. \A m \in DOMAIN file : m # n => file'[m] = file[m] /\ inode'[file'[m]] = inode[file[m]]
  BY <1>1, <1>2 DEF Kinds
<1>4. \A m, l \in DOMAIN file' : file'[m] = file'[l] => m = l
  BY <1>1 DEF Kinds
<1>5. DOMAIN file' \subseteq AllNames /\ \A m \in DOMAIN file' : file'[m] \in Inodes
  BY <1>1 DEF Kinds
<1>6. QED BY <1>1, <1>2, <1>3, <1>4, <1>5 DEF Rewritten

InodeAt(n) == IF Exists(n) THEN file[n] ELSE NewInode

(* An open that creates or cuts the file.                                  *)
LEMMA OpenedWrites ==
  ASSUME Kinds, NEW n \in AllNames, Opened(n)
  PROVE  Rewritten(n, InodeAt(n), <<>>)
<1> DEFINE k == InodeAt(n)
<1>1. k \in Inodes /\ (~Exists(n) => \A m \in DOMAIN file : file[m] # k)
  BY FreshInode DEF InodeAt, Kinds, Exists
<1>2. Bind(n, k) /\ inode' = [inode EXCEPT ![k] = <<>>]
  BY DEF Opened, InodeAt
<1>3. Exists(n) => k = file[n] /\ n \in DOMAIN file
  BY DEF InodeAt, Exists
<1> HIDE DEF k
<1>4. \A m \in DOMAIN file : m # n => file[m] # k
  BY <1>1, <1>3 DEF Kinds
<1>5. Rewritten(n, k, <<>>)
  BY <1>1, <1>2, <1>4, BindWrites
<1>6. QED BY <1>5 DEF k

(* A write that replaces a name's object.                                  *)
LEMMA ReplacedWrites ==
  ASSUME Kinds, NEW n \in AllNames, NEW data, Replaced(n, data)
  PROVE  Rewritten(n, NewInode, data)
<1> DEFINE k == NewInode
<1>1. k \in Inodes /\ \A m \in DOMAIN file : file[m] # k
  BY FreshInode
<1>2. Bind(n, k) /\ inode' = [inode EXCEPT ![k] = data]
  BY DEF Replaced
<1> HIDE DEF k
<1>3. Rewritten(n, k, data)
  BY <1>1, <1>2, BindWrites
<1>4. QED BY <1>3 DEF k

(* What a name and its PUT hold after such a step. *)
LEMMA RewrittenHeld ==
  ASSUME Kinds, NEW c \in Clients, NEW s \in Everyone, put[c].s = s, NEW n \in NamesOf(s),
         NEW k \in HeldAt(s) \union {NewInode}, NEW data, Rewritten(n, k, data), assign' = assign,
         \A d \in Clients : d # c => put'[d] = put[d],
         put'[c].fd \in {0, k}, put'[c].src \in HeldAt(s) \union {0}
  PROVE  /\ HeldAt(s)' \subseteq HeldAt(s) \union {NewInode}
         /\ \A m \in DOMAIN file \union DOMAIN file' :
              m \in NamesOf(s) \/ (m \in DOMAIN file /\ m \in DOMAIN file' /\ file'[m] = file[m])
         /\ \A i \in Inodes : inode'[i] = inode[i] \/ i \in HeldAt(s) \/ i = NewInode
<1>1. \A m \in DOMAIN file \union DOMAIN file' :
        m = n \/ (m \in DOMAIN file /\ m \in DOMAIN file' /\ file'[m] = file[m])
  BY DEF Rewritten
<1>2. ASSUME NEW i \in HeldAt(s)' PROVE i \in HeldAt(s) \union {NewInode}
  <2>1. i \in Inodes /\ i # 0
    BY DEF HeldAt, Inodes
  <2>2. CASE \E m \in NamesOf(s) \intersect DOMAIN file' : file'[m] = i
    <3>1. PICK m \in NamesOf(s) \intersect DOMAIN file' : file'[m] = i
      BY <2>2
    <3>2. CASE m = n
      BY <3>1, <3>2 DEF Rewritten
    <3>3. CASE m # n
      BY <1>1, <2>1, <3>1, <3>3 DEF HeldAt
    <3>4. QED BY <3>2, <3>3
  <2>3. CASE \E d \in Clients : put'[d].s = s /\ i \in {put'[d].fd, put'[d].src}
    <3>1. PICK d \in Clients : put'[d].s = s /\ i \in {put'[d].fd, put'[d].src}
      BY <2>3
    <3>2. CASE d = c
      BY <2>1, <3>1, <3>2
    <3>3. CASE d # c
      BY <2>1, <3>1, <3>3 DEF HeldAt
    <3>4. QED BY <3>2, <3>3
  <2>4. CASE WritesAt(s)' /\ assign'.fd = i
    BY <2>1, <2>4 DEF HeldAt, WritesAt
  <2>5. QED BY <2>2, <2>3, <2>4 DEF HeldAt
<1>3. \A i \in Inodes : inode'[i] = inode[i] \/ i = k
  BY DEF Rewritten
<1>4. QED BY <1>1, <1>2, <1>3

(* What is at a name for its only PUT. *)
LEMMA Mine ==
  ASSUME Kinds, NEW s \in Everyone, Sure(s), NEW c \in Clients, put[c].s = s
  PROVE  /\ Under(put[c]) /\ kept[s] = None
         /\ Exists(Doc(s)) => Read(Doc(s)) \in whole
<1>1. ~WritesAt(s)
  BY AssignElsewhere
<1>2. QED BY <1>1 DEF Sure

(* assign-ids while others write: texts to be stored only become more.     *)
LEMMA AssignStays ==
  ASSUME IsAssign(assign), assign' = assign, whole \subseteq whole'
  PROVE  IsAssign(assign)'
<1> DEFINE T == [s : Slugs, data : whole]
           U == [s : Slugs, data : whole']
<1>1. T \subseteq U
  OBVIOUS
<1>2. assign.todo \in Seq(T)
  BY DEF IsAssign
<1> HIDE DEF T, U
<1>3. assign.todo \in Seq(U)
  BY <1>1, <1>2
<1>4. QED BY <1>3 DEF IsAssign, U

(* What a PUT becomes when it only goes on. *)
LEMMA PutGoes ==
  ASSUME Kinds, NEW c \in Clients, NEW r, IsPut(r), put' = [put EXCEPT ![c] = r]
  PROVE  /\ put'[c] = r /\ \A d \in Clients : d # c => put'[d] = put[d]
         /\ DOMAIN put' = Clients /\ \A d \in Clients : IsPut(put'[d])
<1>1. DOMAIN put = Clients
  BY DEF Kinds
<1>2. put'[c] = r /\ (\A d \in Clients : d # c => put'[d] = put[d]) /\ DOMAIN put' = Clients
  BY <1>1
<1>3. ASSUME NEW d \in Clients PROVE IsPut(put'[d])
  <2>1. IsPut(put[d])
    BY DEF Kinds
  <2>2. CASE d = c
    BY <1>2, <2>2
  <2>3. CASE d # c
    BY <1>2, <2>1, <2>3
  <2>4. QED BY <2>2, <2>3
<1>4. QED BY <1>2, <1>3

(* A handler that serves no PUT.                                           *)
LEMMA IdlePut == IsPut(NoPut) /\ NoPut.s = None /\ NoPut.fd = 0 /\ NoPut.src = 0 /\ NoPut.step = "idle"
BY FilesAssumption DEF IsPut, NoPut, PutSteps, Everyone

(* A handler that serves one is at a name.                                 *)
LEMMA AtName ==
  ASSUME Kinds, NEW c \in Clients, put[c].step # "idle"
  PROVE  /\ IsPut(put[c]) /\ put[c].s \in Everyone
         /\ put[c].step \in {"others", "copy", "copy_data", "put_prev"} => put[c].s \in Slugs
<1>1. IsPut(put[c])
  BY DEF Kinds
<1>2. QED BY <1>1 DEF IsPut

(* What Kinds asks of a step that only a PUT takes. *)
LEMMA KindsStep ==
  ASSUME Kinds, assign' = assign, whole \subseteq whole',
         UNCHANGED <<puts, assigns, crashes, crossed>>,
         DOMAIN kept' = DOMAIN kept, DOMAIN put' = Clients, \A d \in Clients : IsPut(put'[d]),
         DOMAIN inode' = Inodes,
         DOMAIN file' \subseteq AllNames /\ \A m \in DOMAIN file' : file'[m] \in Inodes,
         \A m, l \in DOMAIN file' : file'[m] = file'[l] => m = l
  PROVE  Kinds'
<1>1. IsAssign(assign)'
  BY AssignStays DEF Kinds
<1>2. QED BY <1>1 DEF Kinds

(* A step of a PUT that writes no file. *)
LEMMA OnlyGoes ==
  ASSUME FilesInv, NEW c \in Clients, NEW s \in Everyone, put[c].s = s,
         UNCHANGED <<file, inode, assign, puts, assigns, crashes, kept, crossed>>, whole \subseteq whole',
         put'[c].s \in {s, None}, \A d \in Clients : d # c => put'[d] = put[d],
         DOMAIN put' = Clients, \A d \in Clients : IsPut(put'[d]),
         put'[c].fd \in HeldAt(s) \union {0}, put'[c].src \in HeldAt(s) \union {0},
         Under(put[c]) /\ put'[c].s = s => Under(put[c])'
  PROVE  FilesInv'
<1>1. Kinds /\ s # None
  BY FilesAssumption DEF FilesInv, Everyone
<1>2. Kinds'
  <2>1. /\ DOMAIN kept' = DOMAIN kept /\ DOMAIN inode' = Inodes
        /\ DOMAIN file' \subseteq AllNames /\ \A m \in DOMAIN file' : file'[m] \in Inodes
        /\ \A m, l \in DOMAIN file' : file'[m] = file'[l] => m = l
    BY <1>1 DEF Kinds
  <2>2. QED BY <1>1, <2>1, KindsStep
<1>3. HeldAt(s)' \subseteq HeldAt(s) \union {NewInode}
  <2>1. ASSUME NEW e \in Clients, NEW i \in Inodes, put'[e].s = s, i \in {put'[e].fd, put'[e].src}
        PROVE  i \in HeldAt(s)
    <3>1. i # 0
      BY DEF Inodes
    <3>2. CASE e = c
      BY <2>1, <3>1, <3>2
    <3>3. CASE e # c
      BY <2>1, <3>3 DEF HeldAt
    <3>4. QED BY <3>2, <3>3
  <2>2. WritesAt(s)' = WritesAt(s) /\ file' = file /\ assign' = assign
    BY DEF WritesAt
  <2>3. QED BY <2>1, <2>2 DEF HeldAt
<1>4. ASSUME s \notin crossed, Sure(s)
      PROVE  /\ Exists(Doc(s))' => Read(Doc(s))' \in whole'
             /\ kept'[s] # None => Stands(s)' /\ put'[c].s # s
             /\ put'[c].s = s => Under(put[c])'
  <2>1. Under(put[c]) /\ kept[s] = None /\ (Exists(Doc(s)) => Read(Doc(s)) \in whole)
    BY <1>1, <1>4, Mine
  <2>2. QED BY <2>1 DEF Exists, Read
<1>5. /\ \A n \in DOMAIN file \union DOMAIN file' :
           n \in NamesOf(s) \/ (n \in DOMAIN file /\ n \in DOMAIN file' /\ file'[n] = file[n])
      /\ \A i \in Inodes : inode'[i] = inode[i] \/ i \in HeldAt(s) \/ i = NewInode
      /\ \A t \in Everyone : t # s => kept'[t] = kept[t]
  OBVIOUS
<1>6. QED BY <1>2, <1>3, <1>4, <1>5, PutStep

(* Reading the other documents and normalising the text.                   *)
LEMMA ReadOthersKeeps == ASSUME FilesInv, NEW c \in Clients, ReadOthers(c) PROVE FilesInv'
<1>1. Kinds
  BY DEF FilesInv
<1>2. PICK s \in Everyone : put[c].s = s
  BY <1>1, AtName DEF ReadOthers, At
<1>3. put[c].step = "others" /\ IsPut(put[c]) /\ s \in Slugs /\ s # None
  BY <1>1, <1>2, AtName, FilesAssumption DEF ReadOthers, At
<1>4. PICK d : /\ UNCHANGED <<backing, file, inode, assign, puts, assigns, crashes, kept, crossed, met>>
               /\ IF d = None THEN Answered(c) /\ UNCHANGED <<drawn, whole>>
                  ELSE /\ Goes(c, [put[c] EXCEPT !.data = d, !.step = "copy"])
                       /\ drawn' = drawn \union Anchors(d) /\ whole' = whole \union {d}
  BY DEF ReadOthers
<1>5. PICK r : /\ IsPut(r) /\ put' = [put EXCEPT ![c] = r] /\ whole \subseteq whole' /\ r.fd = 0 /\ r.src = 0
               /\ r.s \in {s, None}
               /\ r.s = s => r.old = put[c].old /\ r.step = "copy" /\ r.data \in whole'
  <2>1. CASE d = None
    BY <1>3, <1>4, <2>1, IdlePut DEF Answered
  <2>2. CASE d # None
    <3> DEFINE r == [put[c] EXCEPT !.data = d, !.step = "copy"]
    <3>1. /\ IsPut(r) /\ r.fd = 0 /\ r.src = 0 /\ r.s = s /\ r.old = put[c].old
          /\ r.step = "copy" /\ r.data = d
      BY <1>2, <1>3 DEF IsPut, PutSteps
    <3> HIDE DEF r
    <3>2. put' = [put EXCEPT ![c] = r] /\ whole' = whole \union {d}
      BY <1>4, <2>2 DEF Goes, r
    <3>3. QED BY <3>1, <3>2
  <2>3. QED BY <2>1, <2>2
<1>6. put'[c] = r /\ (\A e \in Clients : e # c => put'[e] = put[e])
      /\ DOMAIN put' = Clients /\ \A e \in Clients : IsPut(put'[e])
  BY <1>1, <1>5, PutGoes
<1>7. ASSUME Under(put[c]), put'[c].s = s PROVE Under(put[c])'
  <2>1. put'[c].old = IF Exists(Doc(s))' THEN Read(Doc(s))' ELSE None
    BY <1>2, <1>3, <1>4, <1>5, <1>6, <1>7 DEF Under, Exists, Read
  <2>2. QED BY <1>5, <1>6, <1>7, <2>1 DEF Under
<1>8. QED BY <1>2, <1>4, <1>5, <1>6, <1>7, OnlyGoes

(* The predecessor is copied: its file is opened,                          *)
LEMMA OpenCopyKeeps == ASSUME FilesInv, NEW c \in Clients, OpenCopy(c) PROVE FilesInv'
<1>1. Kinds
  BY DEF FilesInv
<1>2. PICK s \in Everyone : put[c].s = s
  BY <1>1, AtName DEF OpenCopy, At
<1>3. put[c].step = "copy" /\ IsPut(put[c]) /\ s \in Slugs
  BY <1>1, <1>2, AtName DEF OpenCopy, At
<1>4. /\ Doc(s) # Prev(s) /\ NamesOf(s) = {Doc(s), Prev(s), Tmp(s)} /\ Prev(s) \in AllNames
  BY NamesApart, NamesIn
<1>5. UNCHANGED <<backing, assign, puts, assigns, crashes, drawn, whole, kept, crossed, met>>
  BY DEF OpenCopy
<1>6. CASE Exists(Doc(s))
  <2> DEFINE r == [put[c] EXCEPT !.src = file[Doc(s)], !.step = "copy_data"]
             k == InodeAt(Prev(s))
  <2>1. put' = [put EXCEPT ![c] = r] /\ Opened(Prev(s))
    BY <1>2, <1>6 DEF OpenCopy, Goes
  <2>2. file[Doc(s)] \in Inodes /\ file[Doc(s)] \in HeldAt(s) /\ file[Doc(s)] # 0
    BY <1>1, <1>4, <1>6 DEF Exists, Kinds, HeldAt, Inodes
  <2>3. /\ IsPut(r) /\ r.s = s /\ r.fd = 0 /\ r.src = file[Doc(s)] /\ r.step = "copy_data"
        /\ r.data = put[c].data /\ r.old = put[c].old
    BY <1>2, <1>3, <2>2 DEF IsPut, PutSteps
  <2> HIDE DEF r
  <2>4. Rewritten(Prev(s), k, <<>>)
    BY <1>1, <1>4, <2>1, OpenedWrites
  <2>5. k \in HeldAt(s) \union {NewInode}
    BY <1>1, <1>4 DEF HeldAt, InodeAt, Exists, Kinds
  <2> HIDE DEF k
  <2>6. /\ put'[c] = r /\ (\A d \in Clients : d # c => put'[d] = put[d])
        /\ DOMAIN put' = Clients /\ \A d \in Clients : IsPut(put'[d])
    BY <1>1, <2>1, <2>3, PutGoes
  <2>7. Kinds'
    BY <1>1, <1>5, <2>4, <2>6, KindsStep DEF Rewritten
  <2>8. /\ HeldAt(s)' \subseteq HeldAt(s) \union {NewInode}
        /\ \A m \in DOMAIN file \union DOMAIN file' :
             m \in NamesOf(s) \/ (m \in DOMAIN file /\ m \in DOMAIN file' /\ file'[m] = file[m])
        /\ \A i \in Inodes : inode'[i] = inode[i] \/ i \in HeldAt(s) \/ i = NewInode
    <3>1. put'[c].fd \in {0, k} /\ put'[c].src \in HeldAt(s) \union {0} /\ Prev(s) \in NamesOf(s)
      BY <1>4, <2>2, <2>3, <2>6
    <3>2. QED BY <1>1, <1>2, <1>5, <2>4, <2>5, <2>6, <3>1, RewrittenHeld
  <2>9. ASSUME s \notin crossed, Sure(s)
        PROVE  /\ Exists(Doc(s))' => Read(Doc(s))' \in whole'
               /\ kept'[s] # None => Stands(s)' /\ put'[c].s # s
               /\ put'[c].s = s => Under(put[c])'
    <3>1. Under(put[c]) /\ kept[s] = None /\ Read(Doc(s)) \in whole
      BY <1>1, <1>2, <1>6, <2>9, Mine
    <3>2. Exists(Doc(s))' /\ file'[Doc(s)] = file[Doc(s)] /\ Read(Doc(s))' = Read(Doc(s))
      BY <1>4, <1>6, <2>4 DEF Rewritten, Exists, Read
    <3>3. Exists(Prev(s))' /\ Read(Prev(s))' = <<>>
      BY <2>4 DEF Rewritten, Exists, Read
    <3>4. Under(put[c])'
      BY <1>2, <1>3, <1>5, <1>6, <2>3, <2>6, <3>1, <3>2, <3>3 DEF Under
    <3>5. QED BY <1>5, <3>1, <3>2, <3>4
  <2>10. QED BY <1>2, <1>5, <2>3, <2>6, <2>7, <2>8, <2>9, PutStep
<1>7. CASE ~Exists(Doc(s))
  <2> DEFINE r == [put[c] EXCEPT !.step = "tmp"]
  <2>1. put' = [put EXCEPT ![c] = r] /\ file' = file /\ inode' = inode
    BY <1>2, <1>7 DEF OpenCopy, Goes
  <2>3. /\ IsPut(r) /\ r.s = s /\ r.fd = 0 /\ r.src = 0 /\ r.step = "tmp"
        /\ r.data = put[c].data /\ r.old = put[c].old
    BY <1>2, <1>3 DEF IsPut, PutSteps
  <2> HIDE DEF r
  <2>6. /\ put'[c] = r /\ (\A d \in Clients : d # c => put'[d] = put[d])
        /\ DOMAIN put' = Clients /\ \A d \in Clients : IsPut(put'[d])
    BY <1>1, <2>1, <2>3, PutGoes
  <2>7. ASSUME Under(put[c]) PROVE Under(put[c])'
    BY <1>2, <1>3, <1>5, <1>7, <2>1, <2>3, <2>6, <2>7 DEF Under, Exists, Read
  <2>8. QED BY <1>2, <1>5, <2>1, <2>3, <2>6, <2>7, OnlyGoes
<1>8. QED BY <1>6, <1>7

(* The same on a bucket: it is read,                                       *)
LEMMA GetPreviousKeeps == ASSUME FilesInv, NEW c \in Clients, GetPrevious(c) PROVE FilesInv'
<1>1. Kinds
  BY DEF FilesInv
<1>2. PICK s \in Everyone : put[c].s = s
  BY <1>1, AtName DEF GetPrevious, At
<1>3. put[c].step = "copy" /\ IsPut(put[c]) /\ s # None /\ s \in Slugs
  BY <1>1, <1>2, AtName, FilesAssumption DEF GetPrevious, At, Everyone
<1>4. /\ Doc(s) # Prev(s) /\ Doc(s) # Tmp(s) /\ Prev(s) # Tmp(s) /\ NamesOf(s) = {Doc(s), Prev(s), Tmp(s)}
      /\ Doc(s) \in AllNames /\ Prev(s) \in AllNames /\ Tmp(s) \in AllNames
  BY NamesApart, NamesIn
<1>5. UNCHANGED <<backing, file, inode, assign, puts, assigns, crashes, drawn, whole, kept, crossed, met>>
  BY DEF GetPrevious
<1>6. PICK r : /\ IsPut(r) /\ put' = [put EXCEPT ![c] = r] /\ r.s = s /\ r.fd = 0
               /\ r.data = put[c].data /\ r.old = put[c].old
               /\ IF Exists(Doc(s)) THEN r.src = file[Doc(s)] /\ r.step = "put_prev"
                  ELSE r.src = 0 /\ r.step = "tmp"
  <2>1. CASE Exists(Doc(s))
    <3> DEFINE r == [put[c] EXCEPT !.src = file[Doc(s)], !.step = "put_prev"]
    <3>1. file[Doc(s)] \in Inodes /\ file[Doc(s)] # 0
      BY <1>1, <2>1 DEF Exists, Kinds, Inodes
    <3>2. /\ IsPut(r) /\ r.s = s /\ r.fd = 0 /\ r.src = file[Doc(s)] /\ r.step = "put_prev"
          /\ r.data = put[c].data /\ r.old = put[c].old
      BY <1>2, <1>3, <3>1 DEF IsPut, PutSteps
    <3>3. put' = [put EXCEPT ![c] = r]
      BY <1>2, <2>1 DEF GetPrevious, Goes
    <3> HIDE DEF r
    <3>4. QED BY <2>1, <3>2, <3>3
  <2>2. CASE ~Exists(Doc(s))
    <3> DEFINE r == [put[c] EXCEPT !.step = "tmp"]
    <3>2. /\ IsPut(r) /\ r.s = s /\ r.fd = 0 /\ r.src = 0 /\ r.step = "tmp"
          /\ r.data = put[c].data /\ r.old = put[c].old
      BY <1>2, <1>3 DEF IsPut, PutSteps
    <3>3. put' = [put EXCEPT ![c] = r]
      BY <1>2, <2>2 DEF GetPrevious, Goes
    <3> HIDE DEF r
    <3>4. QED BY <2>2, <3>2, <3>3
  <2>3. QED BY <2>1, <2>2
<1>7. /\ put'[c] = r /\ (\A d \in Clients : d # c => put'[d] = put[d])
      /\ DOMAIN put' = Clients /\ \A d \in Clients : IsPut(put'[d])
  BY <1>1, <1>6, PutGoes
<1>8. put'[c].src \in HeldAt(s) \union {0}
  BY <1>1, <1>4, <1>6, <1>7 DEF Exists, Kinds, HeldAt
<1>9. ASSUME Under(put[c]) PROVE Under(put[c])'
  BY <1>2, <1>3, <1>5, <1>6, <1>7, <1>9 DEF Under, Exists, Read
<1>10. QED BY <1>2, <1>5, <1>6, <1>7, <1>8, <1>9, OnlyGoes

(* and filled.                                                             *)
LEMMA CopyDataKeeps == ASSUME FilesInv, NEW c \in Clients, CopyData(c) PROVE FilesInv'
<1>1. Kinds
  BY DEF FilesInv
<1>2. PICK s \in Everyone : put[c].s = s
  BY <1>1, AtName DEF CopyData, At
<1>3. put[c].step = "copy_data" /\ IsPut(put[c]) /\ s # None /\ s \in Slugs
  BY <1>1, <1>2, AtName, FilesAssumption DEF CopyData, At, Everyone
<1>4. /\ Doc(s) # Prev(s) /\ Doc(s) # Tmp(s) /\ Prev(s) # Tmp(s) /\ NamesOf(s) = {Doc(s), Prev(s), Tmp(s)}
      /\ Doc(s) \in AllNames /\ Prev(s) \in AllNames /\ Tmp(s) \in AllNames
  BY NamesApart, NamesIn
<1>5. UNCHANGED <<backing, file, assign, puts, assigns, crashes, drawn, whole, kept, crossed, met>>
  BY DEF CopyData
<1> DEFINE k == file[Prev(s)]
           data == Overwritten(inode[k], inode[put[c].src])
           r == [put[c] EXCEPT !.src = 0, !.step = "tmp"]
<1>6. /\ put' = [put EXCEPT ![c] = r] /\ inode' = [inode EXCEPT ![k] = data]
      /\ Exists(Prev(s)) /\ k \in Inodes
  BY <1>1, <1>2 DEF CopyData, Goes, Exists, Kinds
<1>7. /\ IsPut(r) /\ r.s = s /\ r.fd = 0 /\ r.src = 0 /\ r.step = "tmp"
      /\ r.data = put[c].data /\ r.old = put[c].old
  BY <1>2, <1>3 DEF IsPut, PutSteps
<1>8. k \in HeldAt(s) \union {NewInode} /\ Rewritten(Prev(s), k, data)
  <2> HIDE DEF data
  <2>1. k \in HeldAt(s)
    BY <1>4, <1>6 DEF HeldAt, Exists
  <2>2. DOMAIN inode' = Inodes /\ inode'[k] = data /\ \A i \in Inodes : i # k => inode'[i] = inode[i]
    BY <1>1, <1>6 DEF Kinds
  <2>3. file' = file /\ \A m \in DOMAIN file : m # Prev(s) => file[m] # k
    BY <1>1, <1>5, <1>6 DEF Kinds, Exists
  <2>4. \A m \in DOMAIN file : m # Prev(s) => file'[m] = file[m] /\ inode'[file'[m]] = inode[file[m]]
    BY <1>1, <2>2, <2>3 DEF Kinds
  <2>5. /\ DOMAIN file' \subseteq AllNames /\ \A m \in DOMAIN file' : file'[m] \in Inodes
        /\ \A m, l \in DOMAIN file' : file'[m] = file'[l] => m = l
        /\ DOMAIN file' = DOMAIN file \union {Prev(s)} /\ file'[Prev(s)] = k
    BY <1>1, <1>6, <2>3 DEF Kinds, Exists
  <2>6. QED BY <1>6, <2>1, <2>2, <2>4, <2>5 DEF Rewritten
<1> HIDE DEF r, k
<1>9. /\ put'[c] = r /\ (\A d \in Clients : d # c => put'[d] = put[d])
      /\ DOMAIN put' = Clients /\ \A d \in Clients : IsPut(put'[d])
  BY <1>1, <1>6, <1>7, PutGoes
<1>10. Kinds'
  BY <1>1, <1>5, <1>8, <1>9, KindsStep DEF Rewritten
<1>11. /\ HeldAt(s)' \subseteq HeldAt(s) \union {NewInode}
       /\ \A m \in DOMAIN file \union DOMAIN file' :
            m \in NamesOf(s) \/ (m \in DOMAIN file /\ m \in DOMAIN file' /\ file'[m] = file[m])
       /\ \A i \in Inodes : inode'[i] = inode[i] \/ i \in HeldAt(s) \/ i = NewInode
  <2>1. put'[c].fd \in {0, k} /\ put'[c].src \in HeldAt(s) \union {0} /\ Prev(s) \in NamesOf(s)
    BY <1>4, <1>7, <1>9
  <2>2. QED BY <1>1, <1>2, <1>5, <1>8, <1>9, <2>1, RewrittenHeld
<1>12. ASSUME s \notin crossed, Sure(s)
       PROVE  /\ Exists(Doc(s))' => Read(Doc(s))' \in whole'
              /\ kept'[s] # None => Stands(s)' /\ put'[c].s # s
              /\ put'[c].s = s => Under(put[c])'
  <2>1. Under(put[c]) /\ kept[s] = None /\ (Exists(Doc(s)) => Read(Doc(s)) \in whole)
    BY <1>1, <1>2, <1>12, Mine
  <2>2. Exists(Doc(s)) /\ put[c].src = file[Doc(s)] /\ Exists(Prev(s)) /\ Read(Prev(s)) = <<>>
    BY <1>2, <1>3, <2>1 DEF Under
  <2>3. data = Read(Doc(s))
    BY <2>2 DEF Read, Overwritten, k
  <2> HIDE DEF data
  <2>4. Exists(Doc(s))' /\ Read(Doc(s))' = Read(Doc(s))
    BY <1>4, <1>8, <2>2 DEF Rewritten, Exists, Read
  <2>5. Exists(Prev(s))' /\ Read(Prev(s))' = Read(Doc(s))
    BY <1>8, <2>3 DEF Rewritten, Exists, Read
  <2>6. Under(put[c])'
    BY <1>2, <1>3, <1>5, <1>7, <1>9, <2>1, <2>2, <2>4, <2>5 DEF Under
  <2>7. QED BY <1>5, <2>1, <2>2, <2>4, <2>6
<1> HIDE DEF data
<1>13. QED BY <1>2, <1>5, <1>7, <1>9, <1>10, <1>11, <1>12, PutStep

(* and put beside the document.                                            *)
LEMMA PutPreviousKeeps == ASSUME FilesInv, NEW c \in Clients, PutPrevious(c) PROVE FilesInv'
<1>1. Kinds
  BY DEF FilesInv
<1>2. PICK s \in Everyone : put[c].s = s
  BY <1>1, AtName DEF PutPrevious, At
<1>3. put[c].step = "put_prev" /\ IsPut(put[c]) /\ s # None /\ s \in Slugs
  BY <1>1, <1>2, AtName, FilesAssumption DEF PutPrevious, At, Everyone
<1>4. /\ Doc(s) # Prev(s) /\ Doc(s) # Tmp(s) /\ Prev(s) # Tmp(s) /\ NamesOf(s) = {Doc(s), Prev(s), Tmp(s)}
      /\ Doc(s) \in AllNames /\ Prev(s) \in AllNames /\ Tmp(s) \in AllNames
  BY NamesApart, NamesIn
<1>5. UNCHANGED <<backing, assign, puts, assigns, crashes, drawn, whole, kept, crossed, met>>
  BY DEF PutPrevious
<1> DEFINE k == NewInode
           data == inode[put[c].src]
           r == [put[c] EXCEPT !.src = 0, !.step = "tmp"]
<1>6. put' = [put EXCEPT ![c] = r] /\ Replaced(Prev(s), data)
  BY <1>2 DEF PutPrevious, Goes
<1>7. /\ IsPut(r) /\ r.s = s /\ r.fd = 0 /\ r.src = 0 /\ r.step = "tmp"
      /\ r.data = put[c].data /\ r.old = put[c].old
  BY <1>2, <1>3 DEF IsPut, PutSteps
<1>8. k \in HeldAt(s) \union {NewInode} /\ Rewritten(Prev(s), k, data)
  BY <1>1, <1>4, <1>6, ReplacedWrites
<1> HIDE DEF r, k
<1>9. /\ put'[c] = r /\ (\A d \in Clients : d # c => put'[d] = put[d])
      /\ DOMAIN put' = Clients /\ \A d \in Clients : IsPut(put'[d])
  BY <1>1, <1>6, <1>7, PutGoes
<1>10. Kinds'
  BY <1>1, <1>5, <1>8, <1>9, KindsStep DEF Rewritten
<1>11. /\ HeldAt(s)' \subseteq HeldAt(s) \union {NewInode}
       /\ \A m \in DOMAIN file \union DOMAIN file' :
            m \in NamesOf(s) \/ (m \in DOMAIN file /\ m \in DOMAIN file' /\ file'[m] = file[m])
       /\ \A i \in Inodes : inode'[i] = inode[i] \/ i \in HeldAt(s) \/ i = NewInode
  <2>1. put'[c].fd \in {0, k} /\ put'[c].src \in HeldAt(s) \union {0} /\ Prev(s) \in NamesOf(s)
    BY <1>4, <1>7, <1>9
  <2>2. QED BY <1>1, <1>2, <1>5, <1>8, <1>9, <2>1, RewrittenHeld
<1>12. ASSUME s \notin crossed, Sure(s)
       PROVE  /\ Exists(Doc(s))' => Read(Doc(s))' \in whole'
              /\ kept'[s] # None => Stands(s)' /\ put'[c].s # s
              /\ put'[c].s = s => Under(put[c])'
  <2>1. Under(put[c]) /\ kept[s] = None /\ (Exists(Doc(s)) => Read(Doc(s)) \in whole)
    BY <1>1, <1>2, <1>12, Mine
  <2>2. Exists(Doc(s)) /\ put[c].src = file[Doc(s)]
    BY <1>2, <1>3, <2>1 DEF Under
  <2>3. data = Read(Doc(s))
    BY <2>2 DEF Read
  <2> HIDE DEF data
  <2>4. Exists(Doc(s))' /\ Read(Doc(s))' = Read(Doc(s))
    BY <1>4, <1>8, <2>2 DEF Rewritten, Exists, Read
  <2>5. Exists(Prev(s))' /\ Read(Prev(s))' = Read(Doc(s))
    BY <1>8, <2>3 DEF Rewritten, Exists, Read
  <2>6. Under(put[c])'
    BY <1>2, <1>3, <1>5, <1>7, <1>9, <2>1, <2>2, <2>4, <2>5 DEF Under
  <2>7. QED BY <1>5, <2>1, <2>2, <2>4, <2>6
<1> HIDE DEF data
<1>13. QED BY <1>2, <1>5, <1>7, <1>9, <1>10, <1>11, <1>12, PutStep

(* The temporary file is opened,                                           *)
LEMMA OpenTmpKeeps == ASSUME FilesInv, NEW c \in Clients, OpenTmp(c) PROVE FilesInv'
<1>1. Kinds
  BY DEF FilesInv
<1>2. PICK s \in Everyone : put[c].s = s
  BY <1>1, AtName DEF OpenTmp, At
<1>3. put[c].step = "tmp" /\ IsPut(put[c]) /\ s # None
  BY <1>1, <1>2, AtName, FilesAssumption DEF OpenTmp, At, Everyone
<1>4. /\ Doc(s) # Prev(s) /\ Doc(s) # Tmp(s) /\ Prev(s) # Tmp(s) /\ NamesOf(s) = {Doc(s), Prev(s), Tmp(s)}
      /\ Doc(s) \in AllNames /\ Prev(s) \in AllNames /\ Tmp(s) \in AllNames
  BY NamesApart, NamesIn
<1>5. UNCHANGED <<backing, assign, puts, assigns, crashes, drawn, whole, kept, crossed, met>>
  BY DEF OpenTmp
<1> DEFINE k == InodeAt(Tmp(s))
           data == <<>>
           r == [put[c] EXCEPT !.fd = k, !.step = "write"]
<1>6. put' = [put EXCEPT ![c] = r] /\ Opened(Tmp(s))
  BY <1>2 DEF OpenTmp, Goes, InodeAt
<1>7. k \in HeldAt(s) \union {NewInode} /\ Rewritten(Tmp(s), k, data)
  <2>1. Rewritten(Tmp(s), k, data)
    BY <1>1, <1>4, <1>6, OpenedWrites
  <2>2. QED BY <1>1, <1>4, <2>1 DEF HeldAt, InodeAt, Exists, Kinds
<1>8. /\ IsPut(r) /\ r.s = s /\ r.fd = k /\ r.src = 0 /\ r.step = "write"
      /\ r.data = put[c].data /\ r.old = put[c].old
  <2> HIDE DEF k
  <2>1. k \in Inodes /\ k # 0
    BY <1>7 DEF Rewritten, Inodes
  <2>2. QED BY <1>2, <1>3, <2>1 DEF IsPut, PutSteps
<1> HIDE DEF r, k
<1>9. /\ put'[c] = r /\ (\A d \in Clients : d # c => put'[d] = put[d])
      /\ DOMAIN put' = Clients /\ \A d \in Clients : IsPut(put'[d])
  BY <1>1, <1>6, <1>8, PutGoes
<1>10. Kinds'
  BY <1>1, <1>5, <1>7, <1>9, KindsStep DEF Rewritten
<1>11. /\ HeldAt(s)' \subseteq HeldAt(s) \union {NewInode}
       /\ \A m \in DOMAIN file \union DOMAIN file' :
            m \in NamesOf(s) \/ (m \in DOMAIN file /\ m \in DOMAIN file' /\ file'[m] = file[m])
       /\ \A i \in Inodes : inode'[i] = inode[i] \/ i \in HeldAt(s) \/ i = NewInode
  <2>1. put'[c].fd \in {0, k} /\ put'[c].src \in HeldAt(s) \union {0} /\ Tmp(s) \in NamesOf(s)
    BY <1>4, <1>8, <1>9
  <2>2. QED BY <1>1, <1>2, <1>5, <1>7, <1>9, <2>1, RewrittenHeld
<1>12. ASSUME s \notin crossed, Sure(s)
       PROVE  /\ Exists(Doc(s))' => Read(Doc(s))' \in whole'
              /\ kept'[s] # None => Stands(s)' /\ put'[c].s # s
              /\ put'[c].s = s => Under(put[c])'
  <2>1. Under(put[c]) /\ kept[s] = None /\ (Exists(Doc(s)) => Read(Doc(s)) \in whole)
    BY <1>1, <1>2, <1>12, Mine
  <2>2. Exists(Doc(s))' = Exists(Doc(s)) /\ (Exists(Doc(s)) => Read(Doc(s))' = Read(Doc(s)))
    BY <1>4, <1>7 DEF Rewritten, Exists, Read
  <2>3. Exists(Prev(s)) => Exists(Prev(s))' /\ Read(Prev(s))' = Read(Prev(s))
    BY <1>4, <1>7 DEF Rewritten, Exists, Read
  <2>4. Exists(Tmp(s))' /\ file'[Tmp(s)] = k /\ Read(Tmp(s))' = <<>>
    BY <1>7 DEF Rewritten, Exists, Read
  <2>5. Under(put[c])'
    BY <1>2, <1>3, <1>5, <1>8, <1>9, <2>1, <2>2, <2>3, <2>4 DEF Under
  <2>6. QED BY <1>5, <2>1, <2>2, <2>5
<1>13. QED BY <1>2, <1>5, <1>8, <1>9, <1>10, <1>11, <1>12, PutStep

(* On a bucket the document is replaced.                                   *)
LEMMA PutObjectKeeps == ASSUME FilesInv, NEW c \in Clients, PutObject(c) PROVE FilesInv'
<1>1. Kinds
  BY DEF FilesInv
<1>2. PICK s \in Everyone : put[c].s = s
  BY <1>1, AtName DEF PutObject, At
<1>3. put[c].step = "tmp" /\ IsPut(put[c]) /\ s # None
  BY <1>1, <1>2, AtName, FilesAssumption DEF PutObject, At, Everyone
<1>4. /\ Doc(s) # Prev(s) /\ Doc(s) # Tmp(s) /\ Prev(s) # Tmp(s) /\ NamesOf(s) = {Doc(s), Prev(s), Tmp(s)}
      /\ Doc(s) \in AllNames /\ Prev(s) \in AllNames /\ Tmp(s) \in AllNames
  BY NamesApart, NamesIn
<1>5. UNCHANGED <<backing, assign, puts, assigns, crashes, drawn, whole, crossed, met>>
  BY DEF PutObject
<1> DEFINE k == NewInode
           data == put[c].data
           r == NoPut
<1>6. /\ put' = [put EXCEPT ![c] = r] /\ Replaced(Doc(s), data)
      /\ kept' = IF put[c].alone THEN [kept EXCEPT ![s] = Promised(put[c])] ELSE kept
  BY <1>2 DEF PutObject, Answered
<1>7. IsPut(r) /\ r.s = None /\ r.fd = 0 /\ r.src = 0
  BY IdlePut
<1>8. k \in HeldAt(s) \union {NewInode} /\ Rewritten(Doc(s), k, data)
  BY <1>1, <1>4, <1>6, ReplacedWrites
<1> HIDE DEF r, k
<1>9. /\ put'[c] = r /\ (\A d \in Clients : d # c => put'[d] = put[d])
      /\ DOMAIN put' = Clients /\ \A d \in Clients : IsPut(put'[d])
  BY <1>1, <1>6, <1>7, PutGoes
<1>10. DOMAIN kept' = DOMAIN kept /\ (\A t \in Everyone : t # s => kept'[t] = kept[t])
       /\ (kept'[s] = Promised(put[c]) \/ kept'[s] = kept[s])
  BY <1>1, <1>6 DEF Kinds
<1>11. Kinds'
  BY <1>1, <1>5, <1>8, <1>9, <1>10, KindsStep DEF Rewritten
<1>12. /\ HeldAt(s)' \subseteq HeldAt(s) \union {NewInode}
       /\ \A m \in DOMAIN file \union DOMAIN file' :
            m \in NamesOf(s) \/ (m \in DOMAIN file /\ m \in DOMAIN file' /\ file'[m] = file[m])
       /\ \A i \in Inodes : inode'[i] = inode[i] \/ i \in HeldAt(s) \/ i = NewInode
  <2>1. put'[c].fd \in {0, k} /\ put'[c].src \in HeldAt(s) \union {0} /\ Doc(s) \in NamesOf(s)
    BY <1>4, <1>7, <1>9
  <2>2. QED BY <1>1, <1>2, <1>5, <1>8, <1>9, <2>1, RewrittenHeld
<1>13. ASSUME s \notin crossed, Sure(s)
       PROVE  /\ Exists(Doc(s))' => Read(Doc(s))' \in whole'
              /\ kept'[s] # None => Stands(s)' /\ put'[c].s # s
              /\ put'[c].s = s => Under(put[c])'
  <2>1. Under(put[c]) /\ kept[s] = None
    BY <1>1, <1>2, <1>13, Mine
  <2>2. Exists(Doc(s))' /\ Read(Doc(s))' = data
    BY <1>8 DEF Rewritten, Exists, Read
  <2>3. Exists(Prev(s)) => Exists(Prev(s))' /\ Read(Prev(s))' = Read(Prev(s))
    BY <1>4, <1>8 DEF Rewritten, Exists, Read
  <2>4. data \in whole'
    BY <1>3, <1>5, <2>1 DEF Under
  <2>5. ASSUME kept'[s] # None PROVE Stands(s)'
    <3>1. kept'[s] = Promised(put[c])
      BY <1>10, <2>1, <2>5
    <3>2. kept'[s].now = data /\ kept'[s].before = (IF s \in Agents THEN None ELSE put[c].old)
      BY <1>2, <3>1 DEF Promised
    <3>3. ASSUME kept'[s].before # None
          PROVE  Exists(Prev(s))' /\ Read(Prev(s))' = kept'[s].before
      <4>1. s \in Slugs /\ put[c].old # None /\ kept'[s].before = put[c].old
        BY <3>2, <3>3 DEF Everyone
      <4>2. Exists(Doc(s)) /\ put[c].old = Read(Doc(s))
        BY <1>2, <2>1, <4>1 DEF Under
      <4>3. Exists(Prev(s)) /\ Read(Prev(s)) = Read(Doc(s))
        BY <1>2, <1>3, <2>1, <4>1, <4>2 DEF Under
      <4>4. QED BY <2>3, <4>1, <4>2, <4>3
    <3>4. QED BY <2>2, <3>2, <3>3 DEF Stands
  <2>6. put'[c].s # s
    BY <1>3, <1>7, <1>9
  <2>7. QED BY <2>2, <2>4, <2>5, <2>6
<1> HIDE DEF data
<1>14. QED BY <1>2, <1>5, <1>7, <1>9, <1>11, <1>12, <1>13, <1>10, PutStep

(* filled,                                                                 *)
LEMMA WriteTmpKeeps == ASSUME FilesInv, NEW c \in Clients, WriteTmp(c) PROVE FilesInv'
<1>1. Kinds
  BY DEF FilesInv
<1>2. PICK s \in Everyone : put[c].s = s
  BY <1>1, AtName DEF WriteTmp, At
<1>3. put[c].step = "write" /\ IsPut(put[c]) /\ s # None
  BY <1>1, <1>2, AtName, FilesAssumption DEF WriteTmp, At, Everyone
<1>4. /\ Doc(s) # Prev(s) /\ Doc(s) # Tmp(s) /\ Prev(s) # Tmp(s) /\ NamesOf(s) = {Doc(s), Prev(s), Tmp(s)}
      /\ Doc(s) \in AllNames /\ Prev(s) \in AllNames /\ Tmp(s) \in AllNames
  BY NamesApart, NamesIn
<1>5. UNCHANGED <<backing, file, assign, puts, assigns, crashes, drawn, whole, kept, crossed, met>>
  BY DEF WriteTmp
<1> DEFINE k == put[c].fd
           data == Overwritten(inode[k], put[c].data)
           r == [put[c] EXCEPT !.fd = 0, !.step = "rename"]
<1>6. /\ put' = [put EXCEPT ![c] = r] /\ inode' = [inode EXCEPT ![k] = data]
      /\ k \in Inodes /\ k \in HeldAt(s)
  BY <1>2, <1>3 DEF WriteTmp, Goes, IsPut, HeldAt
<1>7. /\ IsPut(r) /\ r.s = s /\ r.fd = 0 /\ r.src = 0 /\ r.step = "rename"
      /\ r.data = put[c].data /\ r.old = put[c].old
  BY <1>2, <1>3 DEF IsPut, PutSteps
<1>8. DOMAIN inode' = Inodes /\ inode'[k] = data /\ \A i \in Inodes : i # k => inode'[i] = inode[i]
  <2> HIDE DEF data
  <2>1. QED BY <1>1, <1>6 DEF Kinds
<1> HIDE DEF r
<1>9. /\ put'[c] = r /\ (\A d \in Clients : d # c => put'[d] = put[d])
      /\ DOMAIN put' = Clients /\ \A d \in Clients : IsPut(put'[d])
  BY <1>1, <1>6, <1>7, PutGoes
<1>10. Kinds'
  <2>1. /\ DOMAIN kept' = DOMAIN kept
        /\ DOMAIN file' \subseteq AllNames /\ \A m \in DOMAIN file' : file'[m] \in Inodes
        /\ \A m, l \in DOMAIN file' : file'[m] = file'[l] => m = l
    BY <1>1, <1>5 DEF Kinds
  <2>2. QED BY <1>1, <1>5, <1>8, <1>9, <2>1, KindsStep
<1>11. /\ HeldAt(s)' \subseteq HeldAt(s) \union {NewInode}
       /\ \A m \in DOMAIN file \union DOMAIN file' :
            m \in NamesOf(s) \/ (m \in DOMAIN file /\ m \in DOMAIN file' /\ file'[m] = file[m])
       /\ \A i \in Inodes : inode'[i] = inode[i] \/ i \in HeldAt(s) \/ i = NewInode
  <2>1. ASSUME NEW e \in Clients, NEW i \in Inodes, put'[e].s = s, i \in {put'[e].fd, put'[e].src}
        PROVE  put[e].s = s /\ i \in {put[e].fd, put[e].src}
    <3>1. i # 0
      BY DEF Inodes
    <3>2. QED BY <1>2, <1>7, <1>9, <2>1, <3>1
  <2>2. WritesAt(s)' = WritesAt(s) /\ file' = file /\ assign' = assign
    BY <1>5 DEF WritesAt
  <2>3. HeldAt(s)' \subseteq HeldAt(s)
    BY <2>1, <2>2 DEF HeldAt
  <2>4. QED BY <1>5, <1>6, <1>8, <2>3
<1>12. ASSUME s \notin crossed, Sure(s)
       PROVE  /\ Exists(Doc(s))' => Read(Doc(s))' \in whole'
              /\ kept'[s] # None => Stands(s)' /\ put'[c].s # s
              /\ put'[c].s = s => Under(put[c])'
  <2>1. Under(put[c]) /\ kept[s] = None /\ (Exists(Doc(s)) => Read(Doc(s)) \in whole)
    BY <1>1, <1>2, <1>12, Mine
  <2>2. Exists(Tmp(s)) /\ k = file[Tmp(s)] /\ Read(Tmp(s)) = <<>>
    BY <1>2, <1>3, <2>1 DEF Under
  <2>3. data = put[c].data
    BY <2>2 DEF Read, Overwritten
  <2> HIDE DEF data, k
  <2>4. \A m \in DOMAIN file : m # Tmp(s) => inode'[file[m]] = inode[file[m]]
    BY <1>1, <1>8, <2>2 DEF Kinds, Exists
  <2>5. Exists(Doc(s))' = Exists(Doc(s)) /\ (Exists(Doc(s)) => Read(Doc(s))' = Read(Doc(s)))
    BY <1>4, <1>5, <2>4 DEF Exists, Read
  <2>6. Exists(Prev(s))' = Exists(Prev(s)) /\ (Exists(Prev(s)) => Read(Prev(s))' = Read(Prev(s)))
    BY <1>4, <1>5, <2>4 DEF Exists, Read
  <2>7. Exists(Tmp(s))' /\ Read(Tmp(s))' = put[c].data
    BY <1>5, <1>8, <2>2, <2>3 DEF Exists, Read
  <2>8. Under(put[c])'
    BY <1>2, <1>3, <1>5, <1>7, <1>9, <2>1, <2>5, <2>6, <2>7 DEF Under
  <2>9. QED BY <1>5, <2>1, <2>5, <2>8
<1> HIDE DEF data
<1>13. QED BY <1>2, <1>5, <1>7, <1>9, <1>10, <1>11, <1>12, PutStep

(* and renamed over the document; the PUT is answered.                     *)
LEMMA RenameKeeps == ASSUME FilesInv, NEW c \in Clients, Rename(c) PROVE FilesInv'
<1>1. Kinds
  BY DEF FilesInv
<1>2. PICK s \in Everyone : put[c].s = s
  BY <1>1, AtName DEF Rename, At
<1>3. put[c].step = "rename" /\ IsPut(put[c]) /\ s # None
  BY <1>1, <1>2, AtName, FilesAssumption DEF Rename, At, Everyone
<1>4. /\ Doc(s) # Prev(s) /\ Doc(s) # Tmp(s) /\ Prev(s) # Tmp(s) /\ NamesOf(s) = {Doc(s), Prev(s), Tmp(s)}
      /\ Doc(s) \in AllNames /\ Prev(s) \in AllNames /\ Tmp(s) \in AllNames
  BY NamesApart, NamesIn
<1>5. UNCHANGED <<backing, inode, assign, puts, assigns, crashes, drawn, whole, crossed, met>>
  BY DEF Rename
<1> DEFINE r == NoPut
<1>6. put' = [put EXCEPT ![c] = r]
  BY DEF Rename, Answered
<1>7. IsPut(r) /\ r.s = None /\ r.fd = 0 /\ r.src = 0
  BY IdlePut
<1> HIDE DEF r
<1>8. /\ put'[c] = r /\ (\A d \in Clients : d # c => put'[d] = put[d])
      /\ DOMAIN put' = Clients /\ \A d \in Clients : IsPut(put'[d])
  BY <1>1, <1>6, <1>7, PutGoes
<1>9. CASE ~Exists(Tmp(s))
  <2>1. file' = file /\ kept' = kept
    BY <1>2, <1>9 DEF Rename
  <2>2. put'[c].s # s
    BY <1>3, <1>7, <1>8
  <2>3. QED BY <1>2, <1>5, <1>7, <1>8, <2>1, <2>2, OnlyGoes
<1>10. CASE Exists(Tmp(s))
  <2>1. /\ file' = [n \in (DOMAIN file \union {Doc(s)}) \ {Tmp(s)} |->
                      IF n = Doc(s) THEN file[Tmp(s)] ELSE file[n]]
        /\ kept' = IF put[c].alone THEN [kept EXCEPT ![s] = Promised(put[c])] ELSE kept
    BY <1>2, <1>10 DEF Rename
  <2>2. /\ DOMAIN file' = (DOMAIN file \union {Doc(s)}) \ {Tmp(s)} /\ file'[Doc(s)] = file[Tmp(s)]
        /\ \A m \in DOMAIN file' : m # Doc(s) => m \in DOMAIN file /\ file'[m] = file[m]
    BY <1>4, <2>1
  <2>3. DOMAIN kept' = DOMAIN kept /\ (\A t \in Everyone : t # s => kept'[t] = kept[t])
        /\ (kept'[s] = Promised(put[c]) \/ kept'[s] = kept[s])
    BY <1>1, <2>1 DEF Kinds
  <2>4. Kinds'
    <3>1. DOMAIN file' \subseteq AllNames /\ \A m \in DOMAIN file' : file'[m] \in Inodes
      BY <1>1, <1>4, <1>10, <2>2 DEF Kinds, Exists
    <3>2. \A m, l \in DOMAIN file' : file'[m] = file'[l] => m = l
      BY <1>1, <1>10, <2>2 DEF Kinds, Exists
    <3>3. DOMAIN inode' = Inodes
      BY <1>1, <1>5 DEF Kinds
    <3>4. QED BY <1>1, <1>5, <1>8, <2>3, <3>1, <3>2, <3>3, KindsStep
  <2>5. HeldAt(s)' \subseteq HeldAt(s) \union {NewInode}
    <3>1. ASSUME NEW e \in Clients, put'[e].s = s PROVE e # c
      BY <1>3, <1>7, <1>8, <3>1
    <3>2. \A e \in Clients : put'[e].s = s => put[e] = put'[e]
      BY <1>8, <3>1
    <3>3. WritesAt(s)' = WritesAt(s) /\ assign' = assign
      BY <1>5 DEF WritesAt
    <3>4. \A m \in NamesOf(s) \intersect DOMAIN file' :
            \E l \in NamesOf(s) \intersect DOMAIN file : file[l] = file'[m]
      BY <1>4, <1>10, <2>2 DEF Exists
    <3>5. QED BY <3>2, <3>3, <3>4 DEF HeldAt
  <2>6. /\ \A m \in DOMAIN file \union DOMAIN file' :
             m \in NamesOf(s) \/ (m \in DOMAIN file /\ m \in DOMAIN file' /\ file'[m] = file[m])
        /\ \A i \in Inodes : inode'[i] = inode[i] \/ i \in HeldAt(s) \/ i = NewInode
    BY <1>4, <1>5, <2>2
  <2>7. ASSUME s \notin crossed, Sure(s)
        PROVE  /\ Exists(Doc(s))' => Read(Doc(s))' \in whole'
               /\ kept'[s] # None => Stands(s)' /\ put'[c].s # s
               /\ put'[c].s = s => Under(put[c])'
    <3>1. Under(put[c]) /\ kept[s] = None
      BY <1>1, <1>2, <2>7, Mine
    <3>2. Exists(Doc(s))' /\ Read(Doc(s))' = put[c].data
      <4>1. Read(Tmp(s)) = put[c].data
        BY <1>2, <1>3, <3>1 DEF Under
      <4>2. QED BY <1>4, <1>5, <2>2, <4>1 DEF Exists, Read
    <3>3. Exists(Prev(s)) => Exists(Prev(s))' /\ Read(Prev(s))' = Read(Prev(s))
      BY <1>4, <1>5, <2>2 DEF Exists, Read
    <3>4. put[c].data \in whole'
      BY <1>3, <1>5, <3>1 DEF Under
    <3>5. ASSUME kept'[s] # None PROVE Stands(s)'
      <4>1. kept'[s] = Promised(put[c])
        BY <2>3, <3>1, <3>5
      <4>2. kept'[s].now = put[c].data /\ kept'[s].before = (IF s \in Agents THEN None ELSE put[c].old)
        BY <1>2, <4>1 DEF Promised
      <4>3. ASSUME kept'[s].before # None
            PROVE  Exists(Prev(s))' /\ Read(Prev(s))' = kept'[s].before
        <5>1. s \in Slugs /\ put[c].old # None /\ kept'[s].before = put[c].old
          BY <4>2, <4>3 DEF Everyone
        <5>2. Exists(Doc(s)) /\ put[c].old = Read(Doc(s))
          BY <1>2, <3>1, <5>1 DEF Under
        <5>3. Exists(Prev(s)) /\ Read(Prev(s)) = Read(Doc(s))
          BY <1>2, <1>3, <3>1, <5>1, <5>2 DEF Under
        <5>4. QED BY <3>3, <5>1, <5>2, <5>3
      <4>4. QED BY <3>2, <4>2, <4>3 DEF Stands
    <3>6. put'[c].s # s
      BY <1>3, <1>7, <1>8
    <3>7. QED BY <3>2, <3>4, <3>5, <3>6
  <2>8. QED BY <1>2, <1>5, <1>7, <1>8, <2>3, <2>4, <2>5, <2>6, <2>7, PutStep
<1>11. QED BY <1>9, <1>10

(* A PUT begins: who else is at the name is then crossed.                  *)
LEMMA RequestKeeps == ASSUME FilesInv, NEW c \in Clients, Request(c) PROVE FilesInv'
<1>1. Kinds /\ NoneShared
  BY DEF FilesInv
<1>2. /\ put[c].step = "idle" /\ puts < MaxPuts /\ puts' = puts + 1
      /\ UNCHANGED <<backing, file, inode, assign, assigns, crashes, drawn>>
  BY DEF Request, At
<1> DEFINE Alone(s) == assign.step = "idle" /\ \A d \in {d \in Clients : ~At(d, "idle")} : put[d].s # s
           First(s, b, f) ==
             [NoPut EXCEPT !.step = IF s \in Agents THEN "tmp" ELSE "others",
                           !.s = s, !.body = b, !.force = f, !.alone = Alone(s),
                           !.data = IF s \in Agents THEN b ELSE <<>>,
                           !.old = IF Exists(Doc(s)) THEN Read(Doc(s)) ELSE None]
<1>3. PICK s \in Everyone, b \in Sent :
        \E f \in IF Blocking(b) THEN BOOLEAN ELSE {FALSE} :
        /\ put' = [d \in Clients |-> IF d = c THEN First(s, b, f)
                                     ELSE [put[d] EXCEPT !.alone = @ /\ put[d].s # s]]
        /\ crossed' = IF Alone(s) THEN crossed
                      ELSE crossed \union {s} \union (IF assign.step = "idle" THEN {} ELSE Slugs)
        /\ kept' = [kept EXCEPT ![s] = None]
        /\ whole' = IF s \in Agents THEN whole \union {b} ELSE whole
  BY DEF Request, Everyone
<1> DEFINE fs == IF Blocking(b) THEN BOOLEAN ELSE {FALSE}
<1>4. PICK f \in fs :
        /\ put' = [d \in Clients |-> IF d = c THEN First(s, b, f)
                                     ELSE [put[d] EXCEPT !.alone = @ /\ put[d].s # s]]
        /\ crossed' = IF Alone(s) THEN crossed
                      ELSE crossed \union {s} \union (IF assign.step = "idle" THEN {} ELSE Slugs)
        /\ kept' = [kept EXCEPT ![s] = None]
        /\ whole' = IF s \in Agents THEN whole \union {b} ELSE whole
  BY <1>3
<1> HIDE DEF fs
<1>5. IsPut(put[c]) /\ put[c].s = None /\ s # None
  BY <1>1, <1>2, FilesAssumption DEF Kinds, IsPut, Everyone
<1>6. /\ put'[c].s = s /\ put'[c].fd = 0 /\ put'[c].src = 0
      /\ put'[c].step = IF s \in Agents THEN "tmp" ELSE "others"
      /\ put'[c].data = IF s \in Agents THEN b ELSE <<>>
      /\ put'[c].old = IF Exists(Doc(s)) THEN Read(Doc(s)) ELSE None
      /\ IsPut(put'[c])
  <2> DEFINE r == First(s, b, f)
  <2>1. put'[c] = r
    BY <1>4
  <2>2. /\ r.s = s /\ r.fd = 0 /\ r.src = 0
        /\ r.step = (IF s \in Agents THEN "tmp" ELSE "others")
        /\ r.data = (IF s \in Agents THEN b ELSE <<>>)
        /\ r.old = (IF Exists(Doc(s)) THEN Read(Doc(s)) ELSE None)
        /\ DOMAIN r = {"step", "s", "body", "force", "fd", "src", "data", "alone", "old"}
    BY DEF NoPut
  <2> HIDE DEF r
  <2>3. IsPut(r)
    BY <1>5, <2>2 DEF IsPut, PutSteps, Everyone
  <2>4. QED BY <2>1, <2>2, <2>3
<1>7. ASSUME NEW d \in Clients, d # c
      PROVE  /\ put'[d].s = put[d].s /\ put'[d].step = put[d].step /\ put'[d].fd = put[d].fd
             /\ put'[d].src = put[d].src /\ put'[d].data = put[d].data /\ put'[d].old = put[d].old
             /\ IsPut(put'[d])
  <2>1. put'[d] = [put[d] EXCEPT !.alone = @ /\ put[d].s # s] /\ IsPut(put[d])
    BY <1>1, <1>4, <1>7 DEF Kinds
  <2>2. QED BY <2>1 DEF IsPut
<1>8. whole \subseteq whole' /\ (\A t \in Everyone : t # s => kept'[t] = kept[t]) /\ kept'[s] = None
      /\ DOMAIN kept' = DOMAIN kept /\ crossed \subseteq crossed' /\ DOMAIN put' = Clients
  BY <1>1, <1>4 DEF Kinds
<1>9. Kinds'
  <2>1. IsAssign(assign)'
    BY <1>1, <1>2, <1>8, AssignStays DEF Kinds
  <2>2. \A d \in Clients : IsPut(put'[d])
    BY <1>6, <1>7
  <2>3. puts' \in 0 .. MaxPuts
    BY <1>1, <1>2, FilesAssumption DEF Kinds
  <2>4. crossed' \subseteq Everyone
    BY <1>1, <1>4 DEF Kinds, Everyone
  <2>5. QED BY <1>1, <1>2, <1>8, <2>1, <2>2, <2>3, <2>4 DEF Kinds
<1>10. \A t \in Everyone : t # s => Untouched(t)
  <2> SUFFICES ASSUME NEW t \in Everyone, t # s PROVE Untouched(t)
    OBVIOUS
  <2>1. t # None
    BY FilesAssumption DEF Everyone
  <2>2. \A d \in Clients :
          /\ put'[d].s = t <=> put[d].s = t
          /\ put[d].s = t =>
               /\ put'[d].step = put[d].step /\ put'[d].fd = put[d].fd /\ put'[d].src = put[d].src
               /\ put'[d].data = put[d].data /\ put'[d].old = put[d].old
    BY <1>5, <1>6, <1>7, <2>1
  <2>3. (WritesAt(t)' <=> WritesAt(t)) /\ (ToWrite(t)' <=> ToWrite(t))
    BY <1>2 DEF WritesAt, ToWrite
  <2>4. QED BY <1>2, <1>8, <2>2, <2>3 DEF Untouched
<1>11. HeldAt(s)' \subseteq HeldAt(s)
  <2>1. ASSUME NEW e \in Clients, NEW i \in Inodes, put'[e].s = s, i \in {put'[e].fd, put'[e].src}
        PROVE  put[e].s = s /\ i \in {put[e].fd, put[e].src}
    <3>1. i # 0
      BY DEF Inodes
    <3>2. QED BY <1>6, <1>7, <2>1, <3>1
  <2>2. WritesAt(s)' = WritesAt(s) /\ file' = file /\ assign' = assign
    BY <1>2 DEF WritesAt
  <2>3. QED BY <2>1, <2>2 DEF HeldAt
<1>12. NoneShared'
  BY <1>1, <1>10, <1>11, StillApart
<1>13. ASSUME NEW t \in Everyone \ crossed' PROVE Sure(t)'
  <2>1. Sure(t)
    BY <1>8 DEF FilesInv
  <2>2. CASE t # s
    BY <1>10, <2>1, <2>2, UntouchedSure
  <2>3. CASE t = s
    <3>1. Alone(s)
      BY <1>4, <1>13, <2>3
    <3>2. assign.step = "idle" /\ assign.todo = <<>> /\ \A d \in Clients : put[d].s # s
      BY <1>1, <1>5, <3>1 DEF Kinds, IsAssign, IsPut, At
    <3>3. \A d \in Clients : put'[d].s = s => d = c
      BY <1>7, <3>2
    <3>4. ~WritesAt(s)' /\ ~WritesAt(s) /\ assign'.step = "idle"
      BY <1>2, <3>2 DEF WritesAt
    <3>5. Exists(Doc(s))' => Read(Doc(s))' \in whole'
      BY <1>2, <1>8, <2>1, <2>3, <3>4 DEF Sure, Exists, Read
    <3>6. Under(put[c])'
      <4>1. s \in Agents => s \notin Slugs
        BY FilesAssumption
      <4>2. put'[c].old = IF Exists(Doc(s))' THEN Read(Doc(s))' ELSE None
        BY <1>2, <1>6 DEF Exists, Read
      <4>3. put'[c].step # "others" => put'[c].data \in whole'
        <5> HIDE DEF First, Alone
        <5>1. s \in Agents => b \in whole'
          BY <1>4
        <5>2. QED BY <1>6, <5>1
      <4>4. QED BY <1>6, <4>1, <4>2, <4>3 DEF Under
    <3>7. QED BY <1>8, <2>3, <3>3, <3>4, <3>5, <3>6 DEF Sure
  <2>4. QED BY <2>2, <2>3
<1>14. QED BY <1>9, <1>12, <1>13 DEF FilesInv

(* A finite set as a sequence. *)
LEMMA AsSequence ==
  ASSUME NEW S, IsFiniteSet(S)
  PROVE  SetToSeq(S) \in Seq(S)
<1>1. Cardinality(S) \in Nat /\ \E f : f \in Bijection(1 .. Cardinality(S), S)
  BY FS_CardinalityType DEF ExistsBijection
<1>2. PICK f : f \in Bijection(1 .. Cardinality(S), S)
  BY <1>1
<1>3. f \in [1 .. Cardinality(S) -> S] /\ IsInjective(f)
  BY <1>2 DEF Bijection, Injection, IsInjective
<1>4. SetToSeq(S) \in [1 .. Cardinality(S) -> S]
  BY <1>3 DEF SetToSeq
<1>5. QED BY <1>1, <1>4

(* What assign-ids is to write is of documents, and texts to be stored. *)
LEMMA TodoOfDocs ==
  ASSUME Kinds
  PROVE  /\ \A i \in DOMAIN assign.todo : assign.todo[i].s \in Slugs
         /\ assign.todo # <<>> =>
              /\ Head(assign.todo).s \in Slugs /\ Head(assign.todo).data \in whole
              /\ ToWrite(Head(assign.todo).s)
              /\ Tail(assign.todo) \in Seq([s : Slugs, data : whole])
              /\ \A i \in DOMAIN Tail(assign.todo) :
                   \E j \in DOMAIN assign.todo : Tail(assign.todo)[i] = assign.todo[j]
<1> DEFINE T == [s : Slugs, data : whole]
           todo == assign.todo
<1>1. todo \in Seq(T) /\ \A e \in T : e.s \in Slugs /\ e.data \in whole
  BY DEF Kinds, IsAssign
<1> HIDE DEF T
<1>2. \A i \in DOMAIN todo : todo[i] \in T
  BY <1>1
<1>3. ASSUME todo # <<>>
      PROVE  /\ Head(todo) = todo[1] /\ 1 \in DOMAIN todo /\ Tail(todo) \in Seq(T)
             /\ \A i \in DOMAIN Tail(todo) : \E j \in DOMAIN todo : Tail(todo)[i] = todo[j]
  <2>1. Len(todo) \in Nat \ {0} /\ DOMAIN todo = 1 .. Len(todo)
    BY <1>1, <1>3
  <2>2. Head(todo) = todo[1] /\ 1 \in DOMAIN todo /\ Tail(todo) \in Seq(T)
    BY <1>1, <1>3, <2>1
  <2>3. ASSUME NEW i \in DOMAIN Tail(todo) PROVE \E j \in DOMAIN todo : Tail(todo)[i] = todo[j]
    <3>1. i \in 1 .. Len(todo) - 1 /\ Tail(todo)[i] = todo[i + 1]
      BY <1>1, <1>3, <2>1
    <3>2. i + 1 \in DOMAIN todo
      BY <2>1, <3>1
    <3>3. QED BY <3>1, <3>2
  <2>4. QED BY <2>2, <2>3
<1>4. todo # <<>> => ToWrite(Head(todo).s)
  BY <1>3 DEF ToWrite
<1> HIDE DEF todo
<1>5. QED BY <1>1, <1>2, <1>3, <1>4 DEF T, todo

(* A step of assign-ids at one document leaves the others alone.           *)
LEMMA AssignUntouched ==
  ASSUME Kinds, NoneShared, NEW s \in Everyone, put' = put, kept' = kept, whole \subseteq whole',
         assign.step # "idle", \A t \in Everyone : t # s => ~WritesAt(t) /\ ~WritesAt(t)',
         \A i \in DOMAIN assign'.todo : \E j \in DOMAIN assign.todo : assign'.todo[i] = assign.todo[j],
         \A n \in DOMAIN file \union DOMAIN file' :
           n \in NamesOf(s) \/ (n \in DOMAIN file /\ n \in DOMAIN file' /\ file'[n] = file[n]),
         \A i \in Inodes : inode'[i] = inode[i] \/ i \in HeldAt(s) \/ i = NewInode
  PROVE  \A t \in Everyone : t # s => Untouched(t)
<1> SUFFICES ASSUME NEW t \in Everyone, t # s PROVE Untouched(t)
  OBVIOUS
<1>1. ASSUME NEW n \in NamesOf(t)
      PROVE  /\ n \in DOMAIN file' <=> n \in DOMAIN file
             /\ n \in DOMAIN file => file'[n] = file[n] /\ inode'[file[n]] = inode[file[n]]
  <2>1. n \notin NamesOf(s)
    BY NamesApart
  <2>2. /\ n \in DOMAIN file' <=> n \in DOMAIN file
        /\ n \in DOMAIN file => file'[n] = file[n]
    BY <2>1
  <2>3. ASSUME n \in DOMAIN file PROVE inode'[file[n]] = inode[file[n]]
    <3>1. file[n] \in Inodes /\ file[n] # NewInode
      BY <2>3, FreshInode DEF Kinds
    <3>2. file[n] \in HeldAt(t)
      BY <1>1, <2>3, <3>1 DEF HeldAt
    <3>3. file[n] \notin HeldAt(s)
      BY <3>2 DEF NoneShared
    <3>4. QED BY <3>1, <3>3
  <2>4. QED BY <2>2, <2>3
<1>2. ToWrite(t)' => ToWrite(t)
  BY DEF ToWrite
<1>3. QED BY <1>1, <1>2 DEF Untouched

(* It cuts a document to nothing,                                          *)
LEMMA AssignOpensKeeps == ASSUME FilesInv, AssignOpens PROVE FilesInv'
<1>1. Kinds /\ NoneShared
  BY DEF FilesInv
<1>2. /\ assign.step = "open" /\ assign.todo # <<>>
      /\ UNCHANGED <<backing, put, puts, assigns, crashes, drawn, whole, kept, crossed, met>>
  BY DEF AssignOpens
<1>3. PICK s \in Slugs : s = Head(assign.todo).s
  BY <1>1, <1>2, TodoOfDocs
<1>4. s \in Everyone /\ Doc(s) \in AllNames /\ Doc(s) \in NamesOf(s) /\ ToWrite(s)
  BY <1>1, <1>2, <1>3, NamesApart, NamesIn, TodoOfDocs DEF Everyone
<1> DEFINE k == InodeAt(Doc(s))
<1>5. Opened(Doc(s)) /\ assign' = [assign EXCEPT !.step = "write", !.fd = k]
  BY <1>3 DEF AssignOpens, InodeAt
<1>6. k \in HeldAt(s) \union {NewInode}
  BY <1>1, <1>4 DEF HeldAt, InodeAt, Exists, Kinds
<1>7. Rewritten(Doc(s), k, <<>>)
  BY <1>1, <1>4, <1>5, OpenedWrites
<1> HIDE DEF k
<1>8. /\ assign'.step = "write" /\ assign'.fd = k /\ assign'.todo = assign.todo
      /\ DOMAIN assign' = DOMAIN assign /\ k \in Inodes
  BY <1>1, <1>5, <1>7 DEF Kinds, IsAssign, Rewritten
<1>9. Kinds'
  <2>1. IsAssign(assign)'
    BY <1>1, <1>2, <1>8 DEF Kinds, IsAssign
  <2>2. QED BY <1>1, <1>2, <1>7, <2>1 DEF Kinds, Rewritten
<1>10. (\A t \in Everyone : ~WritesAt(t)) /\ WritesAt(s)' /\ \A t \in Everyone : t # s => ~WritesAt(t)'
  BY <1>2, <1>3, <1>8 DEF WritesAt
<1>11. \A m \in DOMAIN file \union DOMAIN file' :
         m = Doc(s) \/ (m \in DOMAIN file /\ m \in DOMAIN file' /\ file'[m] = file[m])
  BY <1>7 DEF Rewritten
<1>12. \A t \in Everyone : t # s => Untouched(t)
  <2>1. \A i \in Inodes : inode'[i] = inode[i] \/ i \in HeldAt(s) \/ i = NewInode
    BY <1>6, <1>7 DEF Rewritten
  <2>2. \A m \in DOMAIN file \union DOMAIN file' :
          m \in NamesOf(s) \/ (m \in DOMAIN file /\ m \in DOMAIN file' /\ file'[m] = file[m])
    BY <1>4, <1>11
  <2>3. \A i \in DOMAIN assign'.todo : \E j \in DOMAIN assign.todo : assign'.todo[i] = assign.todo[j]
    BY <1>8
  <2>4. QED BY <1>1, <1>2, <1>4, <1>10, <2>1, <2>2, <2>3, AssignUntouched
<1>13. HeldAt(s)' \subseteq HeldAt(s) \union {NewInode}
  <2>1. \A m \in NamesOf(s) \intersect DOMAIN file' :
          file'[m] = k \/ (m \in DOMAIN file /\ file'[m] = file[m])
    BY <1>7, <1>11 DEF Rewritten
  <2>2. ASSUME NEW i \in HeldAt(s)' PROVE i \in HeldAt(s) \union {NewInode}
    BY <1>2, <1>6, <1>8, <2>1 DEF HeldAt
  <2>3. QED BY <2>2
<1>14. NoneShared'
  BY <1>1, <1>4, <1>12, <1>13, StillApart
<1>15. ASSUME NEW t \in Everyone \ crossed' PROVE Sure(t)'
  <2>1. Sure(t)
    BY <1>2 DEF FilesInv
  <2>2. CASE t # s
    BY <1>12, <2>1, <2>2, UntouchedSure
  <2>3. CASE t = s
    <3>1. kept[s] = None /\ \A c \in Clients : put[c].s # s
      BY <1>2, <1>3, <1>4, <2>1, <2>3 DEF Sure
    <3>2. Exists(Doc(s))' /\ assign'.fd = file'[Doc(s)] /\ Read(Doc(s))' = <<>>
      BY <1>7, <1>8 DEF Rewritten, Exists, Read
    <3>3. QED BY <1>2, <1>10, <2>3, <3>1, <3>2 DEF Sure
  <2>4. QED BY <2>2, <2>3
<1>16. QED BY <1>9, <1>14, <1>15 DEF FilesInv

(* and writes it.                                                          *)
LEMMA AssignWritesKeeps == ASSUME FilesInv, AssignWrites PROVE FilesInv'
<1>1. Kinds /\ NoneShared
  BY DEF FilesInv
<1>2. /\ assign.step = "write" /\ assign.todo # <<>> /\ assign.fd \in Inodes
      /\ UNCHANGED <<backing, file, put, puts, assigns, crashes, drawn, whole, kept, crossed, met>>
  BY <1>1 DEF AssignWrites, Kinds, IsAssign
<1>3. PICK s \in Slugs : s = Head(assign.todo).s
  BY <1>1, <1>2, TodoOfDocs
<1> DEFINE k == assign.fd
           data == Overwritten(inode[k], Head(assign.todo).data)
<1>4. s \in Everyone /\ Doc(s) \in NamesOf(s) /\ ToWrite(s) /\ Head(assign.todo).data \in whole
      /\ Tail(assign.todo) \in Seq([s : Slugs, data : whole])
      /\ \A i \in DOMAIN Tail(assign.todo) :
           \E j \in DOMAIN assign.todo : Tail(assign.todo)[i] = assign.todo[j]
  BY <1>1, <1>2, <1>3, NamesApart, TodoOfDocs DEF Everyone
<1>5. inode' = [inode EXCEPT ![k] = data]
      /\ assign' = [assign EXCEPT !.step = "open", !.fd = 0, !.todo = Tail(@)]
  BY DEF AssignWrites
<1>6. /\ assign'.step = "open" /\ assign'.fd = 0 /\ assign'.todo = Tail(assign.todo)
      /\ DOMAIN assign' = DOMAIN assign
  BY <1>1, <1>5 DEF Kinds, IsAssign
<1>7. DOMAIN inode' = Inodes /\ inode'[k] = data /\ \A i \in Inodes : i # k => inode'[i] = inode[i]
  <2> HIDE DEF data
  <2>1. QED BY <1>1, <1>2, <1>5 DEF Kinds
<1>8. WritesAt(s) /\ k \in HeldAt(s)
  BY <1>2, <1>3 DEF WritesAt, HeldAt
<1>9. Kinds'
  <2>1. IsAssign(assign)'
    BY <1>1, <1>2, <1>4, <1>6 DEF Kinds, IsAssign
  <2>2. QED BY <1>1, <1>2, <1>7, <2>1 DEF Kinds
<1>10. \A t \in Everyone : ~WritesAt(t)' /\ (t # s => ~WritesAt(t))
  BY <1>3, <1>6 DEF WritesAt
<1>11. \A t \in Everyone : t # s => Untouched(t)
  <2>1. \A i \in Inodes : inode'[i] = inode[i] \/ i \in HeldAt(s) \/ i = NewInode
    BY <1>7, <1>8
  <2>2. \A m \in DOMAIN file \union DOMAIN file' :
          m \in NamesOf(s) \/ (m \in DOMAIN file /\ m \in DOMAIN file' /\ file'[m] = file[m])
    BY <1>2
  <2>3. \A i \in DOMAIN assign'.todo : \E j \in DOMAIN assign.todo : assign'.todo[i] = assign.todo[j]
    BY <1>4, <1>6
  <2>4. QED BY <1>1, <1>2, <1>4, <1>10, <2>1, <2>2, <2>3, AssignUntouched
<1>12. HeldAt(s)' \subseteq HeldAt(s) \union {NewInode}
  BY <1>2, <1>4, <1>10 DEF HeldAt
<1>13. NoneShared'
  BY <1>1, <1>4, <1>11, <1>12, StillApart
<1>14. ASSUME NEW t \in Everyone \ crossed' PROVE Sure(t)'
  <2>1. Sure(t)
    BY <1>2 DEF FilesInv
  <2>2. CASE t # s
    BY <1>11, <2>1, <2>2, UntouchedSure
  <2>3. CASE t = s
    <3>1. kept[s] = None /\ \A c \in Clients : put[c].s # s
      BY <1>2, <1>3, <1>4, <2>1, <2>3 DEF Sure
    <3>2. Exists(Doc(s)) /\ k = file[Doc(s)] /\ Read(Doc(s)) = <<>>
      BY <1>8, <2>1, <2>3 DEF Sure
    <3>3. data = Head(assign.todo).data
      BY <3>2 DEF Read, Overwritten
    <3>4. Exists(Doc(s))' /\ Read(Doc(s))' \in whole'
      BY <1>2, <1>4, <1>7, <3>2, <3>3 DEF Exists, Read
    <3>5. QED BY <1>2, <1>4, <1>10, <2>3, <3>1, <3>4 DEF Sure
  <2>4. QED BY <2>2, <2>3
<1>15. QED BY <1>9, <1>13, <1>14 DEF FilesInv

(* A step in which no document takes an inode. *)
LEMMA NobodyTakes ==
  ASSUME NoneShared, \A t \in Everyone : HeldAt(t)' \subseteq HeldAt(t)
  PROVE  NoneShared'
BY DEF NoneShared

(* assign-ids when it does not run, and as it stops.                       *)
LEMMA IdleAssign == IsAssign(NoAssign) /\ NoAssign.step = "idle" /\ NoAssign.todo = <<>> /\ NoAssign.fd = 0
<1>1. <<>> \in Seq([s : Slugs, data : whole])
  OBVIOUS
<1>2. QED BY <1>1 DEF NoAssign, IsAssign

LEMMA AssignStops ==
  ASSUME FilesInv, assign' = NoAssign, UNCHANGED <<file, inode, put, puts, assigns, whole, kept>>,
         crashes' \in 0 .. MaxCrashes, crossed \subseteq crossed', crossed' \subseteq Everyone,
         (assign.todo = <<>> /\ assign.step = "open") \/ Slugs \subseteq crossed'
  PROVE  FilesInv'
<1>1. Kinds /\ NoneShared
  BY DEF FilesInv
<1>2. assign'.step = "idle" /\ assign'.todo = <<>> /\ DOMAIN assign'.todo = {} /\ IsAssign(assign')
      /\ whole' = whole
  BY IdleAssign
<1>3. Kinds'
  <2>1. IsAssign(assign)'
    BY <1>2, IdleAssign DEF IsAssign
  <2>2. QED BY <1>1, <2>1 DEF Kinds
<1>4. (\A t \in Everyone : ~WritesAt(t)' /\ ~ToWrite(t)')
  BY <1>2 DEF WritesAt, ToWrite
<1>5. NoneShared'
  <2>1. \A t \in Everyone : HeldAt(t)' \subseteq HeldAt(t)
    BY <1>4 DEF HeldAt
  <2>2. QED BY <1>1, <2>1, NobodyTakes
<1>6. ASSUME NEW t \in Everyone \ crossed' PROVE Sure(t)'
  <2>1. Sure(t)
    BY DEF FilesInv
  <2>2. ~WritesAt(t)
    <3>1. CASE assign.step = "open"
      BY <3>1 DEF WritesAt
    <3>2. CASE Slugs \subseteq crossed'
      <4>1. assign.step = "write" => Head(assign.todo).s \in Slugs
        BY <1>1, TodoOfDocs DEF Kinds, IsAssign
      <4>2. QED BY <3>2, <4>1 DEF WritesAt
    <3>3. QED BY <3>1, <3>2
  <2>3. Untouched(t)
    BY <1>2, <1>4, <2>2 DEF Untouched
  <2>4. QED BY <2>1, <2>3, UntouchedSure
<1>7. QED BY <1>3, <1>5, <1>6 DEF FilesInv

LEMMA AssignEndsKeeps == ASSUME FilesInv, AssignEnds PROVE FilesInv'
<1>1. crashes' \in 0 .. MaxCrashes /\ crossed' \subseteq Everyone
  BY DEF AssignEnds, FilesInv, Kinds
<1>2. QED BY <1>1, AssignStops DEF AssignEnds

LEMMA AssignDiesKeeps == ASSUME FilesInv, AssignDies PROVE FilesInv'
<1>1. crashes' \in 0 .. MaxCrashes
  BY FilesAssumption DEF AssignDies, FilesInv, Kinds
<1>2. crossed' \subseteq Everyone /\ crossed \subseteq crossed' /\ Slugs \subseteq crossed'
  BY DEF AssignDies, FilesInv, Kinds, Everyone
<1>3. QED BY <1>1, <1>2, AssignStops DEF AssignDies

LEMMA ServerCrashesKeeps == ASSUME FilesInv, ServerCrashes PROVE FilesInv'
<1>1. Kinds /\ NoneShared
  BY DEF FilesInv
<1>2. /\ crashes < MaxCrashes /\ crashes' = crashes + 1 /\ put' = [c \in Clients |-> NoPut]
      /\ UNCHANGED <<backing, file, inode, assign, puts, assigns, drawn, whole, kept, crossed, met>>
  BY DEF ServerCrashes
<1>3. \A c \in Clients : put'[c].s = None /\ put'[c].fd = 0 /\ put'[c].src = 0 /\ IsPut(put'[c])
  BY <1>2, IdlePut
<1>4. Kinds'
  <2>1. crashes' \in 0 .. MaxCrashes
    BY <1>1, <1>2, FilesAssumption DEF Kinds
  <2>2. IsAssign(assign)'
    BY <1>1, <1>2 DEF Kinds, IsAssign
  <2>3. DOMAIN put' = Clients
    BY <1>2
  <2>4. QED BY <1>1, <1>2, <1>3, <2>1, <2>2, <2>3 DEF Kinds
<1>5. \A t \in Everyone : (WritesAt(t)' <=> WritesAt(t)) /\ (ToWrite(t)' <=> ToWrite(t))
  BY <1>2 DEF WritesAt, ToWrite
<1>6. \A t \in Everyone : t # None
  BY FilesAssumption DEF Everyone
<1>7. NoneShared'
  <2>1. \A t \in Everyone : HeldAt(t)' \subseteq HeldAt(t)
    BY <1>2, <1>3, <1>5, <1>6 DEF HeldAt
  <2>2. QED BY <1>1, <2>1, NobodyTakes
<1>8. ASSUME NEW t \in Everyone \ crossed' PROVE Sure(t)'
  <2>1. Sure(t) /\ \A c \in Clients : put'[c].s # t
    BY <1>2, <1>3, <1>6 DEF FilesInv
  <2>2. Stands(t) => Stands(t)'
    BY <1>2 DEF Stands, Exists, Read
  <2>3. QED BY <1>2, <1>5, <2>1, <2>2 DEF Sure, Exists, Read
<1>9. QED BY <1>4, <1>7, <1>8 DEF FilesInv

(* assign-ids reads all documents and says what it will write.             *)
LEMMA AssignReadsKeeps == ASSUME FilesInv, AssignReads PROVE FilesInv'
<1>1. Kinds /\ NoneShared
  BY DEF FilesInv
<1>2. PICK new : 
        /\ assign.step = "idle" /\ assigns < MaxAssigns /\ assigns' = assigns + 1
        /\ AssignStarts(new, {s \in DOMAIN Texts : new[s] # Texts[s]}, \E c \in Clients : ~At(c, "idle"))
        /\ UNCHANGED <<backing, file, inode, puts, crashes>>
  BY DEF AssignReads
<1> DEFINE changed == {s \in DOMAIN Texts : new[s] # Texts[s]}
           busy == \E c \in Clients : ~At(c, "idle")
           order == SetToSeq(changed)
           todo == [i \in DOMAIN order |-> [s |-> order[i], data |-> new[order[i]]]]
<1>3. changed \subseteq Slugs /\ IsFiniteSet(changed)
  <2>1. changed \subseteq Slugs
    BY DEF Texts
  <2>2. QED BY <2>1, FilesAssumption, FS_Subset
<1>4. /\ assign' = [NoAssign EXCEPT !.step = "open", !.temps = Temps(Texts), !.todo = todo]
      /\ whole' = whole \union {new[s] : s \in changed}
      /\ kept' = [s \in DOMAIN kept |-> IF s \in changed THEN None ELSE kept[s]]
      /\ put' = [c \in Clients |-> [put[c] EXCEPT !.alone = FALSE]]
      /\ crossed' = IF busy THEN crossed \union Slugs ELSE crossed
  BY <1>2 DEF AssignStarts
<1> HIDE DEF busy
<1>5. assign'.step = "open" /\ assign'.todo = todo /\ assign'.fd = 0
      /\ DOMAIN assign' = {"step", "todo", "fd", "temps"}
  <2> HIDE DEF todo
  <2>1. QED BY <1>4 DEF NoAssign
<1>6. /\ todo \in Seq([s : Slugs, data : whole'])
      /\ \A i \in DOMAIN todo : todo[i].s \in changed
  <2> HIDE DEF changed
  <2>1. order \in Seq(changed)
    BY <1>3, AsSequence
  <2> HIDE DEF order
  <2>2. Len(order) \in Nat /\ DOMAIN order = 1 .. Len(order) /\ \A i \in DOMAIN order : order[i] \in changed
    BY <2>1
  <2>3. \A i \in DOMAIN order : new[order[i]] \in whole'
    BY <1>4, <2>2
  <2> DEFINE T == [s : Slugs, data : whole']
  <2>4. \A i \in DOMAIN order : [s |-> order[i], data |-> new[order[i]]] \in T
    BY <1>3, <2>2, <2>3
  <2> HIDE DEF T
  <2>5. todo \in [1 .. Len(order) -> T]
    BY <2>2, <2>4
  <2>6. todo \in Seq(T)
    BY <2>2, <2>5
  <2>7. \A i \in DOMAIN todo : todo[i].s \in changed
    BY <2>2
  <2>8. QED BY <2>6, <2>7 DEF T
<1> HIDE DEF todo, order
<1>7. ASSUME NEW c \in Clients
      PROVE  /\ put'[c].s = put[c].s /\ put'[c].step = put[c].step /\ put'[c].fd = put[c].fd
             /\ put'[c].src = put[c].src /\ put'[c].data = put[c].data /\ put'[c].old = put[c].old
             /\ IsPut(put'[c])
  <2>1. put'[c] = [put[c] EXCEPT !.alone = FALSE] /\ IsPut(put[c])
    BY <1>1, <1>4 DEF Kinds
  <2>2. QED BY <2>1 DEF IsPut
<1>8. whole \subseteq whole' /\ DOMAIN kept' = Everyone /\ DOMAIN put' = Clients
      /\ crossed \subseteq crossed'
      /\ \A t \in Everyone : kept'[t] # None => t \notin changed /\ kept'[t] = kept[t]
  <2> HIDE DEF changed
  <2>1. QED BY <1>1, <1>4 DEF Kinds
<1>9. Kinds'
  <2>1. IsAssign(assign)'
    BY <1>5, <1>6 DEF IsAssign
  <2>2. assigns' \in 0 .. MaxAssigns /\ crossed' \subseteq Everyone
    BY <1>1, <1>2, <1>4, FilesAssumption DEF Kinds, Everyone
  <2>3. \A c \in Clients : IsPut(put'[c])
    BY <1>7
  <2>4. QED BY <1>1, <1>2, <1>8, <2>1, <2>2, <2>3 DEF Kinds
<1>10. \A t \in Everyone : ~WritesAt(t) /\ ~WritesAt(t)' /\ (t \notin changed => ~ToWrite(t)')
  BY <1>2, <1>5, <1>6 DEF WritesAt, ToWrite
<1>11. NoneShared'
  <2>1. \A t \in Everyone : HeldAt(t)' \subseteq HeldAt(t)
    BY <1>2, <1>7, <1>10 DEF HeldAt
  <2>2. QED BY <1>1, <2>1, NobodyTakes
<1>12. ASSUME NEW t \in Everyone \ crossed' PROVE Sure(t)'
  <2>1. Sure(t)
    BY <1>8 DEF FilesInv
  <2>2. t \in Slugs => \A c \in Clients : put[c].s # t
    <3>1. SUFFICES ASSUME t \in Slugs PROVE \A c \in Clients : put[c].s # t
      OBVIOUS
    <3>2. ~busy
      BY <1>4, <1>12, <3>1
    <3>3. \A c \in Clients : put[c].step = "idle"
      BY <3>2 DEF busy, At
    <3>4. \A c \in Clients : put[c].s = None
      BY <1>1, <3>3 DEF Kinds, IsPut
    <3>5. t # None
      BY <3>1, FilesAssumption
    <3>6. QED BY <3>4, <3>5
  <2>3. /\ \A c, d \in Clients : put'[c].s = t /\ put'[d].s = t => c = d
        /\ t \in Slugs => \A c \in Clients : put'[c].s # t
    BY <1>7, <2>1, <2>2 DEF Sure
  <2>4. /\ Exists(Doc(t))' = Exists(Doc(t)) /\ Read(Doc(t))' = Read(Doc(t))
        /\ Exists(Prev(t))' = Exists(Prev(t)) /\ Read(Prev(t))' = Read(Prev(t))
        /\ Exists(Tmp(t))' = Exists(Tmp(t)) /\ Read(Tmp(t))' = Read(Tmp(t))
        /\ file' = file
    BY <1>2 DEF Exists, Read
  <2>5. Exists(Doc(t))' => Read(Doc(t))' \in whole'
    BY <1>8, <1>10, <2>1, <2>4 DEF Sure
  <2>6. kept'[t] # None => Stands(t)' /\ ~ToWrite(t)' /\ \A c \in Clients : put'[c].s # t
    <3>1. SUFFICES ASSUME kept'[t] # None
                   PROVE  Stands(t)' /\ ~ToWrite(t)' /\ \A c \in Clients : put'[c].s # t
      OBVIOUS
    <3>2. kept'[t] = kept[t] /\ Stands(t) /\ ~ToWrite(t)' /\ \A c \in Clients : put[c].s # t
      BY <1>8, <1>10, <2>1, <3>1 DEF Sure
    <3>3. QED BY <1>7, <2>4, <3>2 DEF Stands
  <2>7. ASSUME NEW c \in Clients, put'[c].s = t PROVE Under(put[c])'
    <3>1. Under(put[c]) /\ put[c].s = t
      BY <1>7, <2>1, <2>7 DEF Sure
    <3>2. QED BY <1>7, <1>8, <2>4, <3>1 DEF Under
  <2>8. QED BY <1>10, <2>3, <2>5, <2>6, <2>7 DEF Sure
<1>13. QED BY <1>9, <1>11, <1>12 DEF FilesInv

(* The invariant holds of the files a behaviour begins with,               *)
LEMMA FilesStart == ASSUME FilesInit PROVE FilesInv
<1>1. /\ put = [c \in Clients |-> NoPut] /\ assign = NoAssign
      /\ puts = 0 /\ assigns = 0 /\ crashes = 0 /\ crossed = {}
      /\ kept = [s \in Slugs \union Agents |-> None]
  BY DEF FilesInit
<1>2. PICK old : 
        /\ file = [n \in IF old = None THEN {} ELSE {Doc(CHOOSE s \in Slugs : TRUE)} |-> 1]
        /\ inode = [i \in Inodes |-> IF i = 1 /\ old # None THEN old ELSE <<>>]
        /\ whole = {old} \ {None}
  BY DEF FilesInit
<1>3. PICK first \in Slugs : first = CHOOSE s \in Slugs : TRUE
  BY FilesAssumption
<1>4. first \in Everyone /\ Doc(first) \in AllNames
  BY NamesIn DEF Everyone, NamesOf
<1>5. 1 \in Inodes
  BY Sizes DEF Inodes
<1>6. \A c \in Clients : put[c].s = None /\ put[c].fd = 0 /\ put[c].src = 0 /\ IsPut(put[c])
  BY <1>1, IdlePut
<1>7. IsAssign(assign) /\ assign.step = "idle"
  BY <1>1, IdleAssign
<1>8. \A n \in DOMAIN file : n = Doc(first) /\ file[n] = 1 /\ Read(n) = old /\ old \in whole
  BY <1>2, <1>3, <1>5 DEF Read
<1>9. Kinds
  <2>1. DOMAIN put = Clients /\ DOMAIN kept = Everyone /\ DOMAIN inode = Inodes
    BY <1>1, <1>2 DEF Everyone
  <2>2. QED BY <1>1, <1>4, <1>5, <1>6, <1>7, <1>8, <2>1, FilesAssumption DEF Kinds
<1>10. \A t \in Everyone : t # None /\ ~WritesAt(t)
  BY <1>7, FilesAssumption DEF WritesAt, Everyone
<1>11. NoneShared
  <2>1. \A t \in Everyone : t # first => Doc(first) \notin NamesOf(t)
    BY NamesApart
  <2>2. \A t \in Everyone : t # first => HeldAt(t) = {}
    BY <1>6, <1>8, <1>10, <2>1 DEF HeldAt
  <2>3. QED BY <2>2 DEF NoneShared
<1>12. ASSUME NEW t \in Everyone PROVE Sure(t)
  <2>1. Exists(Doc(t)) => Read(Doc(t)) \in whole
    BY <1>8 DEF Exists
  <2>2. kept[t] = None
    BY <1>1, <1>12 DEF Everyone
  <2>3. QED BY <1>6, <1>10, <2>1, <2>2 DEF Sure
<1>13. QED BY <1>9, <1>11, <1>12 DEF FilesInv

(* and every step keeps it.                                                *)
LEMMA FilesInductive == FilesInv /\ [FilesNext]_filesVars => FilesInv'
<1> SUFFICES ASSUME FilesInv, [FilesNext]_filesVars PROVE FilesInv'
  OBVIOUS
<1>1. CASE UNCHANGED filesVars
  <2>1. /\ Kinds' <=> Kinds
    BY <1>1 DEF filesVars, Kinds, IsAssign
  <2>2. \A t : HeldAt(t)' = HeldAt(t)
    BY <1>1 DEF filesVars, HeldAt, WritesAt
  <2>3. NoneShared' <=> NoneShared
    BY <2>2 DEF NoneShared
  <2>4. ASSUME NEW t \in Everyone \ crossed' PROVE Sure(t)'
    <3>1. Sure(t)
      BY <1>1 DEF filesVars, FilesInv
    <3>2. Untouched(t)
      BY <1>1 DEF filesVars, Untouched, WritesAt, ToWrite
    <3>3. QED BY <3>1, <3>2, UntouchedSure
  <2>5. QED BY <2>1, <2>3, <2>4 DEF FilesInv
<1>2. ASSUME NEW c \in Clients,
             \/ Request(c) \/ ReadOthers(c) \/ OpenCopy(c) \/ CopyData(c)
             \/ OpenTmp(c) \/ WriteTmp(c) \/ Rename(c)
             \/ GetPrevious(c) \/ PutPrevious(c) \/ PutObject(c)
      PROVE  FilesInv'
  BY <1>2, RequestKeeps, ReadOthersKeeps, OpenCopyKeeps, CopyDataKeeps, OpenTmpKeeps, WriteTmpKeeps,
     RenameKeeps, GetPreviousKeeps, PutPreviousKeeps, PutObjectKeeps
<1>3. CASE AssignReads \/ AssignOpens \/ AssignWrites \/ AssignEnds \/ ServerCrashes \/ AssignDies
  BY <1>3, AssignReadsKeeps, AssignOpensKeeps, AssignWritesKeeps, AssignEndsKeeps,
     ServerCrashesKeeps, AssignDiesKeeps
<1>4. CASE FilesQuiet
  BY <1>1, <1>4 DEF FilesQuiet
<1>5. QED BY <1>1, <1>2, <1>3, <1>4 DEF FilesNext

(* Whatever PUTs, runs of assign-ids and crashes do, every name and every  *)
(* open file leads to an inode there is, and no two names lead to one      *)
(* (apps/server/src/handlers/l3.rs, crates/l3/src/assign.rs).              *)
THEOREM FilesTypeCorrect == FilesSpec => []FilesTypeOK
<1>1. FilesInv => FilesTypeOK
  BY DEF FilesInv, Kinds, IsPut, FilesTypeOK, Everyone
<1>2. QED BY <1>1, FilesStart, FilesInductive, PTL DEF FilesSpec

(* A name that no two writers were at at once shows a whole text between   *)
(* any two system calls, whatever the writers at other names do and where  *)
(* the server crashes; when it rests it has the text last answered for,    *)
(* and the one before it as its previous version (handler_l3_doc_put and   *)
(* write_atomic of the server, handle_put_doc of the worker).              *)
THEOREM PutsAreKept == FilesSpec => []PutsKept
<1>1. ASSUME FilesInv PROVE PutsKept
  <2> DEFINE settled == {s \in Slugs \union Agents : s \notin crossed /\ assign.step = "idle"}
             resting == {s \in settled : \A c \in Clients : put[c].s # s}
  <2>1. ASSUME NEW s \in settled, Exists(Doc(s)) PROVE Read(Doc(s)) \in whole
    <3>1. Sure(s) /\ ~WritesAt(s)
      BY <1>1, <2>1 DEF FilesInv, Everyone, WritesAt
    <3>2. QED BY <2>1, <3>1 DEF Sure
  <2>2. ASSUME NEW s \in resting, kept[s] # None PROVE Stands(s)
    BY <1>1, <2>2 DEF FilesInv, Everyone, Sure
  <2>3. QED BY <2>1, <2>2 DEF PutsKept, Stands
<1>2. QED BY <1>1, FilesStart, FilesInductive, PTL DEF FilesSpec

==============================================================================
