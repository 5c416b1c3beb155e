---------------------------- MODULE L3SyncProofs ----------------------------
(***************************************************************************)
(* Theorems about L3Sync, for any two stores and any number of nodes,      *)
(* documents, headings, lines, edits and failures.                         *)
(***************************************************************************)
EXTENDS L3Sync, FiniteSetTheorems, SequenceTheorems, TLAPS

NoneOrNode == Nodes \union {None}

LEMMA TwoSides ==
  ASSUME NEW s \in Sides
  PROVE  /\ Other(s) \in Sides /\ Other(s) # s
         /\ \A t \in Sides : t = s \/ t = Other(s)
BY L3SyncAssumption DEF Other

LEMMA NodeFields ==
  ASSUME NEW n \in Nodes
  PROVE  /\ n.doc \in Docs /\ n.heading \in Headings /\ n.body \in Seq(Lines) /\ n # None
         /\ Hash(n) \in Contents /\ Hash(n) \in Hashes /\ Hash(n) # None
BY L3SyncAssumption DEF Nodes, Hash, Hashes, Contents

LEMMA SameContent ==
  ASSUME NEW n \in Nodes, NEW m \in Nodes, Hash(n) = Hash(m)
  PROVE  n.heading = m.heading /\ n.body = m.body
<1>1. Hash(n).heading = Hash(m).heading /\ Hash(n).body = Hash(m).body
  OBVIOUS
<1>2. QED BY <1>1 DEF Hash

LEMMA ScopedNode ==
  ASSUME NEW n \in NoneOrNode, NEW scope
  PROVE  /\ InScope(scope, n) \in NoneOrNode
         /\ InScope(scope, n) # None => InScope(scope, n) = n /\ n \in Nodes /\ n.doc \in scope
         /\ n # None /\ n.doc \in scope => InScope(scope, n) = n
BY DEF InScope, NoneOrNode

(* What is left of a sequence of lines is one. *)
LEMMA WithoutType ==
  ASSUME NEW s \in Seq(Lines), NEW L
  PROVE  Without(s, L) \in Seq(Lines)
<1> DEFINE I == {i \in DOMAIN s : s[i] \notin L}
           Before(m) == {h \in I : h < m}
<1>1. /\ DOMAIN s = 1 .. Len(s) /\ Len(s) \in Nat /\ I \subseteq 1 .. Len(s) /\ I \subseteq Nat
      /\ IsFiniteSet(I) /\ Cardinality(I) \in Nat
  <2>1. DOMAIN s = 1 .. Len(s) /\ Len(s) \in Nat
    OBVIOUS
  <2>2. IsFiniteSet(1 .. Len(s)) /\ I \subseteq 1 .. Len(s)
    BY <2>1, FS_Interval
  <2>3. IsFiniteSet(I)
    BY <2>2, FS_Subset
  <2>4. QED BY <2>1, <2>2, <2>3, FS_CardinalityType
<1>2. \A m : IsFiniteSet(Before(m)) /\ Cardinality(Before(m)) \in Nat /\ Before(m) \subseteq I
  <2>1. TAKE m
  <2>2. Before(m) \subseteq I
    OBVIOUS
  <2>3. QED BY <1>1, <2>2, FS_Subset, FS_CardinalityType
<1> DEFINE C == [m \in Nat |-> Cardinality(Before(m))]
<1>3. C[0] = 0 /\ C[Len(s) + 1] = Cardinality(I) /\ \A m \in Nat : C[m] \in Nat
  <2>1. Before(0) = {} /\ Before(Len(s) + 1) = I
    BY <1>1
  <2>2. Cardinality(Before(0)) = 0
    BY <2>1, FS_EmptySet
  <2>3. C[0] = 0
    BY <2>2
  <2>4. C[Len(s) + 1] = Cardinality(I)
    <3>1. Len(s) + 1 \in Nat
      BY <1>1
    <3>2. C[Len(s) + 1] = Cardinality(Before(Len(s) + 1))
      BY <3>1
    <3>3. QED BY <2>1, <3>2
  <2>5. \A m \in Nat : C[m] \in Nat
    BY <1>2
  <2>6. QED BY <2>3, <2>4, <2>5
<1>4. ASSUME NEW m \in Nat
      PROVE  C[m + 1] = IF m \in I THEN C[m] + 1 ELSE C[m]
  <2> DEFINE B == Before(m)
  <2>1. IsFiniteSet(B) /\ m \notin B
    BY <1>1, <1>2
  <2>2. Before(m + 1) = IF m \in I THEN B \union {m} ELSE B
    BY <1>1
  <2>3. Cardinality(B \union {m}) = Cardinality(B) + 1
    <3> HIDE DEF B
    <3>1. QED BY <2>1, FS_AddElement
  <2>4. QED BY <2>2, <2>3
(* The j-th kept line is at the greatest index with j - 1 kept lines before it. *)
<1>5. ASSUME NEW j \in 1 .. Cardinality(I)
      PROVE  \E i \in I : Cardinality(Before(i)) = j - 1
  <2> DEFINE M == {m \in Nat : C[m] >= j}
  <2>1. j \in Nat /\ j >= 1 /\ j <= Cardinality(I)
    BY <1>1
  <2> HIDE DEF C, I
  <2>2. Len(s) + 1 \in M
    BY <1>1, <1>3, <2>1
  <2>3. PICK m \in M : \A y \in M : ~ (<<y, m>> \in OpToRel(<, Nat))
    <3>1. M \subseteq Nat /\ M # {}
      BY <2>2
    <3> HIDE DEF M
    <3>2. QED BY <3>1, NatLessThanWellFounded, WFMin
  <2>4. m \in Nat /\ C[m] >= j /\ \A y \in M : ~(y < m)
    BY <2>3 DEF OpToRel
  <2>5. m # 0
    BY <1>3, <2>1, <2>4
  <2>6. m - 1 \in Nat /\ C[m - 1] < j
    BY <1>3, <2>1, <2>4, <2>5
  <2>7. C[(m - 1) + 1] = IF m - 1 \in I THEN C[m - 1] + 1 ELSE C[m - 1]
    BY <1>4, <2>6
  <2>8. m - 1 \in I /\ C[m - 1] = j - 1
    BY <1>3, <2>1, <2>4, <2>6, <2>7
  <2> USE DEF C, I
  <2>9. QED BY <2>6, <2>8
<1>6. \A j \in 1 .. Cardinality(I) :
        s[CHOOSE i \in I : Cardinality({h \in I : h < i}) = j - 1] \in Lines
  <2>1. TAKE j \in 1 .. Cardinality(I)
  <2>2. (CHOOSE i \in I : Cardinality(Before(i)) = j - 1) \in I
    <3> HIDE DEF I, Before
    <3>1. QED BY <1>5
  <2>3. QED BY <1>1, <2>2
<1> DEFINE n == Cardinality(I)
           kept == [j \in 1 .. n |-> s[CHOOSE i \in I : Cardinality({h \in I : h < i}) = j - 1]]
<1>7. kept \in [1 .. n -> Lines]
  BY <1>6
<1>8. kept \in Seq(Lines)
  <2> HIDE DEF kept, n
  <2>1. n \in Nat
    BY <1>1 DEF n
  <2>2. QED BY <1>7, <2>1, SeqDef
<1>9. QED BY <1>8 DEF Without
(* A union keeps the dest's node, with more lines.                         *)
LEMMA UnitedKeeps ==
  ASSUME NEW s \in Nodes, NEW d \in Nodes
  PROVE  /\ United(s, d) \in Nodes /\ United(s, d).doc = d.doc
         /\ Within(d, United(s, d))
<1> DEFINE more == Without(s.body, Range(d.body))
           body == d.body \o more
<1>1. d.body \in Seq(Lines) /\ more \in Seq(Lines)
  BY NodeFields, WithoutType
<1>2. /\ body \in Seq(Lines) /\ Len(body) = Len(d.body) + Len(more)
      /\ \A i \in 1 .. Len(d.body) : body[i] = d.body[i]
  <2> HIDE DEF more
  <2>1. Len(d.body) \in Nat /\ Len(more) \in Nat
    BY <1>1
  <2>2. QED BY <1>1, <2>1, ConcatProperties
<1>3. Range(d.body) \subseteq Range(body)
  <2> HIDE DEF body, more
  <2>1. DOMAIN d.body = 1 .. Len(d.body) /\ DOMAIN body = 1 .. Len(body)
        /\ Len(d.body) \in Nat /\ Len(more) \in Nat
    BY <1>1, <1>2
  <2>2. \A i \in 1 .. Len(d.body) : i \in 1 .. Len(body)
    BY <1>2, <2>1
  <2>3. QED BY <1>2, <2>1, <2>2 DEF Range
<1>4. United(s, d) = [doc |-> d.doc, heading |-> d.heading, body |-> body]
  <2>1. \A b : [d EXCEPT !.body = b] = [doc |-> d.doc, heading |-> d.heading, body |-> b]
    BY DEF Nodes
  <2>2. QED BY <2>1 DEF United
<1> HIDE DEF body
<1>5. QED BY <1>2, <1>3, <1>4, NodeFields DEF Within, Nodes

LEMMA WithinItself ==
  ASSUME NEW n \in Nodes
  PROVE  Within(n, n)
BY NodeFields DEF Within

(* What plan_merge makes of a node: one of the source's document and with  *)
(* the source's content, if it is to be written.                           *)
LEMMA MergedNode ==
  ASSUME NEW s \in NoneOrNode, NEW d \in NoneOrNode, NEW b
  PROVE  /\ Merged(s, d, b) \in NoneOrNode
         /\ Recorded(s, d, b) \in Hashes \union {None}
         /\ Merged(s, d, b) # d =>
              /\ s # None /\ Merged(s, d, b) # None /\ Merged(s, d, b).doc = s.doc
         /\ d # None =>
              /\ Merged(s, d, b) # None /\ Merged(s, d, b).doc = d.doc
              /\ Within(d, Merged(s, d, b)) \/ b = Hash(d)
         /\ d = None /\ b # None => Merged(s, d, b) = None
         /\ Recorded(s, d, b) # None =>
              /\ s # None /\ Recorded(s, d, b) = Hash(s)
              /\ \/ d # None /\ Hash(d) = Hash(s)
                 \/ Merged(s, d, b) = s /\ s # d
<1> DEFINE v == Verdict(s, d, b)
<1>1. CASE v = "add"
  <2>1. s \in Nodes /\ d = None /\ b = None
    BY <1>1 DEF Verdict, NoneOrNode
  <2>2. Merged(s, d, b) = s /\ Recorded(s, d, b) = Hash(s)
    BY <1>1 DEF Merged, Recorded
  <2>3. QED BY <2>1, <2>2, NodeFields DEF NoneOrNode
<1>2. CASE v = "update"
  <2>1. s \in Nodes /\ d \in Nodes /\ s.doc = d.doc /\ Hash(s) # Hash(d) /\ b = Hash(d)
    BY <1>2 DEF Verdict, NoneOrNode
  <2>2. Merged(s, d, b) = s /\ Recorded(s, d, b) = Hash(s)
    BY <1>2 DEF Merged, Recorded
  <2>3. QED BY <2>1, <2>2, NodeFields DEF NoneOrNode
<1>3. CASE v = "union"
  <2>1. s \in Nodes /\ d \in Nodes /\ s.doc = d.doc
    BY <1>3 DEF Verdict, NoneOrNode
  <2>2. Merged(s, d, b) = United(s, d) /\ Recorded(s, d, b) = None
    BY <1>3 DEF Merged, Recorded
  <2>3. QED BY <2>1, <2>2, NodeFields, UnitedKeeps DEF NoneOrNode
<1>4. CASE v = "in_sync"
  <2>1. s \in Nodes /\ d \in Nodes /\ Hash(s) = Hash(d)
    BY <1>4 DEF Verdict, NoneOrNode
  <2>2. Merged(s, d, b) = d /\ Recorded(s, d, b) = Hash(s)
    BY <1>4 DEF Merged, Recorded
  <2>3. QED BY <2>1, <2>2, NodeFields, WithinItself DEF NoneOrNode
<1>5. CASE v \notin {"add", "update", "union", "in_sync"}
  <2>1. Merged(s, d, b) = d /\ Recorded(s, d, b) = None
    BY <1>5 DEF Merged, Recorded
  <2>2. QED BY <2>1, NodeFields, WithinItself DEF NoneOrNode
<1>6. QED BY <1>1, <1>2, <1>3, <1>4, <1>5
-----------------------------------------------------------------------------
(* A document that a sync is to write has a header.                        *)
DocsCarried ==
  /\ sync.step = "fetched" =>
       \A k \in Anchors : sync.node[k] # None => sync.header[sync.node[k].doc] # None
  /\ sync.step = "put" => \A x \in sync.todo : sync.header[x] # None

(* What a side has, and what was fetched from it, it has held.             *)
HeldNow == \A s \in Sides, k \in Anchors :
  node[s][k] # None => <<k, Hash(node[s][k])>> \in held[s]

HeldFetched == sync.step = "fetched" =>
  \A k \in Anchors : sync.node[k] # None => <<k, Hash(sync.node[k])>> \in held[sync.from]

(* A hash to be saved is of content that the source has held, and the dest *)
(* too, unless the document that brings it there is still to be put.       *)
AfterShared == sync.step = "put" =>
  \A k \in Anchors : sync.after[k] # None =>
    /\ <<k, sync.after[k]>> \in held[sync.from]
    /\ \/ <<k, sync.after[k]>> \in held[Other(sync.from)]
       \/ /\ sync.node[k] # None /\ sync.node[k].doc \in sync.todo
          /\ sync.after[k] = Hash(sync.node[k])

(* The plan drops no node of the dest, and no line but what the source had. *)
Planned == sync.step = "put" =>
  \A k \in Anchors : sync.seen[k] # None =>
    /\ sync.node[k] # None /\ sync.node[k].doc = sync.seen[k].doc
    /\ \/ Within(sync.seen[k], sync.node[k])
       \/ <<k, Hash(sync.seen[k])>> \in held[sync.from]

(* A node that was agreed on has a base, and a plan does not revive it.    *)
AgreedKnown == \A k \in agreed : base[k] # None

NotRevived == sync.step = "put" =>
  \A k \in agreed : sync.seen[k] = None => sync.node[k] = None

(* Until a user or a failure interferes, the plan is of what the source has. *)
Undisturbed == sync.step # "idle" /\ sync.clean =>
  \A k \in Anchors :
    LET n == InScope(sync.scope, node[sync.from][k])
    IN /\ sync.step = "fetched" => sync.node[k] = n
       /\ sync.step = "put" => sync.after[k] = Recorded(n, sync.seen[k], base[k])

Shared == BaseWasShared /\ HeldNow /\ HeldFetched /\ AfterShared

IInv ==
  /\ TypeOK /\ DocsCarried /\ Shared
  /\ Planned /\ AgreedKnown /\ NotRevived /\ Undisturbed
-----------------------------------------------------------------------------
LEMMA SyncFields ==
  ASSUME NEW r \in Syncs
  PROVE  /\ r.step \in {"idle", "fetched", "put"}
         /\ r.step = "idle" => r = Resting
         /\ r.step # "idle" =>
              /\ r.from \in Sides /\ r.scope \in SUBSET Docs /\ r.clean \in BOOLEAN
              /\ r.node \in [Anchors -> NoneOrNode]
              /\ r.header \in [Docs -> Headers \union {None}]
         /\ r.step = "put" =>
              /\ r.seen \in [Anchors -> NoneOrNode] /\ r.todo \in SUBSET Docs
              /\ r.after \in [Keys -> Hashes \union {None}]
BY DEF Syncs, Resting, NoneOrNode

LEMMA PutRecord ==
  ASSUME NEW f \in Sides, NEW sc \in SUBSET Docs, NEW cl \in BOOLEAN,
         NEW n \in [Anchors -> NoneOrNode], NEW h \in [Docs -> Headers \union {None}],
         NEW d \in [Anchors -> NoneOrNode], NEW todo \in SUBSET Docs,
         NEW a \in [Keys -> Hashes \union {None}]
  PROVE  [step |-> "put", from |-> f, scope |-> sc, clean |-> cl, seen |-> d, node |-> n,
          header |-> h, todo |-> todo, after |-> a] \in Syncs
BY DEF Syncs, NoneOrNode

(* The copies of a sync's locals that its steps and a user's edit make.    *)
LEMMA SyncUpdates ==
  ASSUME NEW r \in Syncs
  PROVE  /\ r.step # "idle" => [r EXCEPT !.clean = FALSE] \in Syncs
         /\ r.step = "put" => \A x \in Docs, a \in [Keys -> Hashes \union {None}] :
              /\ [r EXCEPT !.todo = r.todo \ {x}] \in Syncs
              /\ [r EXCEPT !.todo = r.todo \ {x}, !.after = a, !.clean = FALSE] \in Syncs
BY DEF Syncs, Resting

(* Whatever a user does, the documents of the nodes are there.             *)
LEMMA UserEdits ==
  ASSUME TypeOK, NEW s \in Sides,
         \/ AddLine(s) \/ RemoveLine(s) \/ Retitle(s) \/ EditHeader(s)
         \/ AddNode(s) \/ RemoveNode(s) \/ RemoveDoc(s)
  PROVE  \E N \in [Anchors -> NoneOrNode], H \in [Docs -> Headers \union {None}] :
           /\ Edit(s, N, H)
           /\ \A k \in Anchors : N[k] # None => H[N[k].doc] # None
<1> DEFINE Good(N, H) == /\ N \in [Anchors -> NoneOrNode] /\ H \in [Docs -> Headers \union {None}]
                         /\ \A k \in Anchors : N[k] # None => H[N[k].doc] # None
<1>1. /\ node[s] \in [Anchors -> NoneOrNode] /\ header[s] \in [Docs -> Headers \union {None}]
      /\ \A k \in Anchors : node[s][k] # None => node[s][k] \in Nodes /\ header[s][node[s][k].doc] # None
      /\ held[s] \subseteq (Anchors \X Contents) \union (Docs \X Headers)
      /\ None \notin Headers
  BY L3SyncAssumption DEF TypeOK, NoneOrNode, Hashes
<1>2. ASSUME NEW k \in Anchors, node[s][k] # None, NEW h \in Headings, NEW b \in Seq(Lines)
      PROVE  /\ Good([node[s] EXCEPT ![k].body = b], header[s])
             /\ Good([node[s] EXCEPT ![k].heading = h], header[s])
  <2>1. /\ [node[s][k] EXCEPT !.body = b] \in Nodes
        /\ [node[s][k] EXCEPT !.body = b].doc = node[s][k].doc
        /\ [node[s][k] EXCEPT !.heading = h] \in Nodes
        /\ [node[s][k] EXCEPT !.heading = h].doc = node[s][k].doc
    BY <1>1, <1>2 DEF Nodes
  <2>2. ASSUME NEW n \in Nodes, n.doc = node[s][k].doc
        PROVE  Good([node[s] EXCEPT ![k] = n], header[s])
    BY <1>1, <1>2, <2>2 DEF NoneOrNode
  <2>3. /\ [node[s] EXCEPT ![k].body = b] = [node[s] EXCEPT ![k] = [node[s][k] EXCEPT !.body = b]]
        /\ [node[s] EXCEPT ![k].heading = h] = [node[s] EXCEPT ![k] = [node[s][k] EXCEPT !.heading = h]]
    OBVIOUS
  <2> HIDE DEF Good
  <2>4. QED BY <2>1, <2>2, <2>3
<1>3. CASE AddLine(s)
  <2>1. PICK k \in Anchors : node[s][k] # None /\ \E l \in Lines \ Range(node[s][k].body) :
          Edit(s, [node[s] EXCEPT ![k].body = Append(@, l)], header[s])
    BY <1>3 DEF AddLine
  <2>2. PICK l \in Lines : Edit(s, [node[s] EXCEPT ![k].body = Append(@, l)], header[s])
    BY <2>1
  <2>3. Append(node[s][k].body, l) \in Seq(Lines)
    BY <1>1, <2>1, NodeFields
  <2>4. PICK h \in Headings : TRUE
    BY L3SyncAssumption
  <2>5. Good([node[s] EXCEPT ![k].body = Append(@, l)], header[s])
    BY <1>2, <2>1, <2>3, <2>4
  <2>6. QED BY <2>2, <2>5
<1>4. CASE RemoveLine(s)
  <2>1. PICK k \in Anchors : node[s][k] # None /\ \E l \in Range(node[s][k].body) :
          Edit(s, [node[s] EXCEPT ![k].body = Without(@, {l})], header[s])
    BY <1>4 DEF RemoveLine
  <2>2. PICK l \in Range(node[s][k].body) :
          Edit(s, [node[s] EXCEPT ![k].body = Without(@, {l})], header[s])
    BY <2>1
  <2>3. Without(node[s][k].body, {l}) \in Seq(Lines)
    BY <1>1, <2>1, NodeFields, WithoutType
  <2>4. PICK h \in Headings : TRUE
    BY L3SyncAssumption
  <2>5. Good([node[s] EXCEPT ![k].body = Without(@, {l})], header[s])
    BY <1>2, <2>1, <2>3, <2>4
  <2>6. QED BY <2>2, <2>5
<1>5. CASE Retitle(s)
  <2>1. PICK k \in Anchors, h \in Headings : node[s][k] # None /\
          Edit(s, [node[s] EXCEPT ![k].heading = h], header[s])
    BY <1>5 DEF Retitle
  <2>2. << >> \in Seq(Lines)
    OBVIOUS
  <2>3. Good([node[s] EXCEPT ![k].heading = h], header[s])
    BY <1>2, <2>1, <2>2
  <2>4. QED BY <2>1, <2>3
<1>6. CASE RemoveNode(s)
  <2>1. PICK k \in Anchors : node[s][k] # None /\ Edit(s, [node[s] EXCEPT ![k] = None], header[s])
    BY <1>6 DEF RemoveNode
  <2>2. Good([node[s] EXCEPT ![k] = None], header[s])
    BY <1>1 DEF NoneOrNode
  <2>3. QED BY <2>1, <2>2
<1>7. CASE EditHeader(s)
  <2>1. PICK x \in Docs, h \in Headers : header[s][x] \notin {None, h} /\
          Edit(s, node[s], [header[s] EXCEPT ![x] = h])
    BY <1>7 DEF EditHeader
  <2>2. Good(node[s], [header[s] EXCEPT ![x] = h])
    BY <1>1, NodeFields
  <2>3. QED BY <2>1, <2>2
<1>8. CASE RemoveDoc(s)
  <2>1. PICK x \in Docs : header[s][x] # None /\
          Edit(s, [k \in Anchors |-> IF node[s][k] # None /\ node[s][k].doc = x THEN None ELSE node[s][k]],
                  [header[s] EXCEPT ![x] = None])
    BY <1>8 DEF RemoveDoc
  <2>2. Good([k \in Anchors |-> IF node[s][k] # None /\ node[s][k].doc = x THEN None ELSE node[s][k]],
             [header[s] EXCEPT ![x] = None])
    BY <1>1, NodeFields DEF NoneOrNode
  <2>3. QED BY <2>1, <2>2
<1>9. CASE AddNode(s)
  <2>1. PICK k \in Anchors, x \in Docs, h \in Headers :
          /\ header[s][x] \in {None, h}
          /\ \E c \in IF \A t \in Sides : Had(t, k) = {}
                      THEN [heading : Headings, body : {<<>>}] ELSE Had(s, k) :
               Edit(s, [node[s] EXCEPT ![k] = [doc |-> x, heading |-> c.heading, body |-> c.body]],
                    [header[s] EXCEPT ![x] = h])
    BY <1>9 DEF AddNode
  <2>2. Had(s, k) \subseteq Contents
    <3>1. SUFFICES ASSUME NEW p \in held[s], p[1] = k PROVE p[2] \in Contents
      BY DEF Had
    <3>2. k \notin Docs
      BY L3SyncAssumption
    <3>3. QED BY <1>1, <3>1, <3>2
  <2>3. [heading : Headings, body : {<<>>}] \subseteq Contents
    <3>1. {<<>>} \subseteq Seq(Lines)
      OBVIOUS
    <3>2. QED BY <3>1 DEF Contents
  <2>4. PICK c \in Contents :
          Edit(s, [node[s] EXCEPT ![k] = [doc |-> x, heading |-> c.heading, body |-> c.body]],
               [header[s] EXCEPT ![x] = h])
    BY <2>1, <2>2, <2>3
  <2>5. [doc |-> x, heading |-> c.heading, body |-> c.body] \in Nodes
    BY DEF Contents, Nodes
  <2>6. Good([node[s] EXCEPT ![k] = [doc |-> x, heading |-> c.heading, body |-> c.body]],
             [header[s] EXCEPT ![x] = h])
    BY <1>1, <2>5, NodeFields DEF NoneOrNode
  <2>7. QED BY <2>4, <2>6
<1>10. QED BY <1>3, <1>4, <1>5, <1>6, <1>7, <1>8, <1>9
(* A step that only adds to the history, and to a side's nodes what it has *)
(* held, keeps what was shared, as long as the plan stands.                *)
LEMMA SharedStays ==
  ASSUME Shared, sync \in Syncs, base' = base,
         sync'.step = sync.step,
         sync.step # "idle" => sync'.from = sync.from /\ sync'.node = sync.node,
         sync.step = "put" => sync'.todo = sync.todo /\ sync'.after = sync.after,
         \A s \in Sides : held[s] \subseteq held'[s],
         HeldNow'
  PROVE  Shared'
<1>1. sync.step # "idle" => sync.from \in Sides /\ Other(sync.from) \in Sides
  BY SyncFields, TwoSides
<1>2. BaseWasShared'
  BY DEF Shared, BaseWasShared
<1>3. HeldFetched'
  BY <1>1 DEF Shared, HeldFetched
<1>4. AfterShared'
  <2>1. SUFFICES ASSUME sync'.step = "put", NEW k \in Anchors, sync'.after[k] # None
                 PROVE  /\ <<k, sync'.after[k]>> \in held'[sync'.from]
                        /\ \/ <<k, sync'.after[k]>> \in held'[Other(sync'.from)]
                           \/ /\ sync'.node[k] # None /\ sync'.node[k].doc \in sync'.todo
                              /\ sync'.after[k] = Hash(sync'.node[k])
    BY DEF AfterShared, Hash
  <2>2. sync.step = "put" /\ sync'.from = sync.from /\ sync'.node = sync.node
        /\ sync'.todo = sync.todo /\ sync'.after = sync.after
    BY <2>1
  <2>3. /\ <<k, sync.after[k]>> \in held[sync.from]
        /\ \/ <<k, sync.after[k]>> \in held[Other(sync.from)]
           \/ /\ sync.node[k] # None /\ sync.node[k].doc \in sync.todo
              /\ sync.after[k] = Hash(sync.node[k])
    BY <2>1, <2>2 DEF Shared, AfterShared
  <2>4. held[sync.from] \subseteq held'[sync.from] /\ held[Other(sync.from)] \subseteq held'[Other(sync.from)]
    BY <1>1, <2>2
  <2>5. QED BY <2>2, <2>3, <2>4
<1>5. QED BY <1>2, <1>3, <1>4 DEF Shared

LEMMA EditStep ==
  ASSUME IInv, NEW s \in Sides,
         NEW N \in [Anchors -> NoneOrNode], NEW H \in [Docs -> Headers \union {None}],
         Edit(s, N, H),
         \A k \in Anchors : N[k] # None => H[N[k].doc] # None
  PROVE  IInv'
<1> DEFINE gained == {<<k, Hash(N[k])>> : k \in {j \in Anchors : N[j] # None}}
                     \union {<<x, H[x]>> : x \in {y \in Docs : H[y] # None}}
<1>1. /\ node' = [node EXCEPT ![s] = N] /\ header' = [header EXCEPT ![s] = H]
      /\ held' = [held EXCEPT ![s] = held[s] \union gained]
      /\ sync' = IF sync.step = "idle" THEN sync ELSE [sync EXCEPT !.clean = FALSE]
      /\ base' = base /\ failures' = failures /\ agreed' = agreed
      /\ edits < MaxEdits /\ edits' = edits + 1
  BY DEF Edit
<1>2. TypeOK
  BY DEF IInv
<1>3. /\ node'[s] = N /\ \A t \in Sides : t # s => node'[t] = node[t]
      /\ held'[s] = held[s] \union gained /\ \A t \in Sides : held[t] \subseteq held'[t]
      /\ header'[s] = H /\ \A t \in Sides : t # s => header'[t] = header[t]
  <2> HIDE DEF gained
  <2>1. QED BY <1>1, <1>2 DEF TypeOK
<1>4. /\ sync'.step = sync.step
      /\ sync.step # "idle" =>
           /\ sync'.from = sync.from /\ sync'.scope = sync.scope /\ sync'.clean = FALSE
           /\ sync'.node = sync.node /\ sync'.header = sync.header
      /\ sync.step = "put" =>
           sync'.seen = sync.seen /\ sync'.todo = sync.todo /\ sync'.after = sync.after
      /\ sync' \in Syncs
  <2>1. sync \in Syncs
    BY <1>2 DEF TypeOK
  <2>2. sync' \in Syncs
    BY <1>1, <2>1, SyncUpdates
  <2>3. CASE sync.step = "idle"
    BY <1>1, <2>2, <2>3
  <2>4. CASE sync.step = "fetched"
    BY <1>1, <2>1, <2>2, <2>4 DEF Syncs, Resting
  <2>5. CASE sync.step = "put"
    BY <1>1, <2>1, <2>2, <2>5 DEF Syncs, Resting
  <2>6. QED BY <2>1, <2>3, <2>4, <2>5, SyncFields
<1>5. TypeOK'
  <2>1. gained \subseteq (Anchors \X Contents) \union (Docs \X Headers)
    BY NodeFields DEF NoneOrNode
  <2> HIDE DEF gained
  <2>2. held' \in [Sides -> SUBSET ((Anchors \X Contents) \union (Docs \X Headers))]
    BY <1>1, <1>2, <2>1 DEF TypeOK
  <2>3. /\ node' \in [Sides -> [Anchors -> Nodes \union {None}]]
        /\ header' \in [Sides -> [Docs -> Headers \union {None}]]
    BY <1>1, <1>2 DEF TypeOK, NoneOrNode
  <2>4. edits' \in 0 .. MaxEdits /\ failures' \in 0 .. MaxFailures
    BY <1>1, <1>2, L3SyncAssumption DEF TypeOK
  <2>5. \A t \in Sides, k \in Anchors : node'[t][k] # None => header'[t][node'[t][k].doc] # None
    <3>1. TAKE t \in Sides, k \in Anchors
    <3>2. CASE t = s
      BY <1>3, <3>2
    <3>3. CASE t # s
      BY <1>2, <1>3, <3>3 DEF TypeOK
    <3>4. QED BY <3>2, <3>3
  <2>6. QED BY <1>1, <1>2, <1>4, <2>2, <2>3, <2>4, <2>5 DEF TypeOK
<1>6. HeldNow'
  <2>1. SUFFICES ASSUME NEW t \in Sides, NEW k \in Anchors, node'[t][k] # None
                 PROVE  <<k, Hash(node'[t][k])>> \in held'[t]
    BY DEF HeldNow, Hash
  <2>2. CASE t = s
    BY <1>3, <2>1, <2>2
  <2>3. CASE t # s
    BY <1>3, <2>1, <2>3 DEF IInv, Shared, HeldNow
  <2>4. QED BY <2>2, <2>3
<1>7. Shared'
  <2>1. sync \in Syncs /\ Shared
    BY <1>2 DEF TypeOK, IInv
  <2>2. QED BY <1>1, <1>3, <1>4, <1>6, <2>1, SharedStays
<1>8. DocsCarried' /\ AgreedKnown' /\ NotRevived' /\ Undisturbed'
  BY <1>1, <1>4 DEF IInv, DocsCarried, AgreedKnown, NotRevived, Undisturbed
<1>9. Planned'
  <2>1. SUFFICES ASSUME sync'.step = "put", NEW k \in Anchors, sync'.seen[k] # None
                 PROVE  /\ sync'.node[k] # None /\ sync'.node[k].doc = sync'.seen[k].doc
                        /\ \/ Within(sync'.seen[k], sync'.node[k])
                           \/ <<k, Hash(sync'.seen[k])>> \in held'[sync'.from]
    BY DEF Planned, Within, Hash
  <2>2. sync.step = "put" /\ sync'.from = sync.from /\ sync'.node = sync.node /\ sync'.seen = sync.seen
        /\ sync.from \in Sides
    BY <1>2, <1>4, <2>1, SyncFields DEF TypeOK
  <2>3. QED BY <1>3, <2>1, <2>2 DEF IInv, Planned
<1>10. QED BY <1>5, <1>7, <1>8, <1>9 DEF IInv
-----------------------------------------------------------------------------
(* What a document that is stored does to the dest, and that its nodes are *)
(* then held there.                                                        *)
LEMMA StoredEffect ==
  ASSUME IInv, sync.step = "put", NEW x \in sync.todo, Stored(x)
  PROVE  LET t == Other(sync.from)
         IN /\ t \in Sides /\ t # sync.from /\ sync.from \in Sides /\ x \in Docs
            /\ node' \in [Sides -> [Anchors -> Nodes \union {None}]]
            /\ header' \in [Sides -> [Docs -> Headers \union {None}]]
            /\ held' \in [Sides -> SUBSET ((Anchors \X Contents) \union (Docs \X Headers))]
            /\ \A s \in Sides, k \in Anchors : node'[s][k] # None => header'[s][node'[s][k].doc] # None
            /\ \A s \in Sides : held[s] \subseteq held'[s] /\ (s # t => node'[s] = node[s])
            /\ HeldNow'
            /\ \A k \in Anchors :
                 node'[t][k] = IF sync.node[k] # None /\ sync.node[k].doc = x THEN sync.node[k]
                               ELSE InScope(Docs \ {x}, node[t][k])
            /\ \A k \in Anchors : sync.node[k] # None /\ sync.node[k].doc = x =>
                 <<k, Hash(sync.node[k])>> \in held'[t]
<1> DEFINE t == Other(sync.from)
           N == [k \in Anchors |->
                  IF sync.node[k] # None /\ sync.node[k].doc = x THEN sync.node[k]
                  ELSE InScope(Docs \ {x}, node[t][k])]
           gained == {<<k, Hash(N[k])>> : k \in {j \in Anchors : N[j] # None}}
                     \union {<<x, sync.header[x]>>}
<1>1. TypeOK /\ sync \in Syncs
  BY DEF IInv, TypeOK
<1>2. /\ sync.from \in Sides /\ t \in Sides /\ t # sync.from /\ x \in Docs
      /\ sync.node \in [Anchors -> NoneOrNode]
      /\ sync.header[x] \in Headers /\ sync.header[x] # None
  BY <1>1, SyncFields, TwoSides DEF IInv, DocsCarried
<1>3. /\ node' = [node EXCEPT ![t] = N] /\ header' = [header EXCEPT ![t][x] = sync.header[x]]
      /\ held' = [held EXCEPT ![t] = held[t] \union gained]
  BY DEF Stored
<1>4. \A k \in Anchors :
        /\ N[k] \in NoneOrNode
        /\ N[k] # None => N[k].doc = x \/ (N[k] = node[t][k] /\ N[k].doc # x)
  <2>1. TAKE k \in Anchors
  <2>2. sync.node[k] \in NoneOrNode /\ node[t][k] \in NoneOrNode
    BY <1>1, <1>2 DEF TypeOK, NoneOrNode
  <2>3. QED BY <2>2, ScopedNode
<1>5. gained \subseteq (Anchors \X Contents) \union (Docs \X Headers)
  <2> HIDE DEF N
  <2>1. QED BY <1>2, <1>4, NodeFields DEF NoneOrNode
<1>6. /\ node'[t] = N /\ \A s \in Sides : s # t => node'[s] = node[s]
      /\ held'[t] = held[t] \union gained /\ \A s \in Sides : held[s] \subseteq held'[s]
      /\ header'[t] = [header[t] EXCEPT ![x] = sync.header[x]]
      /\ \A s \in Sides : s # t => header'[s] = header[s]
  <2> HIDE DEF t, N, gained
  <2>1. QED BY <1>1, <1>2, <1>3 DEF TypeOK
<1>7. held' \in [Sides -> SUBSET ((Anchors \X Contents) \union (Docs \X Headers))]
  <2> HIDE DEF t, gained
  <2>1. QED BY <1>1, <1>2, <1>3, <1>5 DEF TypeOK
<1>8. N \in [Anchors -> Nodes \union {None}]
  BY <1>4 DEF NoneOrNode
<1>9. /\ node' \in [Sides -> [Anchors -> Nodes \union {None}]]
      /\ header' \in [Sides -> [Docs -> Headers \union {None}]]
  <2> HIDE DEF t, N
  <2>1. QED BY <1>1, <1>2, <1>3, <1>8 DEF TypeOK
<1>10. \A s \in Sides, k \in Anchors : node'[s][k] # None => header'[s][node'[s][k].doc] # None
  <2>1. SUFFICES ASSUME NEW s \in Sides, NEW k \in Anchors, node'[s][k] # None
                 PROVE  header'[s][node'[s][k].doc] # None
    OBVIOUS
  <2> HIDE DEF t, N, gained
  <2>2. CASE s = t
    <3>1. N[k] \in Nodes /\ N[k].doc \in Docs
      BY <1>4, <1>6, <2>1, <2>2, NodeFields DEF NoneOrNode
    <3>2. header[t] \in [Docs -> Headers \union {None}]
      BY <1>1, <1>2 DEF TypeOK
    <3>3. N[k].doc = x \/ header[t][N[k].doc] # None
      BY <1>1, <1>2, <1>4, <1>6, <2>1, <2>2 DEF TypeOK
    <3>4. QED BY <1>2, <1>6, <2>2, <3>1, <3>2, <3>3
  <2>3. CASE s # t
    BY <1>1, <1>6, <2>1, <2>3 DEF TypeOK
  <2>4. QED BY <2>2, <2>3
<1>11. HeldNow'
  <2>1. SUFFICES ASSUME NEW s \in Sides, NEW k \in Anchors, node'[s][k] # None
                 PROVE  <<k, Hash(node'[s][k])>> \in held'[s]
    BY DEF HeldNow, Hash
  <2> HIDE DEF t, N
  <2>2. CASE s = t
    BY <1>6, <2>1, <2>2
  <2>3. CASE s # t
    BY <1>6, <2>1, <2>3 DEF IInv, Shared, HeldNow
  <2>4. QED BY <2>2, <2>3
<1>12. \A k \in Anchors : sync.node[k] # None /\ sync.node[k].doc = x =>
         <<k, Hash(sync.node[k])>> \in held'[t]
  <2>1. SUFFICES ASSUME NEW k \in Anchors, sync.node[k] # None, sync.node[k].doc = x
                 PROVE  <<k, Hash(sync.node[k])>> \in held'[t]
    OBVIOUS
  <2>2. N[k] = sync.node[k]
    BY <2>1
  <2> HIDE DEF t, N
  <2>3. QED BY <1>6, <2>1, <2>2
<1>13. QED BY <1>2, <1>6, <1>7, <1>9, <1>10, <1>11, <1>12

(* What a PUT, stored or refused, leaves of the plan: the document is no   *)
(* longer to be put, and its nodes are on the dest or not to be saved.     *)
LEMMA PutStep ==
  ASSUME IInv, sync.step = "put", NEW x \in sync.todo,
         Stored(x) \/ UNCHANGED <<node, header, held>>,
         base' = base, agreed' = agreed, edits' = edits, failures' \in 0 .. MaxFailures,
         \/ Stored(x) /\ sync' = [sync EXCEPT !.todo = sync.todo \ {x}]
         \/ sync' = [sync EXCEPT !.todo = sync.todo \ {x}, !.after = Dropped(x), !.clean = FALSE]
  PROVE  IInv'
<1> DEFINE t == Other(sync.from)
<1>1. TypeOK /\ sync \in Syncs /\ x \in Docs
  BY SyncFields DEF IInv, TypeOK
<1>2. /\ t \in Sides /\ t # sync.from /\ sync.from \in Sides
      /\ node' \in [Sides -> [Anchors -> Nodes \union {None}]]
      /\ header' \in [Sides -> [Docs -> Headers \union {None}]]
      /\ held' \in [Sides -> SUBSET ((Anchors \X Contents) \union (Docs \X Headers))]
      /\ \A s \in Sides, k \in Anchors : node'[s][k] # None => header'[s][node'[s][k].doc] # None
      /\ \A s \in Sides : held[s] \subseteq held'[s] /\ (s # t => node'[s] = node[s])
      /\ HeldNow'
  <2>1. CASE Stored(x)
    BY <2>1, StoredEffect
  <2>2. CASE UNCHANGED <<node, header, held>>
    <3>1. HeldNow'
      BY <2>2 DEF HeldNow, IInv, Shared
    <3>2. sync.from \in Sides /\ t \in Sides /\ t # sync.from
      BY <1>1, SyncFields, TwoSides
    <3>3. QED BY <1>1, <2>2, <3>1, <3>2 DEF TypeOK
  <2>3. QED BY <2>1, <2>2
<1>3. /\ sync'.step = "put" /\ sync'.from = sync.from /\ sync'.scope = sync.scope
      /\ sync'.node = sync.node /\ sync'.header = sync.header /\ sync'.seen = sync.seen
      /\ sync'.todo = sync.todo \ {x} /\ sync' \in Syncs
      /\ \/ Stored(x) /\ sync'.after = sync.after /\ sync'.clean = sync.clean
         \/ sync'.after = Dropped(x) /\ sync'.clean = FALSE
  <2>1. Dropped(x) \in [Keys -> Hashes \union {None}]
    BY <1>1, SyncFields DEF Dropped
  <2>2. sync' \in Syncs
    BY <1>1, <2>1, SyncUpdates
  <2>3. CASE Stored(x) /\ sync' = [sync EXCEPT !.todo = sync.todo \ {x}]
    <3>1. sync \in [step : {"put"}, from : Sides, scope : SUBSET Docs, clean : BOOLEAN,
                    node : [Anchors -> Nodes \union {None}], header : [Docs -> Headers \union {None}],
                    seen : [Anchors -> Nodes \union {None}], todo : SUBSET Docs,
                    after : [Keys -> Hashes \union {None}]]
      BY <1>1 DEF Syncs, Resting
    <3>2. QED BY <2>2, <2>3, <3>1
  <2>4. CASE sync' = [sync EXCEPT !.todo = sync.todo \ {x}, !.after = Dropped(x), !.clean = FALSE]
    <3>1. sync \in [step : {"put"}, from : Sides, scope : SUBSET Docs, clean : BOOLEAN,
                    node : [Anchors -> Nodes \union {None}], header : [Docs -> Headers \union {None}],
                    seen : [Anchors -> Nodes \union {None}], todo : SUBSET Docs,
                    after : [Keys -> Hashes \union {None}]]
      BY <1>1 DEF Syncs, Resting
    <3>2. QED BY <2>2, <2>4, <3>1
  <2>5. QED BY <2>3, <2>4
<1>4. TypeOK'
  BY <1>1, <1>2, <1>3 DEF TypeOK
<1>5. AfterShared'
  <2>1. SUFFICES ASSUME NEW k \in Anchors, sync'.after[k] # None
                 PROVE  /\ <<k, sync'.after[k]>> \in held'[sync'.from]
                        /\ \/ <<k, sync'.after[k]>> \in held'[Other(sync'.from)]
                           \/ /\ sync'.node[k] # None /\ sync'.node[k].doc \in sync'.todo
                              /\ sync'.after[k] = Hash(sync'.node[k])
    BY DEF AfterShared, Hash
  <2>2. sync'.after[k] = sync.after[k] /\ k \in Keys
    BY <1>3, <2>1 DEF Dropped, Keys
  <2>3. sync.node[k] # None /\ sync.node[k].doc = x => Stored(x)
    BY <1>3, <2>1 DEF Dropped, Keys
  <2>4. /\ <<k, sync.after[k]>> \in held[sync.from]
        /\ \/ <<k, sync.after[k]>> \in held[t]
           \/ /\ sync.node[k] # None /\ sync.node[k].doc \in sync.todo
              /\ sync.after[k] = Hash(sync.node[k])
    BY <2>1, <2>2 DEF IInv, Shared, AfterShared
  <2>5. sync.node[k] # None /\ sync.node[k].doc = x => <<k, Hash(sync.node[k])>> \in held'[t]
    BY <2>3, StoredEffect
  <2>6. held[sync.from] \subseteq held'[sync.from] /\ held[t] \subseteq held'[t]
    BY <1>2
  <2> HIDE DEF t
  <2>7. Other(sync'.from) = t
    BY <1>3 DEF t
  <2>8. QED BY <1>3, <2>2, <2>4, <2>5, <2>6, <2>7
<1>6. Shared'
  <2>1. BaseWasShared'
    BY <1>2 DEF IInv, Shared, BaseWasShared
  <2>2. HeldFetched'
    BY <1>3 DEF HeldFetched
  <2>3. QED BY <1>2, <1>5, <2>1, <2>2 DEF Shared
<1>7. DocsCarried' /\ AgreedKnown' /\ NotRevived'
  BY <1>3 DEF IInv, DocsCarried, AgreedKnown, NotRevived
<1>8. Planned'
  <2>1. SUFFICES ASSUME NEW k \in Anchors, sync'.seen[k] # None
                 PROVE  /\ sync'.node[k] # None /\ sync'.node[k].doc = sync'.seen[k].doc
                        /\ \/ Within(sync'.seen[k], sync'.node[k])
                           \/ <<k, Hash(sync'.seen[k])>> \in held'[sync'.from]
    BY DEF Planned, Within, Hash
  <2>2. QED BY <1>2, <1>3, <2>1 DEF IInv, Planned
<1>9. Undisturbed'
  <2>1. SUFFICES ASSUME sync'.clean, NEW k \in Anchors
                 PROVE  sync'.after[k] = Recorded(InScope(sync'.scope, node'[sync'.from][k]), sync'.seen[k], base'[k])
    BY <1>3 DEF Undisturbed, Recorded, Verdict, InScope, Hash
  <2>2. sync.clean /\ sync'.after = sync.after /\ node'[sync.from] = node[sync.from]
    BY <1>2, <1>3, <2>1
  <2>3. QED BY <1>3, <2>2 DEF IInv, Undisturbed
<1>10. QED BY <1>4, <1>6, <1>7, <1>8, <1>9 DEF IInv
-----------------------------------------------------------------------------
LEMMA FetchSourceStep ==
  ASSUME IInv, NEW s \in Sides, NEW scope \in SUBSET Docs, FetchSource(s, scope)
  PROVE  IInv'
<1> DEFINE r == [step |-> "fetched", from |-> s, scope |-> scope, clean |-> TRUE,
                 node |-> [k \in Anchors |-> InScope(scope, node[s][k])],
                 header |-> [x \in Docs |-> IF x \in scope THEN header[s][x] ELSE None]]
<1>1. /\ sync' = r /\ node' = node /\ header' = header /\ base' = base /\ held' = held
      /\ edits' = edits /\ failures' = failures /\ agreed' = agreed
  BY DEF FetchSource
<1>2. TypeOK /\ node[s] \in [Anchors -> NoneOrNode]
  BY DEF IInv, TypeOK, NoneOrNode
<1>3. \A k \in Anchors : r.node[k] \in NoneOrNode /\ (r.node[k] # None =>
        r.node[k] = node[s][k] /\ node[s][k] # None /\ node[s][k].doc \in scope)
  BY <1>2, ScopedNode DEF NoneOrNode
<1>4. r \in Syncs
  <2>1. r.node \in [Anchors -> Nodes \union {None}]
    BY <1>3 DEF NoneOrNode
  <2>2. r.header \in [Docs -> Headers \union {None}]
    BY <1>2 DEF TypeOK
  <2>3. QED BY <2>1, <2>2 DEF Syncs
<1>5. TypeOK'
  BY <1>1, <1>2, <1>4 DEF TypeOK
<1>6. DocsCarried'
  BY <1>1, <1>2, <1>3 DEF DocsCarried, TypeOK
<1>7. Shared'
  <2>1. HeldFetched'
    BY <1>1, <1>3 DEF IInv, Shared, HeldNow, HeldFetched
  <2>2. QED BY <1>1, <2>1 DEF IInv, Shared, BaseWasShared, HeldNow, AfterShared
<1>8. Planned' /\ AgreedKnown' /\ NotRevived'
  BY <1>1 DEF IInv, Planned, AgreedKnown, NotRevived
<1>9. Undisturbed'
  BY <1>1 DEF Undisturbed
<1>10. QED BY <1>5, <1>6, <1>7, <1>8, <1>9 DEF IInv

LEMMA PlanStep ==
  ASSUME IInv, FetchDestAndPlan
  PROVE  IInv'
<1> DEFINE t == Other(sync.from)
           S == sync.node
           D == [k \in Anchors |-> InScope(sync.scope, node[t][k])]
           N == [k \in Anchors |-> Merged(S[k], D[k], base[k])]
           H == [x \in Docs |->
                   LET h == IF x \in sync.scope THEN header[t][x] ELSE None
                   IN IF h = None /\ \E k \in Anchors : N[k] # D[k] /\ N[k].doc = x
                      THEN sync.header[x] ELSE h]
           U == {x \in Docs : HeaderUpdated(sync.header[x], H[x], base[x])}
           G == [x \in Docs |-> IF x \in U THEN sync.header[x] ELSE H[x]]
           todo == U \union {N[k].doc : k \in {j \in Anchors : N[j] # D[j]}}
           A == [k \in Keys |-> IF k \in Anchors THEN Recorded(S[k], D[k], base[k])
                                ELSE HeaderRecorded(sync.header[k], H[k], base[k])]
           r == [step |-> "put", from |-> sync.from, scope |-> sync.scope, clean |-> sync.clean,
                 seen |-> D, node |-> N, header |-> G, todo |-> todo, after |-> A]
<1>1. /\ sync.step = "fetched" /\ sync' = r /\ node' = node /\ header' = header /\ base' = base
      /\ held' = held /\ edits' = edits /\ failures' = failures /\ agreed' = agreed
  BY DEF FetchDestAndPlan
<1>2. /\ TypeOK /\ sync \in Syncs /\ sync.from \in Sides /\ t \in Sides /\ t # sync.from
      /\ S \in [Anchors -> NoneOrNode] /\ node[t] \in [Anchors -> NoneOrNode]
      /\ sync.header \in [Docs -> Headers \union {None}]
      /\ header[t] \in [Docs -> Headers \union {None}]
      /\ base \in [Keys -> Hashes \union {None}] /\ Keys = Anchors \union Docs
      /\ sync.scope \in SUBSET Docs /\ sync.clean \in BOOLEAN
  BY <1>1, SyncFields, TwoSides DEF IInv, TypeOK, NoneOrNode, Keys
<1>3. \A k \in Anchors :
        /\ S[k] \in NoneOrNode /\ D[k] \in NoneOrNode
        /\ D[k] # None => D[k] = node[t][k] /\ D[k] \in Nodes
  BY <1>2, ScopedNode DEF NoneOrNode
<1>4. D \in [Anchors -> NoneOrNode]
  BY <1>3
<1>5. \A k \in Anchors :
        LET n == N[k]
            d == D[k]
            a == A[k]
        IN /\ n \in NoneOrNode /\ a \in Hashes \union {None}
           /\ n # d => S[k] # None /\ n # None /\ n.doc = S[k].doc
           /\ d # None => /\ n # None /\ n.doc = d.doc
                          /\ Within(d, n) \/ base[k] = Hash(d)
           /\ d = None /\ base[k] # None => n = None
           /\ a = Recorded(S[k], d, base[k])
           /\ a # None => /\ S[k] # None /\ a = Hash(S[k])
                          /\ \/ d # None /\ Hash(d) = Hash(S[k])
                             \/ n = S[k] /\ S[k] # d
  <2>1. TAKE k \in Anchors
  <2>2. N[k] = Merged(S[k], D[k], base[k])
    OBVIOUS
  <2>3. A[k] = Recorded(S[k], D[k], base[k])
    BY <1>2
  <2>4. S[k] \in NoneOrNode /\ D[k] \in NoneOrNode
    BY <1>3
  <2> HIDE DEF S, D, N, A
  <2>5. QED BY <2>2, <2>3, <2>4, MergedNode
<1>6. N \in [Anchors -> NoneOrNode]
  <2>1. \A k \in Anchors : N[k] \in NoneOrNode
    BY <1>5
  <2>2. N = [k \in Anchors |-> N[k]]
    OBVIOUS
  <2> HIDE DEF N
  <2>3. QED BY <2>1, <2>2
<1>7. \A x \in Docs :
        /\ H[x] \in Headers \union {None} /\ G[x] \in Headers \union {None}
        /\ x \in todo => G[x] # None
  <2>1. TAKE x \in Docs
  <2> DEFINE h == IF x \in sync.scope THEN header[t][x] ELSE None
             made == \E k \in Anchors : N[k] # D[k] /\ N[k].doc = x
  <2>2. H[x] = IF h = None /\ made THEN sync.header[x] ELSE h
    OBVIOUS
  <2>3. made => sync.header[x] # None
    <3>1. \A k \in Anchors : N[k] # D[k] => S[k] # None /\ N[k].doc = S[k].doc
      BY <1>5
    <3>2. \A k \in Anchors : S[k] # None => sync.header[S[k].doc] # None
      BY <1>1 DEF IInv, DocsCarried
    <3> HIDE DEF N, D, S
    <3>3. QED BY <3>1, <3>2
  <2>4. x \in U => sync.header[x] # None
    BY DEF HeaderUpdated
  <2>5. x \in todo => x \in U \/ made
    <3> HIDE DEF N, D, U
    <3>1. QED OBVIOUS
  <2>6. G[x] = IF x \in U THEN sync.header[x] ELSE H[x]
    OBVIOUS
  <2>7. h \in Headers \union {None} /\ sync.header[x] \in Headers \union {None}
    BY <1>2
  <2> HIDE DEF h, made, U, H, G, todo
  <2>8. QED BY <2>2, <2>3, <2>4, <2>5, <2>6, <2>7
<1>8. G \in [Docs -> Headers \union {None}] /\ todo \in SUBSET Docs
  <2>1. G = [x \in Docs |-> G[x]]
    OBVIOUS
  <2>2. G \in [Docs -> Headers \union {None}]
    <3> HIDE DEF G
    <3>1. QED BY <1>7, <2>1
  <2>3. \A k \in Anchors : N[k] # D[k] => N[k].doc \in Docs
    <3>1. \A k \in Anchors : N[k] # D[k] => N[k] \in Nodes
      BY <1>5 DEF NoneOrNode
    <3> HIDE DEF N, D
    <3>2. QED BY <3>1, NodeFields
  <2>4. U \subseteq Docs
    OBVIOUS
  <2>5. todo \in SUBSET Docs
    <3> HIDE DEF N, D, U
    <3>1. QED BY <2>3, <2>4
  <2>6. QED BY <2>2, <2>5
<1>9. A \in [Keys -> Hashes \union {None}]
  <2>1. \A k \in Keys : A[k] \in Hashes \union {None}
    <3>1. TAKE k \in Keys
    <3>2. CASE k \in Anchors
      BY <1>5, <3>2
    <3>3. CASE k \notin Anchors
      <4>1. k \in Docs /\ A[k] = HeaderRecorded(sync.header[k], H[k], base[k])
        BY <1>2, <3>3
      <4>2. sync.header[k] \in Headers \union {None}
        BY <1>2, <4>1
      <4> HIDE DEF A, H
      <4>3. QED BY <4>1, <4>2 DEF HeaderRecorded, Hashes
    <3>4. QED BY <3>2, <3>3
  <2>2. A = [k \in Keys |-> A[k]]
    OBVIOUS
  <2> HIDE DEF A
  <2>3. QED BY <2>1, <2>2
<1>10. /\ r \in Syncs /\ r.step = "put" /\ r.from = sync.from /\ r.scope = sync.scope
       /\ r.clean = sync.clean /\ r.seen = D /\ r.node = N /\ r.header = G /\ r.todo = todo /\ r.after = A
  <2>1. r \in Syncs
    <3> HIDE DEF D, N, G, todo, A
    <3>1. QED BY <1>2, <1>4, <1>6, <1>8, <1>9, PutRecord
  <2>2. QED BY <2>1
<1>11. \A k \in Anchors : N[k] # D[k] => N[k].doc \in todo
  <2> HIDE DEF N, D, U
  <2>1. QED OBVIOUS
<1> HIDE DEF r, N, D, G, H, U, A, todo
<1>12. TypeOK'
  BY <1>1, <1>2, <1>10 DEF TypeOK
<1>13. DocsCarried'
  BY <1>1, <1>7, <1>8, <1>10 DEF DocsCarried
<1>14. AfterShared'
  <2>1. SUFFICES ASSUME NEW k \in Anchors, A[k] # None
                 PROVE  /\ <<k, A[k]>> \in held[sync.from]
                        /\ \/ <<k, A[k]>> \in held[t]
                           \/ N[k] # None /\ N[k].doc \in todo /\ A[k] = Hash(N[k])
    BY <1>1, <1>10 DEF AfterShared, Hash
  <2>2. /\ S[k] # None /\ A[k] = Hash(S[k])
        /\ \/ D[k] # None /\ Hash(D[k]) = Hash(S[k])
           \/ N[k] = S[k] /\ S[k] # D[k]
    BY <1>5, <2>1
  <2>3. <<k, Hash(S[k])>> \in held[sync.from]
    BY <1>1, <2>2 DEF IInv, Shared, HeldFetched
  <2>4. CASE D[k] # None /\ Hash(D[k]) = Hash(S[k])
    <3>1. <<k, Hash(D[k])>> \in held[t]
      BY <1>2, <1>3, <2>4 DEF IInv, Shared, HeldNow
    <3>2. QED BY <2>2, <2>3, <2>4, <3>1
  <2>5. CASE N[k] = S[k] /\ S[k] # D[k]
    BY <1>11, <2>2, <2>3, <2>5
  <2>6. QED BY <2>2, <2>4, <2>5
<1>15. Shared'
  <2>1. BaseWasShared' /\ HeldNow'
    BY <1>1 DEF IInv, Shared, BaseWasShared, HeldNow
  <2>2. HeldFetched'
    BY <1>1, <1>10 DEF HeldFetched
  <2>3. QED BY <1>14, <2>1, <2>2 DEF Shared
<1>16. Planned'
  <2>1. SUFFICES ASSUME NEW k \in Anchors, D[k] # None
                 PROVE  /\ N[k] # None /\ N[k].doc = D[k].doc
                        /\ Within(D[k], N[k]) \/ <<k, Hash(D[k])>> \in held[sync.from]
    BY <1>1, <1>10 DEF Planned, Within, Hash
  <2>2. N[k] # None /\ N[k].doc = D[k].doc /\ (Within(D[k], N[k]) \/ base[k] = Hash(D[k]))
    BY <1>5, <2>1
  <2>3. Hash(D[k]) # None
    BY <1>3, <2>1, NodeFields
  <2>4. base[k] = Hash(D[k]) => <<k, Hash(D[k])>> \in held[sync.from]
    BY <1>2, <2>3 DEF IInv, Shared, BaseWasShared
  <2>5. QED BY <2>2, <2>4
<1>17. AgreedKnown' /\ NotRevived'
  <2>1. \A k \in agreed : k \in Anchors /\ base[k] # None
    BY <1>2 DEF IInv, AgreedKnown, TypeOK
  <2>2. \A k \in agreed : D[k] = None => N[k] = None
    BY <1>5, <2>1
  <2>3. QED BY <1>1, <1>10, <2>1, <2>2 DEF AgreedKnown, NotRevived
<1>18. Undisturbed'
  <2>1. SUFFICES ASSUME sync.clean, NEW k \in Anchors
                 PROVE  A[k] = Recorded(InScope(sync.scope, node[sync.from][k]), D[k], base[k])
    BY <1>1, <1>10 DEF Undisturbed, Recorded, Verdict, InScope, Hash
  <2>2. S[k] = InScope(sync.scope, node[sync.from][k])
    BY <1>1, <2>1 DEF IInv, Undisturbed
  <2>3. A[k] = Recorded(S[k], D[k], base[k])
    BY <1>5
  <2>4. QED BY <2>2, <2>3
<1>19. QED BY <1>12, <1>13, <1>15, <1>16, <1>17, <1>18 DEF IInv
LEMMA EndFacts ==
  ASSUME IInv, sync' = Resting
  PROVE  /\ sync' \in Syncs /\ sync'.step = "idle"
         /\ DocsCarried' /\ HeldFetched' /\ AfterShared' /\ Planned' /\ NotRevived' /\ Undisturbed'
<1>1. sync' \in Syncs /\ sync'.step = "idle"
  BY DEF Syncs, Resting
<1>2. QED BY <1>1 DEF DocsCarried, HeldFetched, AfterShared, Planned, NotRevived, Undisturbed

LEMMA SaveStep ==
  ASSUME IInv, Save
  PROVE  IInv'
<1> DEFINE fresh == {k \in Anchors :
                       LET n == InScope(sync.scope, node[sync.from][k])
                       IN n # None /\ n = node[Other(sync.from)][k] /\ sync.seen[k] \in {None, n}}
<1>1. /\ sync.step = "put" /\ sync.todo = {} /\ sync' = Resting
      /\ base' = [k \in Keys |-> IF sync.after[k] # None THEN sync.after[k] ELSE base[k]]
      /\ agreed' = IF sync.clean THEN agreed \union fresh ELSE agreed
      /\ node' = node /\ header' = header /\ edits' = edits /\ failures' = failures /\ held' = held
  BY DEF Save
<1>2. /\ TypeOK /\ sync \in Syncs /\ sync.from \in Sides
      /\ sync.after \in [Keys -> Hashes \union {None}] /\ base \in [Keys -> Hashes \union {None}]
      /\ Anchors \subseteq Keys
  BY <1>1, SyncFields DEF IInv, TypeOK, Keys
<1>3. TypeOK'
  <2>1. base' \in [Keys -> Hashes \union {None}]
    BY <1>1, <1>2
  <2>2. agreed' \in SUBSET Anchors
    BY <1>1, <1>2 DEF TypeOK
  <2>3. QED BY <1>1, <1>2, <2>1, <2>2, EndFacts DEF TypeOK
<1>4. BaseWasShared'
  <2>1. SUFFICES ASSUME NEW k \in Anchors, base'[k] # None, NEW s \in Sides
                 PROVE  <<k, base'[k]>> \in held[s]
    BY <1>1 DEF BaseWasShared
  <2>2. CASE sync.after[k] # None
    <3>1. <<k, sync.after[k]>> \in held[sync.from] /\ <<k, sync.after[k]>> \in held[Other(sync.from)]
      BY <1>1, <2>2 DEF IInv, Shared, AfterShared
    <3>2. s = sync.from \/ s = Other(sync.from)
      BY <1>2, TwoSides
    <3>3. base'[k] = sync.after[k]
      BY <1>1, <1>2, <2>2
    <3>4. QED BY <3>1, <3>2, <3>3
  <2>3. CASE sync.after[k] = None
    BY <1>1, <1>2, <2>1, <2>3 DEF IInv, Shared, BaseWasShared
  <2>4. QED BY <2>2, <2>3
<1>5. AgreedKnown'
  <2>1. ASSUME NEW k \in agreed PROVE base'[k] # None
    BY <1>1, <1>2, <2>1 DEF IInv, AgreedKnown, TypeOK
  <2>2. ASSUME sync.clean, NEW k \in fresh PROVE base'[k] # None
    <3> DEFINE n == InScope(sync.scope, node[sync.from][k])
    <3>1. /\ k \in Anchors /\ n # None /\ sync.seen[k] \in {None, n}
      BY <2>2
    <3>2. sync.after[k] = Recorded(n, sync.seen[k], base[k])
      BY <1>1, <2>2, <3>1 DEF IInv, Undisturbed
    <3>3. n \in Nodes
      <4>1. node[sync.from][k] \in NoneOrNode
        BY <1>2, <3>1 DEF TypeOK, NoneOrNode
      <4>2. QED BY <3>1, <4>1, ScopedNode
    <3>4. Hash(n) # None
      BY <3>3, NodeFields
    <3>5. base[k] # None \/ sync.after[k] = Hash(n)
      <4> HIDE DEF n
      <4>1. QED BY <3>1, <3>2 DEF Recorded, Verdict
    <3>6. QED BY <1>1, <1>2, <3>1, <3>4, <3>5
  <2>3. QED BY <1>1, <2>1, <2>2 DEF AgreedKnown
<1>6. HeldNow'
  BY <1>1 DEF IInv, Shared, HeldNow
<1>7. QED BY <1>1, <1>3, <1>4, <1>5, <1>6, EndFacts DEF IInv, Shared

LEMMA AbortStep ==
  ASSUME IInv, Abort
  PROVE  IInv'
<1>1. TypeOK'
  BY EndFacts, L3SyncAssumption DEF IInv, TypeOK, Abort
<1>2. BaseWasShared' /\ HeldNow' /\ AgreedKnown'
  BY DEF IInv, Shared, BaseWasShared, HeldNow, AgreedKnown, Abort
<1>3. QED BY <1>1, <1>2, EndFacts DEF IInv, Shared, Abort

LEMMA TornSaveStep ==
  ASSUME IInv, TornSave
  PROVE  IInv'
<1>1. TypeOK'
  BY EndFacts, L3SyncAssumption DEF IInv, TypeOK, TornSave
<1>2. BaseWasShared' /\ AgreedKnown'
  BY DEF BaseWasShared, AgreedKnown, TornSave, Keys
<1>3. HeldNow'
  BY DEF IInv, Shared, HeldNow, TornSave
<1>4. QED BY <1>1, <1>2, <1>3, EndFacts DEF IInv, Shared, TornSave

LEMMA InitInv == Init => IInv
<1> SUFFICES ASSUME Init PROVE IInv
  OBVIOUS
<1> DEFINE h == CHOOSE v \in Headings : TRUE
           m == CHOOSE v \in Headers : TRUE
           home == CHOOSE f \in [Anchors -> Docs] : TRUE
           full == [k \in Anchors |-> [doc |-> home[k], heading |-> h, body |-> <<>>]]
           made == [x \in Docs |-> IF \E k \in Anchors : home[k] = x THEN m ELSE None]
           all == {<<k, Hash(full[k])>> : k \in Anchors} \union {<<x, m>> : x \in {y \in Docs : made[y] # None}}
           first == CHOOSE s \in Sides : TRUE
           Both == /\ node = [s \in Sides |-> full] /\ header = [s \in Sides |-> made]
                   /\ held = [s \in Sides |-> all]
                   /\ base = [k \in Keys |-> IF k \in Anchors THEN Hash(full[k]) ELSE made[k]]
           One == /\ node = [s \in Sides |-> IF s = first THEN full ELSE [k \in Anchors |-> None]]
                  /\ header = [s \in Sides |-> IF s = first THEN made ELSE [x \in Docs |-> None]]
                  /\ held = [s \in Sides |-> IF s = first THEN all ELSE {}]
                  /\ base = [k \in Keys |-> None]
<1>1. /\ Both \/ One
      /\ sync = Resting /\ edits = 0 /\ failures = 0 /\ agreed = {}
  BY DEF Init
<1>2. h \in Headings /\ m \in Headers /\ m # None /\ home \in [Anchors -> Docs]
  <2>1. h \in Headings /\ m \in Headers /\ m # None
    BY L3SyncAssumption DEF Hashes
  <2>2. PICK x \in Docs : TRUE
    BY L3SyncAssumption
  <2>3. [k \in Anchors |-> x] \in [Anchors -> Docs]
    OBVIOUS
  <2>4. home \in [Anchors -> Docs]
    BY <2>3
  <2>5. QED BY <2>1, <2>4
<1> HIDE DEF h, m, home
<1>3. \A k \in Anchors : /\ full[k] \in Nodes /\ full[k].doc = home[k] /\ full[k] # None
                         /\ Hash(full[k]) \in Contents /\ Hash(full[k]) \in Hashes
  <2>1. << >> \in Seq(Lines)
    OBVIOUS
  <2>2. \A k \in Anchors : full[k] \in Nodes /\ full[k].doc = home[k]
    BY <1>2, <2>1 DEF Nodes
  <2> HIDE DEF full
  <2>3. QED BY <2>2, NodeFields
<1>4. full \in [Anchors -> Nodes \union {None}] /\ made \in [Docs -> Headers \union {None}]
      /\ \A k \in Anchors : made[home[k]] # None
  BY <1>2, <1>3
<1>5. all \subseteq (Anchors \X Contents) \union (Docs \X Headers)
      /\ \A k \in Anchors : <<k, Hash(full[k])>> \in all
  <2> HIDE DEF full, made
  <2>1. QED BY <1>2, <1>3
<1>6. \A x \in Docs : made[x] \in Hashes \union {None}
  <2> HIDE DEF made
  <2>1. QED BY <1>4 DEF Hashes
<1> HIDE DEF full, made, all, first
<1>7. sync \in Syncs /\ sync.step = "idle"
  BY <1>1 DEF Syncs, Resting
<1>8. /\ edits \in 0 .. MaxEdits /\ failures \in 0 .. MaxFailures /\ agreed \in SUBSET Anchors
  BY <1>1, L3SyncAssumption
<1>9. DocsCarried /\ HeldFetched /\ AfterShared /\ Planned /\ NotRevived /\ Undisturbed /\ AgreedKnown
  BY <1>1, <1>7 DEF DocsCarried, HeldFetched, AfterShared, Planned, NotRevived, Undisturbed, AgreedKnown
<1>10. CASE Both
  <2>1. TypeOK
    BY <1>3, <1>4, <1>5, <1>6, <1>7, <1>8, <1>10 DEF TypeOK, Keys
  <2>2. HeldNow
    BY <1>5, <1>10 DEF HeldNow
  <2>3. BaseWasShared
    BY <1>5, <1>10 DEF BaseWasShared, Keys
  <2>4. QED BY <1>9, <2>1, <2>2, <2>3 DEF IInv, Shared
<1>11. CASE One
  <2>1. TypeOK
    BY <1>3, <1>4, <1>5, <1>6, <1>7, <1>8, <1>11 DEF TypeOK, Keys
  <2>2. HeldNow
    BY <1>5, <1>11 DEF HeldNow
  <2>3. BaseWasShared
    BY <1>11 DEF BaseWasShared, Keys
  <2>4. QED BY <1>9, <2>1, <2>2, <2>3 DEF IInv, Shared
<1>12. QED BY <1>1, <1>10, <1>11
-----------------------------------------------------------------------------
LEMMA PutDocInv ==
  ASSUME IInv, NEW x \in Docs, PutDoc(x) \/ PutFails(x)
  PROVE  IInv'
<1>1. /\ sync.step = "put" /\ x \in sync.todo /\ base' = base /\ agreed' = agreed /\ edits' = edits
      /\ Stored(x) \/ UNCHANGED <<node, header, held>>
  BY DEF PutDoc, PutFails
<1>2. failures' \in 0 .. MaxFailures
  BY L3SyncAssumption DEF IInv, TypeOK, PutDoc, PutFails
<1>3. \/ Stored(x) /\ sync' = [sync EXCEPT !.todo = sync.todo \ {x}]
      \/ sync' = [sync EXCEPT !.todo = sync.todo \ {x}, !.after = Dropped(x), !.clean = FALSE]
  BY DEF PutDoc, PutFails
<1>4. QED BY <1>1, <1>2, <1>3, PutStep

LEMMA StepInv ==
  ASSUME IInv, [Next]_vars
  PROVE  IInv'
<1>1. TypeOK
  BY DEF IInv
<1>2. ASSUME NEW s \in Sides,
             \/ AddLine(s) \/ RemoveLine(s) \/ Retitle(s) \/ EditHeader(s)
             \/ AddNode(s) \/ RemoveNode(s) \/ RemoveDoc(s)
      PROVE  IInv'
  BY <1>1, <1>2, UserEdits, EditStep
<1>3. ASSUME NEW s \in Sides, Begin(s) PROVE IInv'
  <2>1. PICK scope \in {Docs} \union {{x} : x \in Docs} : FetchSource(s, scope)
    BY <1>3 DEF Begin
  <2>2. scope \in SUBSET Docs
    BY <2>1
  <2>3. QED BY <2>1, <2>2, FetchSourceStep
<1>4. CASE Work
  BY <1>4, PlanStep, PutDocInv, SaveStep DEF Work
<1>5. CASE Abort
  BY <1>5, AbortStep
<1>6. CASE TornSave
  BY <1>6, TornSaveStep
<1>7. CASE \E x \in Docs : PutFails(x)
  BY <1>7, PutDocInv
<1>8. CASE UNCHANGED vars
  BY <1>8 DEF vars, IInv, TypeOK, DocsCarried, Shared, BaseWasShared, HeldNow, HeldFetched,
              AfterShared, Planned, AgreedKnown, NotRevived, Undisturbed
<1>9. QED BY <1>2, <1>3, <1>4, <1>5, <1>6, <1>7, <1>8 DEF Next

(* The stores, the sync's locals and its state file have their types, and  *)
(* a node stands in a document there is.                                   *)
THEOREM SyncTyped == Spec => []TypeOK
<1>1. IInv => TypeOK
  BY DEF IInv
<1>2. QED BY <1>1, InitInv, StepInv, PTL DEF Spec

(* The base invariant of plan_merge: a hash that the state file has for a  *)
(* node is of content that both stores have held.                          *)
THEOREM BaseStaysShared == Spec => []BaseWasShared
<1>1. IInv => BaseWasShared
  BY DEF IInv, Shared
<1>2. QED BY <1>1, InitInv, StepInv, PTL DEF Spec

(* Only a stored document changes nodes without a user's edit.             *)
LEMMA OnlyStored ==
  ASSUME IInv, [Next]_vars, edits' = edits, node' # node
  PROVE  sync.step = "put" /\ \E x \in sync.todo : Stored(x)
<1>1. edits \in Nat
  BY L3SyncAssumption DEF IInv, TypeOK
<1>2. ASSUME NEW s \in Sides, NEW N, NEW H, Edit(s, N, H) PROVE FALSE
  BY <1>1, <1>2 DEF Edit
<1>3. ASSUME NEW s \in Sides,
             \/ AddLine(s) \/ RemoveLine(s) \/ Retitle(s) \/ EditHeader(s)
             \/ AddNode(s) \/ RemoveNode(s) \/ RemoveDoc(s)
      PROVE  FALSE
  BY <1>2, <1>3, UserEdits DEF IInv
<1>4. CASE \E x \in Docs : PutDoc(x) \/ PutFails(x)
  BY <1>4 DEF PutDoc, PutFails
<1>5. CASE \/ \E s \in Sides : Begin(s)
           \/ FetchDestAndPlan \/ Save \/ Abort \/ TornSave \/ UNCHANGED vars
  BY <1>5 DEF Begin, FetchSource, FetchDestAndPlan, Save, Abort, TornSave, vars
<1>6. QED BY <1>3, <1>4, <1>5 DEF Next, Work

LEMMA StoredKeeps ==
  ASSUME IInv, sync.step = "put", NEW x \in sync.todo, Stored(x)
  PROVE  NoLostEdit /\ DeletionsStick
<1> DEFINE t == Other(sync.from)
<1>1. /\ t \in Sides /\ sync.from \in Sides
      /\ \A s \in Sides : s # t => node'[s] = node[s]
      /\ \A k \in Anchors :
           node'[t][k] = IF sync.node[k] # None /\ sync.node[k].doc = x THEN sync.node[k]
                         ELSE InScope(Docs \ {x}, node[t][k])
  BY StoredEffect
<1>2. TypeOK /\ sync \in Syncs
  BY DEF IInv, TypeOK
<1>3. \A k \in Anchors : node[t][k] # None => node[t][k] \in Nodes /\ node[t][k].doc \in Docs
  BY <1>1, <1>2, NodeFields DEF TypeOK
<1> HIDE DEF t
<1>4. NoLostEdit
  <2>1. SUFFICES ASSUME NEW s \in Sides, NEW k \in Anchors,
                        node'[s][k] # node[s][k], node[s][k] # None, node[s][k] = sync.seen[k]
                 PROVE  /\ node'[s][k] # None
                        /\ \/ Within(node[s][k], node'[s][k])
                           \/ <<k, Hash(node[s][k])>> \in held[sync.from]
    BY DEF NoLostEdit
  <2>2. s = t
    BY <1>1, <2>1
  <2>3. /\ sync.node[k] # None /\ sync.node[k].doc = sync.seen[k].doc
        /\ \/ Within(sync.seen[k], sync.node[k])
           \/ <<k, Hash(sync.seen[k])>> \in held[sync.from]
    BY <2>1 DEF IInv, Planned
  <2>4. sync.node[k].doc = x
    <3>1. SUFFICES ASSUME sync.node[k].doc # x PROVE FALSE
      OBVIOUS
    <3>2. node'[t][k] = InScope(Docs \ {x}, node[t][k])
      BY <1>1, <3>1
    <3>3. node[t][k].doc # x /\ node[t][k].doc \in Docs
      BY <1>3, <2>1, <2>2, <2>3, <3>1
    <3>4. node'[t][k] = node[t][k]
      BY <2>1, <2>2, <3>2, <3>3 DEF InScope
    <3>5. QED BY <2>1, <2>2, <3>4
  <2>5. node'[t][k] = sync.node[k]
    BY <1>1, <2>3, <2>4
  <2>6. QED BY <2>1, <2>2, <2>3, <2>5
<1>5. DeletionsStick
  <2>1. SUFFICES ASSUME NEW s \in Sides, NEW k \in agreed, node[s][k] = None, node'[s][k] # None
                 PROVE  sync.seen[k] # None
    BY DEF DeletionsStick
  <2>2. k \in Anchors
    BY <1>2 DEF TypeOK
  <2>3. s = t
    BY <1>1, <2>1
  <2>4. sync.node[k] # None
    BY <1>1, <2>1, <2>2, <2>3 DEF InScope
  <2>5. QED BY <2>4 DEF IInv, NotRevived
<1>6. QED BY <1>4, <1>5

(* What users wrote and removed stands, whichever way the syncs run and    *)
(* whatever fails: no line is overwritten but by a side that had it, and   *)
(* no removed node comes back once both sides agreed on it.                *)
THEOREM UserEditsStick == Spec => EditsStick
<1>1. ASSUME IInv, [Next]_vars
      PROVE  [NoLostEdit /\ DeletionsStick]_vars
  <2>1. CASE edits' # edits
    BY <2>1 DEF NoLostEdit, DeletionsStick
  <2>2. CASE node' = node
    BY <2>2 DEF NoLostEdit, DeletionsStick
  <2>3. CASE edits' = edits /\ node' # node
    BY <1>1, <2>3, OnlyStored, StoredKeeps
  <2>4. QED BY <2>1, <2>2, <2>3
<1>2. QED BY <1>1, InitInv, StepInv, PTL DEF Spec, EditsStick
==============================================================================
