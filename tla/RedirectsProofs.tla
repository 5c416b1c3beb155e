--------------------------- MODULE RedirectsProofs ---------------------------
(***************************************************************************)
(* What the walk along merged_into computes, for every forest whose        *)
(* redirects decrease: it ends, in a unique live id, the least it visits.  *)
(***************************************************************************)
EXTENDS Redirects, WellFoundedInduction, TLAPS

Decreasing(m) == \A n \in Ids : m[n] # NoId => m[n] < n

(* Every nonempty set of guids has a lexicographically least one. *)
LEMMA LeastProperty ==
  ASSUME NEW S \in SUBSET Nat, S # {}
  PROVE  Least(S) \in S /\ \A y \in S : Least(S) <= y
<1>1. \E x \in S : \A y \in S : ~ (<<y, x>> \in OpToRel(<, Nat))
  BY NatLessThanWellFounded, WFMin
<1>2. \E x \in S : \A y \in S : x <= y
  <2>1. PICK x \in S : \A y \in S : ~ (<<y, x>> \in OpToRel(<, Nat))
    BY <1>1
  <2>2. \A y \in S : ~(y < x)
    BY <2>1 DEF OpToRel
  <2>3. QED BY <2>2
<1>3. QED BY <1>2 DEF Least

(* A walk from n stays in every set that holds n and is closed. *)
LEMMA ChainMinimal ==
  ASSUME NEW m \in Redirection, NEW n \in Ids,
         NEW S \in SUBSET Ids, n \in S, ClosedUnder(m, S)
  PROVE  Chain(m, n) \subseteq S
BY DEF Chain

LEMMA ChainStarts ==
  ASSUME NEW m \in Redirection, NEW n \in Ids
  PROVE  n \in Chain(m, n) /\ Chain(m, n) \in SUBSET Ids
BY DEF Chain

LEMMA ChainClosed ==
  ASSUME NEW m \in Redirection, NEW n \in Ids
  PROVE  ClosedUnder(m, Chain(m, n))
<1>1. SUFFICES ASSUME NEW x \in Chain(m, n), m[x] # NoId
               PROVE  m[x] \in Chain(m, n)
  BY DEF ClosedUnder
<1>2. x \in Ids /\ m[x] \in Ids
  BY <1>1 DEF Chain, Redirection
<1>3. ASSUME NEW S \in SUBSET Ids, n \in S, ClosedUnder(m, S)
      PROVE  m[x] \in S
  BY <1>1, <1>3 DEF Chain, ClosedUnder
<1>4. QED BY <1>2, <1>3 DEF Chain

(* The walk from n is n alone, or n and the walk from where n forwards.    *)
LEMMA ChainUnfold ==
  ASSUME NEW m \in Redirection, NEW n \in Ids
  PROVE  /\ m[n] = NoId => Chain(m, n) = {n}
         /\ m[n] # NoId => /\ m[n] \in Ids
                           /\ Chain(m, n) \subseteq {n} \union Chain(m, m[n])
<1>1. ASSUME m[n] = NoId PROVE Chain(m, n) = {n}
  <2>1. ClosedUnder(m, {n})
    BY <1>1 DEF ClosedUnder
  <2>2. QED BY <2>1, ChainMinimal, ChainStarts
<1>2. ASSUME m[n] # NoId
      PROVE  m[n] \in Ids /\ Chain(m, n) \subseteq {n} \union Chain(m, m[n])
  <2>1. m[n] \in Ids
    BY <1>2 DEF Redirection
  <2>2. ClosedUnder(m, Chain(m, m[n])) /\ m[n] \in Chain(m, m[n]) /\ Chain(m, m[n]) \in SUBSET Ids
    BY <2>1, ChainClosed, ChainStarts
  <2>3. ClosedUnder(m, {n} \union Chain(m, m[n]))
    BY <2>2 DEF ClosedUnder
  <2>4. QED BY <2>1, <2>2, <2>3, ChainMinimal
<1>3. QED BY <1>1, <1>2

(* A walk never visits two live ids: if some walks did, the least id that  *)
(* starts one would forward to a smaller id that starts another.           *)
LEMMA OneLiveId ==
  ASSUME NEW m \in Redirection, Decreasing(m), NEW n \in Ids,
         NEW p \in Chain(m, n), m[p] = NoId,
         NEW q \in Chain(m, n), m[q] = NoId
  PROVE  p = q
<1> DEFINE Both == {x \in Ids : p \in Chain(m, x) /\ q \in Chain(m, x)}
<1> SUFFICES ASSUME p # q PROVE FALSE
  OBVIOUS
<1>1. Both # {} /\ Both \in SUBSET Nat
  BY IdsAssumption
<1>2. PICK x \in Both : \A y \in Both : x <= y
  <2> HIDE DEF Both
  <2> QED BY <1>1, LeastProperty
<1>3. m[x] # NoId
  BY <1>2, ChainUnfold
<1>4. m[x] \in Ids /\ m[x] < x /\ Chain(m, x) \subseteq {x} \union Chain(m, m[x])
  BY <1>2, <1>3, ChainUnfold DEF Decreasing
<1>5. p # x /\ q # x
  BY <1>3
<1>6. m[x] \in Both
  BY <1>2, <1>4, <1>5
<1>7. x <= m[x]
  <2> HIDE DEF Both
  <2> QED BY <1>2, <1>6
<1>8. x \in Nat /\ m[x] \in Nat
  BY <1>1, <1>4, IdsAssumption
<1>9. QED BY <1>4, <1>7, <1>8

(* resolve_live ends, at a live id of its walk, and no id it visits is     *)
(* smaller.                                                                *)
THEOREM RootProperty ==
  ASSUME NEW m \in Redirection, Decreasing(m), NEW n \in Ids
  PROVE  /\ Root(m, n) \in Chain(m, n) /\ m[Root(m, n)] = NoId
         /\ \A x \in Chain(m, n) : Root(m, n) <= x
<1>1. Chain(m, n) # {} /\ Chain(m, n) \in SUBSET Nat
  BY ChainStarts, IdsAssumption
<1>2. PICK l \in Chain(m, n) : \A x \in Chain(m, n) : l <= x
  BY <1>1, LeastProperty
<1>3. m[l] = NoId
  <2> SUFFICES ASSUME m[l] # NoId PROVE FALSE
    OBVIOUS
  <2>1. m[l] \in Chain(m, n) /\ l \in Ids
    BY ChainClosed, ChainStarts DEF ClosedUnder
  <2>2. m[l] < l
    BY <2>1 DEF Decreasing
  <2>3. QED BY <1>1, <1>2, <2>1, <2>2
<1>4. Root(m, n) \in Chain(m, n) /\ m[Root(m, n)] = NoId
  BY <1>3 DEF Root
<1>5. Root(m, n) = l
  BY <1>3, <1>4, OneLiveId
<1>6. QED BY <1>2, <1>4, <1>5

(* Path compression keeps the forest a decreasing one. *)
THEOREM CompressedDecreases ==
  ASSUME NEW m \in Redirection, Decreasing(m), NEW n \in Ids
  PROVE  Compressed(m, n) \in Redirection /\ Decreasing(Compressed(m, n))
<1>1. /\ Root(m, n) \in Chain(m, n) /\ m[Root(m, n)] = NoId
      /\ \A x \in Chain(m, n) : Root(m, n) <= x
  BY RootProperty
<1>2. Root(m, n) \in Ids
  BY <1>1, ChainStarts
<1>3. Compressed(m, n) \in Redirection
  BY <1>2 DEF Compressed, Redirection
<1>4. ASSUME NEW x \in Ids, Compressed(m, n)[x] # NoId
      PROVE  Compressed(m, n)[x] < x
  <2>1. CASE x \in Chain(m, n) /\ m[x] # NoId
    <3>1. Compressed(m, n)[x] = Root(m, n) /\ Root(m, n) <= x /\ Root(m, n) # x
      BY <1>1, <2>1 DEF Compressed
    <3>2. Root(m, n) \in Nat /\ x \in Nat
      BY <1>2, IdsAssumption
    <3>3. QED BY <3>1, <3>2
  <2>2. CASE ~(x \in Chain(m, n) /\ m[x] # NoId)
    BY <1>4, <2>2 DEF Compressed, Decreasing
  <2>3. QED BY <2>1, <2>2
<1>5. QED BY <1>3, <1>4 DEF Decreasing
------------------------------------------------------------------------------
(* Where walks end after the forest has changed.                           *)

(* A live id that a walk visits is where it ends. *)
LEMMA RootIs ==
  ASSUME NEW m \in Redirection, Decreasing(m), NEW n \in Ids,
         NEW r \in Chain(m, n), m[r] = NoId
  PROVE  Root(m, n) = r
BY RootProperty, OneLiveId

(* A live id is its own root; any other id shares its target's.            *)
LEMMA RootStep ==
  ASSUME NEW m \in Redirection, Decreasing(m), NEW n \in Ids
  PROVE  /\ m[n] = NoId => Root(m, n) = n
         /\ m[n] # NoId => m[n] \in Ids /\ Root(m, n) = Root(m, m[n])
<1>1. ASSUME m[n] = NoId PROVE Root(m, n) = n
  BY <1>1, ChainStarts, RootIs
<1>2. ASSUME m[n] # NoId PROVE m[n] \in Ids /\ Root(m, n) = Root(m, m[n])
  <2>1. m[n] \in Ids
    BY <1>2 DEF Redirection
  <2>2. Root(m, m[n]) \in Chain(m, m[n]) /\ m[Root(m, m[n])] = NoId
    BY <2>1, RootProperty
  <2>3. Chain(m, m[n]) \subseteq Chain(m, n)
    BY <1>2, <2>1, ChainStarts, ChainClosed, ChainMinimal DEF ClosedUnder
  <2>4. QED BY <2>1, <2>2, <2>3, RootIs
<1>3. QED BY <1>1, <1>2

LEMMA RootLive ==
  ASSUME NEW m \in Redirection, Decreasing(m), NEW n \in Ids
  PROVE  Root(m, n) \in Ids /\ m[Root(m, n)] = NoId
BY RootProperty, ChainStarts

(* All ids that a walk visits have one root. *)
LEMMA RootOnChain ==
  ASSUME NEW m \in Redirection, Decreasing(m), NEW n \in Ids, NEW x \in Chain(m, n)
  PROVE  x \in Ids /\ Root(m, x) = Root(m, n)
<1>1. x \in Ids
  BY ChainStarts
<1>2. Chain(m, x) \subseteq Chain(m, n)
  BY <1>1, ChainStarts, ChainClosed, ChainMinimal
<1>3. Root(m, x) \in Chain(m, x) /\ m[Root(m, x)] = NoId
  BY <1>1, RootProperty
<1>4. QED BY <1>1, <1>2, <1>3, RootIs

(* A property that every id inherits from the id it forwards to, and that  *)
(* live ids have, holds of all: the least id without it would contradict.  *)
LEMMA AlongRedirects ==
  ASSUME NEW m \in Redirection, Decreasing(m), NEW S \in SUBSET Ids,
         \A x \in Ids : m[x] = NoId => x \in S,
         \A x \in Ids : m[x] # NoId /\ m[x] \in S => x \in S
  PROVE  S = Ids
<1> SUFFICES ASSUME Ids \ S # {} PROVE FALSE
  OBVIOUS
<1>1. Ids \ S \in SUBSET Nat
  BY IdsAssumption
<1>2. PICK x \in Ids \ S : \A y \in Ids \ S : x <= y
  BY <1>1, LeastProperty
<1>3. m[x] # NoId /\ m[x] \in Ids /\ m[x] < x
  BY <1>2 DEF Redirection, Decreasing
<1>4. m[x] \in Ids \ S
  BY <1>2, <1>3
<1>5. x <= m[x] /\ x \in Nat /\ m[x] \in Nat
  BY <1>2, <1>3, <1>4, IdsAssumption
<1>6. QED BY <1>3, <1>5

(* Path compression changes no walk's end. *)
THEOREM CompressedRoots ==
  ASSUME NEW m \in Redirection, Decreasing(m), NEW n \in Ids
  PROVE  \A x \in Ids : Root(Compressed(m, n), x) = Root(m, x)
<1> DEFINE k == Compressed(m, n)
           top == Root(m, n)
           S == {x \in Ids : Root(k, x) = Root(m, x)}
<1>0. k \in Redirection /\ Decreasing(k)
  BY CompressedDecreases
<1>1. top \in Ids /\ m[top] = NoId /\ k[top] = NoId
  BY RootLive DEF Compressed
<1>2. ASSUME NEW x \in Ids, m[x] = NoId PROVE x \in S
  <2>1. k[x] = NoId
    BY <1>2 DEF Compressed
  <2> HIDE DEF k
  <2>2. QED BY <1>0, <1>2, <2>1, RootStep
<1>3. ASSUME NEW x \in Ids, m[x] # NoId, m[x] \in S PROVE x \in S
  <2>1. CASE x \in Chain(m, n)
    <3>1. k[x] = top
      BY <1>3, <2>1 DEF Compressed
    <3>2. Root(m, x) = top
      BY <2>1, RootOnChain
    <3> HIDE DEF k, top
    <3>3. top # NoId
      BY <1>1, IdsAssumption
    <3>4. Root(k, x) = Root(k, top) /\ Root(k, top) = top
      BY <1>0, <1>1, <3>1, <3>3, RootStep
    <3>5. QED BY <3>2, <3>4
  <2>2. CASE x \notin Chain(m, n)
    <3>1. k[x] = m[x]
      BY <2>2 DEF Compressed
    <3> HIDE DEF k
    <3>2. QED BY <1>0, <1>3, <3>1, RootStep
  <2>3. QED BY <2>1, <2>2
<1>4. S = Ids
  <2> HIDE DEF S
  <2>1. S \in SUBSET Ids
    BY DEF S
  <2>2. QED BY <1>2, <1>3, <2>1, AlongRedirects
<1>5. QED BY <1>4

(* Redirecting a live loser to a live survivor moves the walks that ended  *)
(* at the loser to the survivor, and no other.                             *)
LEMMA MergedRoots ==
  ASSUME NEW m \in Redirection, Decreasing(m),
         NEW l \in Ids, NEW s \in Ids, m[l] = NoId, m[s] = NoId, s < l
  PROVE  LET k == [m EXCEPT ![l] = s]
         IN  /\ k \in Redirection /\ Decreasing(k)
             /\ \A x \in Ids : Root(k, x) = IF Root(m, x) = l THEN s ELSE Root(m, x)
<1> DEFINE k == [m EXCEPT ![l] = s]
           S == {x \in Ids : Root(k, x) = IF Root(m, x) = l THEN s ELSE Root(m, x)}
<1>0. k \in Redirection /\ Decreasing(k)
  BY DEF Redirection, Decreasing
<1>1. s # l /\ s # NoId /\ k[s] = NoId /\ k[l] = s /\ \A x \in Ids \ {l} : k[x] = m[x]
  BY IdsAssumption DEF Redirection
<1> HIDE DEF k
<1>2. ASSUME NEW x \in Ids, m[x] = NoId PROVE x \in S
  <2>1. Root(m, x) = x
    BY <1>2, RootStep
  <2>2. CASE x = l
    BY <1>0, <1>1, <2>1, <2>2, RootStep
  <2>3. CASE x # l
    BY <1>0, <1>1, <1>2, <2>1, <2>3, RootStep
  <2>4. QED BY <2>2, <2>3
<1>3. ASSUME NEW x \in Ids, m[x] # NoId, m[x] \in S PROVE x \in S
  <2>1. k[x] = m[x]
    BY <1>1, <1>3
  <2>2. QED BY <1>0, <1>3, <2>1, RootStep
<1>4. S = Ids
  <2> HIDE DEF S
  <2>1. S \in SUBSET Ids
    BY DEF S
  <2>2. QED BY <1>2, <1>3, <2>1, AlongRedirects
<1>5. QED BY <1>0, <1>4 DEF k

(* Deleting a live id's network clears the redirects of the walks that end *)
(* there, and changes no other walk.                                       *)
LEMMA NetworkRoots ==
  ASSUME NEW m \in Redirection, Decreasing(m), NEW N \in SUBSET Ids,
         NEW n \in N, m[n] = NoId
  PROVE  LET net == NetworkOf(m, N, n)
             k == [x \in Ids |-> IF x \in net THEN NoId ELSE m[x]]
         IN  /\ k \in Redirection /\ Decreasing(k)
             /\ net \subseteq N /\ \A x \in net : Root(m, x) = n
             /\ \A x \in N : Root(m, x) = n => x \in net
             /\ \A x \in Ids : Root(m, x) # n => Root(k, x) = Root(m, x)
<1> DEFINE net == NetworkOf(m, N, n)
           k == [x \in Ids |-> IF x \in net THEN NoId ELSE m[x]]
           S == {x \in Ids : Root(m, x) # n => Root(k, x) = Root(m, x)}
<1>1. net \subseteq N
  BY DEF NetworkOf
<1>2. ASSUME NEW x \in net PROVE Root(m, x) = n
  <2>1. x \in Ids /\ (x = n \/ n \in Chain(m, x))
    BY <1>1 DEF NetworkOf
  <2>2. n \in Chain(m, x)
    BY <2>1, ChainStarts
  <2>3. QED BY <2>1, <2>2, RootIs
<1>3. ASSUME NEW x \in N, Root(m, x) = n PROVE x \in net
  BY <1>3, RootProperty DEF NetworkOf
<1> HIDE DEF net
<1>4. k \in Redirection /\ Decreasing(k)
  BY DEF Redirection, Decreasing
<1>5. ASSUME NEW x \in Ids, m[x] = NoId PROVE x \in S
  <2>1. k[x] = NoId
    BY <1>5
  <2> HIDE DEF k
  <2>2. QED BY <1>4, <1>5, <2>1, RootStep
<1>6. ASSUME NEW x \in Ids, m[x] # NoId, m[x] \in S PROVE x \in S
  <2> SUFFICES ASSUME Root(m, x) # n PROVE Root(k, x) = Root(m, x)
    OBVIOUS
  <2>1. x \notin net
    BY <1>2
  <2>2. k[x] = m[x]
    BY <2>1
  <2>3. Root(m, m[x]) = Root(m, x) /\ m[x] \in Ids
    BY <1>6, RootStep
  <2> HIDE DEF k
  <2>4. QED BY <1>4, <1>6, <2>2, <2>3, RootStep
<1>7. S = Ids
  <2> HIDE DEF S
  <2>1. S \in SUBSET Ids
    BY DEF S
  <2>2. QED BY <1>5, <1>6, <2>1, AlongRedirects
<1>8. QED BY <1>1, <1>2, <1>3, <1>4, <1>7 DEF net
==============================================================================
