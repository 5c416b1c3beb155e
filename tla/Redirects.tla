------------------------------ MODULE Redirects ------------------------------
(***************************************************************************)
(* The merge-redirect forest of the node table, as operators over a        *)
(* function m that gives each node id its merged_into column (NoId stands  *)
(* for NULL).  Ids are natural numbers: their order is the lexicographic   *)
(* order of the guid strings, which put_work uses to pick a survivor.      *)
(*                                                                         *)
(* A chain is defined as the least set closed under merged_into, not by    *)
(* recursion, so that the proofs of this development can reason about it.  *)
(***************************************************************************)
EXTENDS Naturals, FiniteSets

CONSTANTS
  Ids,   (* the guids that IdGen may hand out, in lexicographic order      *)
  NoId   (* NULL: not an id                                                *)

ASSUME IdsAssumption ==
  /\ Ids \subseteq Nat
  /\ IsFiniteSet(Ids)
  /\ NoId \notin Ids

Redirection == [Ids -> Ids \union {NoId}]

(* S contains the target of every redirect that starts in it. *)
ClosedUnder(m, S) == \A x \in S : m[x] # NoId => m[x] \in S

(* The ids that a walk along merged_into from n visits, n included. *)
Chain(m, n) ==
  {x \in Ids : \A S \in SUBSET Ids : n \in S /\ ClosedUnder(m, S) => x \in S}

(* Where that walk stops: the first id with no merged_into. *)
Root(m, n) == CHOOSE r \in Chain(m, n) : m[r] = NoId

(* Mutant: a compression that clears what it should repoint. *)
CompressedClear(m, n) ==
  [x \in Ids |-> IF x \in Chain(m, n) THEN NoId ELSE m[x]]

(* The path compression at the end of resolve_live. *)
Compressed(m, n) ==
  [x \in Ids |-> IF x \in Chain(m, n) /\ m[x] # NoId THEN Root(m, n) ELSE m[x]]

(* Mutant: deletes the node but not the redirects that lead to it. *)
NodeAlone(m, nodes, n) == {n}

(* The nodes whose walk passes through n: n and its redirect network. *)
NetworkOf(m, nodes, n) == {n} \union {x \in nodes : n \in Chain(m, x)}

(* Mutant: the wrong end of ORDER BY. *)
Greatest(S) == CHOOSE x \in S : \A y \in S : y <= x

Least(S) == CHOOSE x \in S : \A y \in S : x <= y
==============================================================================
