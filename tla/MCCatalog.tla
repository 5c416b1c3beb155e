----------------------------- MODULE MCCatalog -----------------------------
(***************************************************************************)
(* Small instances of Catalog: aliases x and y of one work and z of a      *)
(* third, bundles that name one of them or co-assert two.                  *)
(*                                                                         *)
(* A behaviour has one of two regimes.  In "serial" one caller's requests  *)
(* come one at a time, of every kind, and one may be cut short.  In "race" *)
(* two callers' put_work and put_edges interleave.                         *)
(***************************************************************************)
EXTENDS Catalog

CONSTANTS x, y, z, c1, c2

VARIABLE regime

NoInputs == {}
ForkableBundles == {<<x>>, <<x, y>>, <<z, y>>}
BridgeBundles == {<<x, y>>, <<y, z>>}
RaceBundles == {<<x>>, <<x, y>>, <<y, z>>}
OneLink == {<<x, z>>}

AllBundles == ForkableBundles \union RaceBundles

Serial == INSTANCE Catalog WITH Bundles <- ForkableBundles

Race == INSTANCE Catalog WITH
  Bundles <- RaceBundles, Wanted <- {}, Doomed <- {}, Stamps <- {1},
  MaxCalls <- 3, MaxFailures <- 0

(* A catalog into which x, y and z were put one at a time, with no bundle  *)
(* yet that bridges them; their guids are in any order.                    *)
Seeded ==
  /\ \E f \in [{x, y, z} -> 1 .. 3] :
       /\ \A a, b \in {x, y, z} : a # b => f[a] # f[b]
       /\ alias = [a \in Aliases |-> f[a]]
  /\ nodes = 1 .. 3 /\ issued = 1 .. 3
  /\ merged_into = [n \in Ids |-> NoId]
  /\ node_assertion = {[node |-> n, source |-> Idle.source, at |-> Idle.at] : n \in 1 .. 3}
  /\ edge = {} /\ edge_assertion = {}
  /\ req = [c \in Callers |-> Idle]
  /\ calls = 0 /\ failures = 0
  /\ acked = {} /\ witnessed = {} /\ solo = {}
  /\ raced = FALSE /\ clashed = FALSE

(* Requests race on an empty catalog, or on a seeded one. *)
RaceSpec ==
  /\ (Init \/ Seeded) /\ regime = "race"
  /\ [][Next /\ UNCHANGED regime]_<<vars, regime>>

MCInit ==
  \/ regime = "serial" /\ Init
  \/ regime = "race" /\ (Init \/ Seeded)

MCNext ==
  /\ \/ regime = "serial" /\ Serial!Next /\ req'[c2] = req[c2]
     \/ regime = "race" /\ Race!Next
  /\ UNCHANGED regime

MCSpec == MCInit /\ [][MCNext]_<<vars, regime>>
==============================================================================
