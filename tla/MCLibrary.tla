----------------------------- MODULE MCLibrary -----------------------------
(***************************************************************************)
(* Small instances of Library: works 1 and 2, which a bridging bundle may  *)
(* merge.                                                                  *)
(*                                                                         *)
(* On SQLite one caller's requests come one at a time, of every kind, and  *)
(* one may be cut short.  On D1, whose record is one transaction, two      *)
(* callers' uploads, reads and merges interleave.                          *)
(***************************************************************************)
EXTENDS Library

CONSTANTS c1, c2, MaxRace  (* bound: calls of a race                       *)

OneBridge == {<<1, 2>>}

Race == INSTANCE Library WITH Reads <- {1}, Doomed <- {}

(* The calls of a race are spent. *)
RaceOver ==
  /\ calls = MaxRace /\ \A c \in Callers : req[c].step = "idle"
  /\ UNCHANGED vars

MCNext ==
  \/ /\ ~batched /\ Next
     /\ req'[c2] = req[c2] /\ (calls' # calls => req[c1].step = "idle")
  \/ batched /\ (Race!Next \/ RaceOver) /\ calls' <= MaxRace
==============================================================================
