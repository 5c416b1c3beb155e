----------------------------- MODULE AgentFiles -----------------------------
(***************************************************************************)
(* Sync of the agents' context files between two stores, which l3_sync     *)
(* does beside the documents (L3Sync): whole files, read one request after *)
(* the other, planned against the hashes saved for the pair of stores, and *)
(* written to the destination, while users and agents write to both.       *)
(*                                                                         *)
(* A hash is the content it is taken of.  One sync runs at a time.         *)
(***************************************************************************)
EXTENDS Naturals, FiniteSets

CONSTANTS
  Peers,        (* the two stores                                          *)
  Notes,        (* names of agent files                                    *)
  Contents,     (* what a file may hold                                    *)
  NoFile,       (* no file, no hash                                        *)
  MaxChanges,   (* bound: files put or removed by others                   *)
  MaxMishaps    (* bound: requests that fail, syncs that end early         *)

ASSUME AgentAssumption ==
  /\ \E s, t \in Peers : s # t /\ Peers = {s, t}
  /\ Notes # {} /\ Contents # {} /\ NoFile \notin Contents
  /\ MaxChanges \in Nat /\ MaxMishaps \in Nat

VARIABLES
  agent,      (* agent[s][n]: what file n holds on side s                  *)
  pair,       (* the saved hashes, keys agent:<name>                       *)
  pass,       (* the locals of the sync that runs                          *)
  changes, mishaps,
  had,        (* history: every <<n, content>> a side has had              *)
  shared,     (* history: files an undisturbed sync wrote or found equal   *)
  calm,       (* history: directions synced since anything else happened   *)
  last        (* history: what the last write of a sync met                *)

agentVars == <<agent, pair, pass, changes, mishaps, had, shared, calm, last>>

Peer(s) == CHOOSE t \in Peers : t # s
Present(s) == {n \in Notes : agent[s][n] # NoFile}
Nothing == [n \in Notes |-> NoFile]
Waiting == [step |-> "idle"]
------------------------------------------------------------------------------
(* plan_file_sync, for the source's content s, the dest's d and the hash b. *)

(* Mutant: the base is compared with the wrong side. *)
FilePlanSwapped(s, d, b) ==
  CASE s = NoFile                              -> "nothing"
    [] s # NoFile /\ d = NoFile /\ b = NoFile -> "add"
    [] s # NoFile /\ d = NoFile /\ b # NoFile -> "deleted"
    [] s # NoFile /\ s = d                     -> "same"
    [] NoFile \notin {s, d} /\ s # d     ->
         IF b = s THEN "update" ELSE IF b = d THEN "dest_wins" ELSE "conflict"

FilePlan(s, d, b) ==
  CASE s = NoFile                              -> "nothing"
    [] s # NoFile /\ d = NoFile /\ b = NoFile -> "add"
    [] s # NoFile /\ d = NoFile /\ b # NoFile -> "deleted"
    [] s # NoFile /\ s = d                     -> "same"
    [] NoFile \notin {s, d} /\ s # d     ->
         IF b = d THEN "update" ELSE IF b = s THEN "dest_wins" ELSE "conflict"

(* What state_after gets, and what is written. *)
Planned(src, dst) ==
  LET plan(n) == FilePlan(src[n], dst[n], pair[n])
  IN [step |-> "put", from |-> pass.from, clean |-> pass.clean, src |-> src, dst |-> dst,
      todo |-> {n \in Notes : plan(n) \in {"add", "update"}},
      after |-> [n \in Notes |-> IF plan(n) \in {"add", "update", "same"} THEN src[n] ELSE NoFile]]
------------------------------------------------------------------------------
Change(s, n, c) ==
  /\ changes < MaxChanges /\ changes' = changes + 1
  /\ agent[s][n] # c /\ agent' = [agent EXCEPT ![s][n] = c]
  /\ had' = IF c = NoFile THEN had ELSE [had EXCEPT ![s] = @ \union {<<n, c>>}]
  /\ pass' = IF pass = Waiting THEN pass ELSE [pass EXCEPT !.clean = FALSE]
  /\ calm' = {}
  /\ UNCHANGED <<pair, mishaps, shared, last>>

(* PUT /api/l3/agent/{name}; a file removed from the store's directory. *)
PutNote(s) == \E n \in Notes, c \in Contents : Change(s, n, c)
RemoveNote(s) == \E n \in Present(s) : Change(s, n, NoFile)

(* fetch_agent_files, of the source first: a listing, then file by file;   *)
(* one that is gone by then is passed over.                                *)
ListSource(s) ==
  /\ pass = Waiting
  /\ pass' = [step |-> "source", from |-> s, clean |-> TRUE, left |-> Present(s), got |-> Nothing]
  /\ UNCHANGED <<agent, pair, changes, mishaps, had, shared, calm, last>>

ReadFrom(step) == IF step = "source" THEN pass.from ELSE Peer(pass.from)

GetNote == \E n \in Notes :
  /\ pass.step \in {"source", "dest"} /\ n \in pass.left
  /\ pass' = [pass EXCEPT !.left = @ \ {n}, !.got[n] = agent[ReadFrom(pass.step)][n]]
  /\ UNCHANGED <<agent, pair, changes, mishaps, had, shared, calm, last>>

ListDest ==
  /\ pass.step = "source" /\ pass.left = {}
  /\ pass' = [step |-> "dest", from |-> pass.from, clean |-> pass.clean, src |-> pass.got,
              left |-> Present(Peer(pass.from)), got |-> Nothing]
  /\ UNCHANGED <<agent, pair, changes, mishaps, had, shared, calm, last>>

Plan ==
  /\ pass.step = "dest" /\ pass.left = {}
  /\ pass' = Planned(pass.src, pass.got)
  /\ UNCHANGED <<agent, pair, changes, mishaps, had, shared, calm, last>>

NoteStored(n) ==
  LET t == Peer(pass.from) IN
  /\ agent' = [agent EXCEPT ![t][n] = pass.src[n]]
  /\ had' = [had EXCEPT ![t] = @ \union {<<n, pass.src[n]>>}]
  /\ last' = [over |-> agent[t][n], seen |-> pass.dst[n], again |-> n \in shared,
              moved_on |-> <<n, agent[t][n]>> \in had[pass.from]]

PutPlanned == \E n \in Notes :
  /\ pass.step = "put" /\ n \in pass.todo
  /\ NoteStored(n)
  /\ pass' = [pass EXCEPT !.todo = @ \ {n}]
  /\ UNCHANGED <<pair, changes, mishaps, shared, calm>>

Mishap == mishaps < MaxMishaps /\ mishaps' = mishaps + 1 /\ calm' = {}

(* The PUT is refused, or stored and its answer lost: the hash is not saved. *)
PutPlannedFails == \E n \in Notes :
  /\ pass.step = "put" /\ n \in pass.todo
  /\ Mishap
  /\ NoteStored(n) \/ UNCHANGED <<agent, had, last>>
  /\ pass' = [pass EXCEPT !.todo = @ \ {n}, !.after[n] = NoFile, !.clean = FALSE]
  /\ UNCHANGED <<pair, changes, shared>>

SavePair ==
  /\ pass.step = "put" /\ pass.todo = {}
  /\ pair' = [n \in Notes |-> IF pass.after[n] # NoFile THEN pass.after[n] ELSE pair[n]]
  /\ shared' = IF pass.clean THEN shared \union {n \in Notes : pass.after[n] # NoFile} ELSE shared
  /\ calm' = IF pass.clean THEN calm \union {pass.from} ELSE calm
  /\ pass' = Waiting
  /\ UNCHANGED <<agent, changes, mishaps, had, last>>

(* A listing or a file cannot be fetched, or the sync is interrupted. *)
PassEnds ==
  /\ pass # Waiting /\ Mishap
  /\ pass' = Waiting
  /\ UNCHANGED <<agent, pair, changes, had, shared, last>>

(* Interrupted while it writes the state file, which then reads as empty.  *)
PairTorn ==
  /\ pass.step = "put" /\ pass.todo = {} /\ Mishap
  /\ pair' = Nothing /\ shared' = {} /\ pass' = Waiting
  /\ UNCHANGED <<agent, changes, had, last>>

(* Nothing on either side, or one file that was synced. *)
AgentInit ==
  /\ \E synced \in {{}, {CHOOSE n \in Notes : TRUE}} :
       LET c == CHOOSE v \in Contents : TRUE
           kept == [n \in Notes |-> IF n \in synced THEN c ELSE NoFile]
       IN /\ agent = [s \in Peers |-> kept] /\ pair = kept
          /\ had = [s \in Peers |-> {<<n, c>> : n \in synced}] /\ shared = synced
  /\ pass = Waiting /\ changes = 0 /\ mishaps = 0 /\ calm = {}
  /\ last = [over |-> NoFile, seen |-> NoFile, again |-> FALSE, moved_on |-> FALSE]

AgentNext ==
  \/ \E s \in Peers : PutNote(s) \/ RemoveNote(s) \/ ListSource(s)
  \/ GetNote \/ ListDest \/ Plan \/ PutPlanned \/ PutPlannedFails \/ SavePair
  \/ PassEnds \/ PairTorn

AgentSpec == AgentInit /\ [][AgentNext]_agentVars
------------------------------------------------------------------------------
(* Files, hashes and histories are of their kinds, within the bounds.      *)
AgentTypeOK ==
  /\ \A s \in Peers : DOMAIN agent[s] = Notes /\ had[s] \subseteq Notes \X Contents
  /\ \A n \in Notes : pair[n] \in Contents \union {NoFile}
  /\ shared \subseteq Notes /\ calm \subseteq Peers
  /\ changes \in 0 .. MaxChanges /\ mishaps \in 0 .. MaxMishaps

(* "A hash is recorded only for content both sides hold", whatever was     *)
(* refused, lost or cut short.                                             *)
PairWasShared ==
  \A n \in Notes : pair[n] # NoFile => \A s \in Peers : <<n, pair[n]>> \in had[s]

(* A sync writes over a file, as it read it, only when the source held     *)
(* that content too and has moved on; and brings none back that a user     *)
(* removed after an undisturbed sync (while the state file is whole).      *)
WritesAreFair ==
  /\ last.over # NoFile /\ last.over = last.seen => last.moved_on
  /\ last.over = NoFile /\ last.seen = NoFile => ~last.again

(* Once both directions ran and nothing else happened, the sides differ    *)
(* only in conflicts and in files that one of them removed.                *)
Settled ==
  calm = Peers => \A n \in Notes, s \in Peers :
    LET mine == agent[s][n]
        theirs == agent[Peer(s)][n]
    IN mine = theirs \/ IF NoFile \in {mine, theirs} THEN pair[n] # NoFile
                                                   ELSE pair[n] \notin {mine, theirs}

AgentsKept == PairWasShared /\ WritesAreFair /\ Settled
==============================================================================
