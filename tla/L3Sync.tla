------------------------------- MODULE L3Sync -------------------------------
(***************************************************************************)
(* Sync of the research collection between two stores: users edit the      *)
(* documents of either, and l3_sync merges one into the other, node by     *)
(* node and in one direction at a time, against the base hashes it saved.  *)
(*                                                                         *)
(* A node is what stands under one anchor: its document, its heading and   *)
(* its body lines.  A document's header is its frontmatter and prologue.   *)
(* A hash is the content it is taken of.  A PUT of one document is one     *)
(* step, and so is the fetch of a collection, a listing and one GET for    *)
(* each document: users edit between these steps, and edits between two    *)
(* GETs of one fetch are left out.  One sync runs at a time.               *)
(***************************************************************************)
EXTENDS Naturals, Sequences, FiniteSets, Functions

CONSTANTS
  Sides,        (* the two stores                                          *)
  Anchors,      (* anchors of nodes                                        *)
  Docs,         (* document slugs                                          *)
  Headings, Lines, Headers,  (* values of a heading, a line, a header      *)
  None,         (* no node, no document, no hash                           *)
  MaxEdits,     (* bound: edits by users                                   *)
  MaxFailures   (* bound: PUTs that fail, syncs that end early             *)

Keys == Anchors \union Docs

Nodes == [doc : Docs, heading : Headings, body : Seq(Lines)]

Contents == [heading : Headings, body : Seq(Lines)]

Hashes == Contents \union Headers

ASSUME L3SyncAssumption ==
  /\ \E s, t \in Sides : s # t /\ Sides = {s, t}
  /\ Docs # {} /\ Headings # {} /\ Headers # {}
  /\ None \notin Nodes \union Hashes
  /\ Anchors \intersect Docs = {}
  /\ MaxEdits \in Nat /\ MaxFailures \in Nat

VARIABLES
  node,       (* node[s][k]: what stands under anchor k on side s          *)
  header,     (* header[s][x]: the header of document x on side s          *)
  base,       (* the saved hashes, by anchor and by document (doc:<slug>)  *)
  sync,       (* the locals of the l3_sync that runs                       *)
  edits, failures,  (* counters of the two bounds                          *)
  held,       (* history: every <<key, hash>> a side has had               *)
  agreed      (* history: anchors an undisturbed sync added or found equal *)

vars == <<node, header, base, sync, edits, failures, held, agreed>>

Hash(n) == [heading |-> n.heading, body |-> n.body]

Other(s) == CHOOSE t \in Sides : t # s

(* The lines of s that are not in L, in their order. *)
Without(s, L) ==
  LET I == {i \in DOMAIN s : s[i] \notin L}
  IN [j \in 1 .. Cardinality(I) |-> s[CHOOSE i \in I : Cardinality({h \in I : h < i}) = j - 1]]
------------------------------------------------------------------------------
(* plan_merge, for source content s, dest content d and base hash b.       *)

(* Mutant: the base is compared with the wrong side. *)
VerdictSwapped(s, d, b) ==
  IF s = None THEN "nothing"
  ELSE IF d = None THEN IF b = None THEN "add" ELSE "deleted_on_dest"
  ELSE IF s.doc # d.doc THEN "moved"
  ELSE IF Hash(s) = Hash(d) THEN "in_sync"
  ELSE IF b = Hash(s) THEN "update"
  ELSE IF b = Hash(d) THEN "dest_wins"
  ELSE IF s.heading = d.heading THEN "union"
  ELSE "conflict"

Verdict(s, d, b) ==
  IF s = None THEN "nothing"
  ELSE IF d = None THEN IF b = None THEN "add" ELSE "deleted_on_dest"
  ELSE IF s.doc # d.doc THEN "moved"
  ELSE IF Hash(s) = Hash(d) THEN "in_sync"
  ELSE IF b = Hash(d) THEN "update"
  ELSE IF b = Hash(s) THEN "dest_wins"
  ELSE IF s.heading = d.heading THEN "union"
  ELSE "conflict"

(* Mutant: the early return of union_body the wrong way round. *)
UnitedNothing(s, d) == d

(* union_body: the dest's lines, then those only the source has. *)
United(s, d) == [d EXCEPT !.body = d.body \o Without(s.body, Range(d.body))]

Merged(s, d, b) ==
  CASE Verdict(s, d, b) \in {"add", "update"} -> s
    [] Verdict(s, d, b) = "union"             -> United(s, d)
    [] OTHER                                  -> d

(* What state_after gets: content that both sides hold after the writes. *)
Recorded(s, d, b) ==
  IF Verdict(s, d, b) \in {"add", "update", "in_sync"} THEN Hash(s) ELSE None

(* Header rules for a document on both sides: equal, one-sided change, dest *)
(* change, or conflict.                                                    *)
HeaderUpdated(s, d, b) == s # None /\ d # None /\ s # d /\ b = d

HeaderRecorded(s, d, b) ==
  IF s # None /\ d # None /\ (s = d \/ b = d) THEN s ELSE None
------------------------------------------------------------------------------
Resting == [step |-> "idle"]

(* A user changes side s: nodes N and headers H take the place of its own. *)
Edit(s, N, H) ==
  /\ edits < MaxEdits
  /\ edits' = edits + 1
  /\ node' = [node EXCEPT ![s] = N]
  /\ header' = [header EXCEPT ![s] = H]
  /\ held' = [held EXCEPT ![s] = @ \union {<<k, Hash(N[k])>> : k \in {j \in Anchors : N[j] # None}}
                                   \union {<<x, H[x]>> : x \in {y \in Docs : H[y] # None}}]
  /\ sync' = IF sync.step = "idle" THEN sync ELSE [sync EXCEPT !.clean = FALSE]
  /\ UNCHANGED <<base, failures, agreed>>

AddLine(s) == \E k \in Anchors : node[s][k] # None /\ \E l \in Lines \ Range(node[s][k].body) :
  Edit(s, [node[s] EXCEPT ![k].body = Append(@, l)], header[s])

RemoveLine(s) == \E k \in Anchors : node[s][k] # None /\ \E l \in Range(node[s][k].body) :
  Edit(s, [node[s] EXCEPT ![k].body = Without(@, {l})], header[s])

Retitle(s) == \E k \in Anchors, h \in Headings : node[s][k] # None /\ node[s][k].heading # h /\
  Edit(s, [node[s] EXCEPT ![k].heading = h], header[s])

EditHeader(s) == \E x \in Docs, h \in Headers : header[s][x] \notin {None, h} /\
  Edit(s, node[s], [header[s] EXCEPT ![x] = h])

RemoveNode(s) == \E k \in Anchors : node[s][k] # None /\
  Edit(s, [node[s] EXCEPT ![k] = None], header[s])

Had(s, k) == {p[2] : p \in {q \in held[s] : q[1] = k}}

(* A new node under a freshly minted anchor, or one that this side had     *)
(* before, put back: the second half of a move to another document.        *)
AddNode(s) == \E k \in Anchors, x \in Docs, h \in Headers :
  /\ node[s][k] = None
  /\ header[s][x] \in {None, h}
  /\ \E c \in IF \A t \in Sides : Had(t, k) = {}
               THEN [heading : Headings, body : {<<>>}] ELSE Had(s, k) :
       Edit(s, [node[s] EXCEPT ![k] = [doc |-> x, heading |-> c.heading, body |-> c.body]],
            [header[s] EXCEPT ![x] = h])

(* braincrawl l3 rm. *)
RemoveDoc(s) == \E x \in Docs : header[s][x] # None /\
  Edit(s, [k \in Anchors |-> IF node[s][k] # None /\ node[s][k].doc = x THEN None ELSE node[s][k]],
       [header[s] EXCEPT ![x] = None])
------------------------------------------------------------------------------
(* l3_sync begins: it fetches the source's documents, all or the one that  *)
(* --doc names, as they stand at one moment.                               *)
InScope(scope, n) == IF n # None /\ n.doc \in scope THEN n ELSE None

FetchSource(s, scope) ==
  /\ sync.step = "idle"
  /\ scope = Docs \/ \E x \in scope : header[s][x] # None
  /\ sync' = [step |-> "fetched", from |-> s, scope |-> scope, clean |-> TRUE,
              node |-> [k \in Anchors |-> InScope(scope, node[s][k])],
              header |-> [x \in Docs |-> IF x \in scope THEN header[s][x] ELSE None]]
  /\ UNCHANGED <<node, header, base, edits, failures, held, agreed>>

(* It fetches the dest's, again as they stand at one moment, loads the     *)
(* base and plans: the documents to PUT (todo) with their nodes and        *)
(* header, and the hashes to save afterwards.                              *)
FetchDestAndPlan ==
  LET S == sync.node
      D == [k \in Anchors |-> InScope(sync.scope, node[Other(sync.from)][k])]
      N == [k \in Anchors |-> Merged(S[k], D[k], base[k])]
      (* A document made for an addition takes the source's header. *)
      H == [x \in Docs |->
              LET h == IF x \in sync.scope THEN header[Other(sync.from)][x] ELSE None
              IN IF h = None /\ \E k \in Anchors : N[k] # D[k] /\ N[k].doc = x
                 THEN sync.header[x] ELSE h]
      U == {x \in Docs : HeaderUpdated(sync.header[x], H[x], base[x])}
  IN /\ sync.step = "fetched"
     /\ sync' = [step |-> "put", from |-> sync.from, scope |-> sync.scope, clean |-> sync.clean,
                 seen |-> D, node |-> N,
                 header |-> [x \in Docs |-> IF x \in U THEN sync.header[x] ELSE H[x]],
                 todo |-> U \union {N[k].doc : k \in {j \in Anchors : N[j] # D[j]}},
                 after |-> [k \in Keys |-> IF k \in Anchors THEN Recorded(S[k], D[k], base[k])
                                           ELSE HeaderRecorded(sync.header[k], H[k], base[k])]]
     /\ UNCHANGED <<node, header, base, edits, failures, held, agreed>>

(* Mutant: the header of a new document is not written. *)
StoredHeadless(x) ==
  LET t == Other(sync.from)
      N == [k \in Anchors |->
              IF sync.node[k] # None /\ sync.node[k].doc = x THEN sync.node[k]
              ELSE InScope(Docs \ {x}, node[t][k])]
  IN /\ node' = [node EXCEPT ![t] = N]
     /\ held' = [held EXCEPT ![t] = @ \union {<<k, Hash(N[k])>> : k \in {j \in Anchors : N[j] # None}}]
     /\ UNCHANGED header

(* The dest takes document x of the plan in place of its own. *)
Stored(x) ==
  LET t == Other(sync.from)
      N == [k \in Anchors |->
              IF sync.node[k] # None /\ sync.node[k].doc = x THEN sync.node[k]
              ELSE InScope(Docs \ {x}, node[t][k])]
  IN /\ node' = [node EXCEPT ![t] = N]
     /\ header' = [header EXCEPT ![t][x] = sync.header[x]]
     /\ held' = [held EXCEPT ![t] = @ \union {<<k, Hash(N[k])>> : k \in {j \in Anchors : N[j] # None}}
                                      \union {<<x, sync.header[x]>>}]

(* An anchor of the document is in another document of the dest: 409. *)
Clash(x) == \E k \in Anchors :
  LET n == node[Other(sync.from)][k]
  IN sync.node[k] # None /\ sync.node[k].doc = x /\ n # None /\ n.doc # x

PutDoc(x) ==
  /\ sync.step = "put" /\ x \in sync.todo
  /\ ~Clash(x)
  /\ Stored(x)
  /\ sync' = [sync EXCEPT !.todo = @ \ {x}]
  /\ UNCHANGED <<base, edits, failures, agreed>>

(* Mutant: a failed document counts as synced. *)
DroppedNone(x) == sync.after

(* drop_doc_anchors: the nodes of a document whose PUT failed are taken    *)
(* out of state_after; the document's own key is not.                      *)
Dropped(x) ==
  [k \in Keys |-> IF k \in Anchors /\ sync.node[k] # None /\ sync.node[k].doc = x
                  THEN None ELSE sync.after[k]]

(* The PUT is refused (a conflict, parse warnings, an error of the store), *)
(* or it is stored and the answer is lost.                                 *)
PutFails(x) ==
  /\ sync.step = "put" /\ x \in sync.todo
  /\ \/ Clash(x) /\ UNCHANGED <<node, header, held, failures>>
     \/ /\ failures < MaxFailures /\ failures' = failures + 1
        /\ UNCHANGED <<node, header, held>> \/ (~Clash(x) /\ Stored(x))
  /\ sync' = [sync EXCEPT !.todo = @ \ {x}, !.after = Dropped(x), !.clean = FALSE]
  /\ UNCHANGED <<base, edits, agreed>>

(* Mutant: the state file holds the last run's hashes only. *)
SaveReplacing ==
  /\ sync.step = "put" /\ sync.todo = {}
  /\ base' = sync.after
  /\ agreed' = IF sync.clean
               THEN agreed \union {k \in Anchors :
                      LET n == InScope(sync.scope, node[sync.from][k])
                      IN n # None /\ n = node[Other(sync.from)][k] /\ sync.seen[k] \in {None, n}}
               ELSE agreed
  /\ sync' = Resting
  /\ UNCHANGED <<node, header, edits, failures, held>>

(* The hashes of state_after go into the state file. *)
Save ==
  /\ sync.step = "put" /\ sync.todo = {}
  /\ base' = [k \in Keys |-> IF sync.after[k] # None THEN sync.after[k] ELSE base[k]]
  /\ agreed' = IF sync.clean
               THEN agreed \union {k \in Anchors :
                      LET n == InScope(sync.scope, node[sync.from][k])
                      IN n # None /\ n = node[Other(sync.from)][k] /\ sync.seen[k] \in {None, n}}
               ELSE agreed
  /\ sync' = Resting
  /\ UNCHANGED <<node, header, edits, failures, held>>

(* The sync ends early, an answer to a fetch failing included. *)
Abort ==
  /\ sync.step # "idle" /\ failures < MaxFailures
  /\ failures' = failures + 1
  /\ sync' = Resting
  /\ UNCHANGED <<node, header, base, edits, held, agreed>>

(* It ends while it writes the state file, which is not replaced as a      *)
(* whole: load_pair_state takes what it cannot parse for an empty base.    *)
TornSave ==
  /\ sync.step = "put" /\ sync.todo = {} /\ failures < MaxFailures
  /\ failures' = failures + 1
  /\ base' = [k \in Keys |-> None] /\ agreed' = {}
  /\ sync' = Resting
  /\ UNCHANGED <<node, header, edits, held>>
------------------------------------------------------------------------------
(* Two collections that have nothing in common yet, one of them empty, or  *)
(* both the same and synced: one node on each document.                    *)
Init ==
  LET h == CHOOSE v \in Headings : TRUE
      m == CHOOSE v \in Headers : TRUE
      home == CHOOSE f \in [Anchors -> Docs] : TRUE
      full == [k \in Anchors |-> [doc |-> home[k], heading |-> h, body |-> <<>>]]
      made == [x \in Docs |-> IF \E k \in Anchors : home[k] = x THEN m ELSE None]
      has(s) == {<<k, Hash(full[k])>> : k \in Anchors} \union {<<x, m>> : x \in {y \in Docs : made[y] # None}}
      first == CHOOSE s \in Sides : TRUE
  IN /\ \/ /\ node = [s \in Sides |-> full] /\ header = [s \in Sides |-> made]
           /\ held = [s \in Sides |-> has(s)]
           /\ base = [k \in Keys |-> IF k \in Anchors THEN Hash(full[k]) ELSE made[k]]
        \/ /\ node = [s \in Sides |-> IF s = first THEN full ELSE [k \in Anchors |-> None]]
           /\ header = [s \in Sides |-> IF s = first THEN made ELSE [x \in Docs |-> None]]
           /\ held = [s \in Sides |-> IF s = first THEN has(s) ELSE {}]
           /\ base = [k \in Keys |-> None]
     /\ sync = Resting
     /\ edits = 0 /\ failures = 0 /\ agreed = {}

Begin(s) == \E scope \in {Docs} \union {{x} : x \in Docs} : FetchSource(s, scope)

Work ==
  \/ FetchDestAndPlan
  \/ \E x \in Docs : PutDoc(x)
  \/ Save

Next ==
  \/ \E s \in Sides :
       \/ AddLine(s) \/ RemoveLine(s) \/ Retitle(s) \/ EditHeader(s)
       \/ AddNode(s) \/ RemoveNode(s) \/ RemoveDoc(s)
       \/ Begin(s)
  \/ Work \/ Abort \/ TornSave
  \/ \E x \in Docs : PutFails(x)

(* A sync that runs goes on, a refused PUT included, and the user keeps    *)
(* syncing the whole collection in both directions.                        *)
Fairness ==
  /\ WF_vars(Work \/ \E x \in Docs : PutFails(x))
  /\ \A s \in Sides : SF_vars(FetchSource(s, Docs))

Spec == Init /\ [][Next]_vars /\ Fairness
------------------------------------------------------------------------------
Syncs ==
  LET N == [Anchors -> Nodes \union {None}]
      H == [Docs -> Headers \union {None}]
  IN {Resting}
     \union [step : {"fetched"}, from : Sides, scope : SUBSET Docs, clean : BOOLEAN,
             node : N, header : H]
     \union [step : {"put"}, from : Sides, scope : SUBSET Docs, clean : BOOLEAN,
             node : N, header : H, seen : N, todo : SUBSET Docs, after : [Keys -> Hashes \union {None}]]

(* Each variable has its type, and a node stands in a document there is. *)
TypeOK ==
  /\ node \in [Sides -> [Anchors -> Nodes \union {None}]]
  /\ header \in [Sides -> [Docs -> Headers \union {None}]]
  /\ held \in [Sides -> SUBSET ((Anchors \X Contents) \union (Docs \X Headers))]
  /\ base \in [Keys -> Hashes \union {None}]
  /\ sync \in Syncs
  /\ edits \in 0 .. MaxEdits /\ failures \in 0 .. MaxFailures
  /\ agreed \in SUBSET Anchors
  /\ \A s \in Sides, k \in Anchors : node[s][k] # None => header[s][node[s][k].doc] # None

(* The base invariant of plan_merge, for nodes: a saved hash is of content *)
(* that both sides have held, whatever was edited, refused or cut short.   *)
BaseWasShared ==
  \A k \in Anchors : base[k] # None => \A s \in Sides : <<k, base[k]>> \in held[s]

(* The same for headers, under the key doc:<slug>. *)
HeaderBaseWasShared ==
  \A x \in Docs : base[x] # None => \A s \in Sides : <<x, base[x]>> \in held[s]

Within(n, m) ==
  m # None /\ n.doc = m.doc /\ n.heading = m.heading /\ Range(n.body) \subseteq Range(m.body)

(* No edit is lost: a sync writes over a node as it fetched it only with   *)
(* one that has all its lines, or when the source has held that content    *)
(* and moved on; it never removes one.  Only an edit made between the      *)
(* fetch and the PUT of its document may be written over.                  *)
NoLostEdit ==
  \A t \in Sides, k \in Anchors :
    /\ edits' = edits /\ node'[t][k] # node[t][k]
    /\ node[t][k] # None /\ node[t][k] = sync.seen[k]
    => /\ node'[t][k] # None
       /\ \/ Within(node[t][k], node'[t][k])
          \/ <<k, Hash(node[t][k])>> \in held[sync.from]

(* A deletion sticks: once an undisturbed sync has added a node, or found  *)
(* it equal on both sides, a later sync puts it back where a user removed  *)
(* it only if it was still there at the fetch (and as long as the state    *)
(* file is whole).                                                         *)
DeletionsStick ==
  \A t \in Sides, k \in agreed :
    edits' = edits /\ node[t][k] = None /\ node'[t][k] # None => sync.seen[k] # None

(* What users wrote and removed stands, whichever way the syncs run.       *)
EditsStick == [][NoLostEdit /\ DeletionsStick]_vars

Comparable(k) == \A s, t \in Sides :
  node[s][k] # None /\ node[t][k] # None
    => node[s][k].doc = node[t][k].doc /\ node[s][k].heading = node[t][k].heading

(* Both sides converge: when the user only syncs, both ways, the nodes     *)
(* they have in common come to have the same lines, and a node that only   *)
(* one side has was once on the other, and removed.                        *)
LinesAgree ==
  \A k \in Anchors, s, t \in Sides :
    node[s][k] # None =>
      \/ node[t][k] = None /\ Had(t, k) # {}
      \/ node[t][k] # None /\
           (Comparable(k) => Range(node[s][k].body) = Range(node[t][k].body))

LinesConverge == <>[]LinesAgree

(* "The reverse-direction sync ... converges the pair": those nodes come   *)
(* to be equal.                                                            *)
BodiesAgree ==
  \A k \in Anchors, s, t \in Sides :
    node[s][k] # None /\ node[t][k] # None /\ Comparable(k)
      => node[s][k].body = node[t][k].body

BodiesConverge == <>[]BodiesAgree
==============================================================================
