------------------------------- MODULE L3Docs -------------------------------
(***************************************************************************)
(* A collection of research documents, one operation after the other: what *)
(* the commands and the PUT handlers make of their texts (L3Text).  L3Files *)
(* has the steps of those operations, and L3Sync the sync of two stores.   *)
(***************************************************************************)
EXTENDS L3Text

CONSTANT Bodies  \* what a document may be edited to, or sent as

VARIABLE docs    \* the text of each document that there is

docsVars == <<docs>>
------------------------------------------------------------------------------
(* The collection. *)

Others(s) == [t \in DOMAIN docs \ {s} |-> docs[t]]
Stored(s, c) == docs' = [t \in DOMAIN docs \union {s} |-> IF t = s THEN c ELSE docs[t]]

(* A user or an agent edits the file. *)
EditDoc(s) == \E c \in Bodies : Stored(s, c)

PutDoc(s) == \E c \in Bodies, force \in BOOLEAN :
  LET d == NormalizeDoc(c, Others(s), {}, force) IN d # None /\ Stored(s, d)

NewDoc(s) == Stored(s, Scaffold(s))   \* with --force, also over an old one

ImportDoc(s) == s \notin DOMAIN docs /\ \E c \in Bodies : Stored(s, Upserted(c, s))

RemoveDoc(s) == s \in DOMAIN docs /\ docs' = Others(s)

AssignIds == ~Ambiguous(docs) /\ docs' = AssignedDocs(docs, {})

Init == docs = [s \in {} |-> None]

Next ==
  \/ \E s \in Slugs : EditDoc(s) \/ PutDoc(s) \/ NewDoc(s) \/ ImportDoc(s) \/ RemoveDoc(s)
  \/ AssignIds

Spec == Init /\ [][Next]_docsVars
------------------------------------------------------------------------------
EmptyFrontmatter(c) == Len(c) >= 2 /\ Fence(c[1]) /\ Fence(c[2])

(* The text but for the anchors that headings gained. *)
OnlyHeadingsGain(c, d) ==
  /\ DOMAIN d = DOMAIN c
  /\ \A i \in DOMAIN c : d[i] = c[i] \/
       (Heading(c[i]) /\ c[i].ends = <<>> /\ \E a \in Real : d[i] = [c[i] EXCEPT !.ends = <<a>>])

(* A document that passes the gate is stored with all that was sent: only  *)
(* headings without anchor change, each gets one that no document of the   *)
(* store has, its links are those it had, and storing it again changes     *)
(* nothing.                                                                *)
StoredIsFaithful(s, c, d) ==
  LET links(x) == {<<l.target, l.recorded_in = l.source>> : l \in Links(x)}
  IN /\ OnlyHeadingsGain(c, d)
     /\ \A n \in Nodes(s, d) : n.id # None /\ (n.id \notin Anchors(c) => n.id \notin CollectAnchors(docs))
     /\ {n.line : n \in Nodes(s, d)} = {n.line : n \in Nodes(s, c)}
     /\ links(d) = links(c)
     /\ NormalizeDoc(d, Others(s), {}, TRUE) = d
     /\ ~Blocking(c) => ~Blocking(d)
NormalizeIsFaithful ==
  \A s \in DOMAIN docs : \A d \in {NormalizeDoc(docs[s], Others(s), {}, TRUE)} :
    d # None /\ ~EmptyFrontmatter(docs[s]) => StoredIsFaithful(s, docs[s], d)

AnchorsUnique(ds) ==
  \A s, t \in DOMAIN ds : \A n \in Nodes(s, ds[s]), m \in Nodes(t, ds[t]) :
    n.id # None /\ n.id = m.id => s = t /\ n.line = m.line

(* assign-ids over a store whose anchors are unique leaves them unique and *)
(* every heading with one, no reference to a temporary anchor that some    *)
(* heading had, and each cross-reference and work the index listed.        *)
AssignKeepsGraph ==
  AnchorsUnique(docs) /\ (\A s \in DOMAIN docs : ~EmptyFrontmatter(docs[s])) =>
    \A ds \in {AssignedDocs(docs, {})} :
      /\ AnchorsUnique(ds) /\ CollectAnchors(ds) \subseteq Real
      /\ \A n \in AllNodes(ds) : n.id # None
      /\ DanglingTempRefs(ds) = DanglingTempRefs(docs)
      /\ CrossRefs(docs) \subseteq CrossRefs(ds) /\ WorkIndex(docs) \subseteq WorkIndex(ds)

(* The sync reads a document as the parser does, and writes back what it   *)
(* read; to a diff, the assignment of anchors looks like new nodes and     *)
(* never like an edit.                                                     *)
ReadAlike(s, c, u) ==
  RenderDoc(u) = c /\ {n.anchor : n \in ToSet(u.nodes)} = {n.id : n \in Nodes(s, c)}
SyncReadsAlike ==
  /\ \A s \in DOMAIN docs : ReadAlike(s, docs[s], SplitDoc(docs[s]))
  /\ /\ AnchorsUnique(docs) /\ CollectAnchors(docs) \subseteq Real
     /\ \A s \in DOMAIN docs : ~EmptyFrontmatter(docs[s])
     => \A d \in {Diff(docs, AssignedDocs(docs, {}))} :
          d.only_in_a \union d.moved \union d.differing \union d.unanchored_b = {}
==============================================================================
