--------------------------- MODULE SqlStoreProofs ---------------------------
(***************************************************************************)
(* What the SQL backends promise, for any ids, aliases, sources, relations *)
(* and roles, any number of operations and both engines.  A transaction is *)
(* described by its story: which operation it is, which of its statements  *)
(* are left, and what the others have made of the committed tables.        *)
(***************************************************************************)
EXTENDS SqlStore, RedirectsProofs, FiniteSetTheorems, SequenceTheorems, TLAPS

TableNames ==
  {"node", "alias", "node_assertion", "edge", "edge_assertion", "artifacts", "lost"}

(* The tables d and e are alike but for those in F. *)
Alike(d, e, F) ==
  /\ "node" \notin F => e.node = d.node
  /\ "alias" \notin F => e.alias = d.alias
  /\ "node_assertion" \notin F => e.node_assertion = d.node_assertion
  /\ "edge" \notin F => e.edge = d.edge
  /\ "edge_assertion" \notin F => e.edge_assertion = d.edge_assertion
  /\ "artifacts" \notin F => e.artifacts = d.artifacts
  /\ "lost" \notin F => e.lost = d.lost

(* What every committed database is, beyond the types of its tables. *)
Decreases(d) ==
  \A n \in DOMAIN d.node : d.node[n].merged_into # NoId => d.node[n].merged_into < n
OneRowPerKey(d) ==
  /\ \A r, q \in d.node_assertion : NodeKey(r) = NodeKey(q) => r = q
  /\ \A r, q \in d.edge_assertion : EdgeKey(r) = EdgeKey(q) => r = q
  /\ \A a, b \in d.artifacts : ArtifactKey(a) = ArtifactKey(b) => a = b

(* A role that has versions has a current one; a row that only the maps    *)
(* keep is not current and has a twin among the rows.                      *)
ArtifactsOwned(d) == \A a \in d.artifacts : a.node \in DOMAIN d.node
CurrentThere(d) ==
  \A a \in d.artifacts : \E b \in d.artifacts : b.node = a.node /\ b.role = a.role /\ b.current
LostAreOld(d) ==
  \A a \in d.lost : ~a.current /\ \E b \in d.artifacts : ArtifactKey(b) = ArtifactKey(a)

Sound(d) ==
  /\ Tables(d) /\ ForeignKeys(d) /\ Decreases(d) /\ OneRowPerKey(d)
  /\ ArtifactsOwned(d) /\ CurrentThere(d) /\ LostAreOld(d)
------------------------------------------------------------------------------
(* The statements, one by one: each keeps the types of the tables and      *)
(* touches no other table than its own.                                    *)

LEMMA ArtifactRow ==
  ASSUME NEW a \in Artifact
  PROVE  /\ [a EXCEPT !.current = FALSE] \in Artifact
         /\ \A s \in Ids : [a EXCEPT !.node = s] \in Artifact
BY DEF Artifact

LEMMA NodeInsertStep ==
  ASSUME NEW d, Tables(d), NEW n \in Ids, NEW k \in Kinds
  PROVE  Tables(NodeInsert(d, n, k)) /\ Alike(d, NodeInsert(d, n, k), {"node"})
BY DEF NodeInsert, Tables, Alike, TableNames, With, Node

LEMMA AliasInsertStep ==
  ASSUME NEW d, Tables(d), NEW a \in Aliases, NEW n \in Ids
  PROVE  Tables(AliasInsert(d, a, n)) /\ Alike(d, AliasInsert(d, a, n), {"alias"})
BY DEF AliasInsert, Tables, Alike, TableNames, With

LEMMA NodeAssertionUpsertStep ==
  ASSUME NEW d, Tables(d), NEW r \in NodeAssertion
  PROVE  /\ Tables(NodeAssertionUpsert(d, r))
         /\ Alike(d, NodeAssertionUpsert(d, r), {"node_assertion"})
BY DEF NodeAssertionUpsert, Tables, Alike, TableNames, Replaced

LEMMA EdgeInsertStep ==
  ASSUME NEW d, Tables(d), NEW e \in Edge
  PROVE  Tables(EdgeInsert(d, e)) /\ Alike(d, EdgeInsert(d, e), {"edge"})
BY DEF EdgeInsert, Tables, Alike, TableNames

LEMMA EdgeAssertionUpsertStep ==
  ASSUME NEW d, Tables(d), NEW r \in EdgeAssertion
  PROVE  /\ Tables(EdgeAssertionUpsert(d, r))
         /\ Alike(d, EdgeAssertionUpsert(d, r), {"edge_assertion"})
BY DEF EdgeAssertionUpsert, Tables, Alike, TableNames, Replaced

LEMMA FlipCurrentOffStep ==
  ASSUME NEW d, Tables(d), NEW n \in Ids, NEW role \in Roles
  PROVE  /\ Tables(FlipCurrentOff(d, n, role))
         /\ Alike(d, FlipCurrentOff(d, n, role), {"artifacts"})
<1>1. FlipCurrentOff(d, n, role).artifacts \subseteq Artifact
  BY ArtifactRow DEF FlipCurrentOff, Tables
<1>2. QED BY <1>1 DEF FlipCurrentOff, Tables, Alike, TableNames

LEMMA ArtifactInsertStep ==
  ASSUME NEW d, Tables(d), NEW row \in Artifact
  PROVE  Tables(ArtifactInsert(d, row)) /\ Alike(d, ArtifactInsert(d, row), {"artifacts"})
BY DEF ArtifactInsert, Tables, Alike, TableNames

LEMMA MergeRedirectStep ==
  ASSUME NEW d, Tables(d), NEW s \in Ids, NEW l \in Ids
  PROVE  Tables(MergeRedirect(d, s, l)) /\ Alike(d, MergeRedirect(d, s, l), {"node"})
BY DEF MergeRedirect, Tables, Alike, TableNames, Node

LEMMA AliasRepointStep ==
  ASSUME NEW d, Tables(d), NEW s \in Ids, NEW l \in Ids
  PROVE  Tables(AliasRepoint(d, s, l)) /\ Alike(d, AliasRepoint(d, s, l), {"alias"})
BY DEF AliasRepoint, Tables, Alike, TableNames

LEMMA NaUpsertStep ==
  ASSUME NEW d, Tables(d), NEW s \in Ids, NEW l \in Ids
  PROVE  Tables(NaUpsert(d, s, l)) /\ Alike(d, NaUpsert(d, s, l), {"node_assertion"})
BY DEF NaUpsert, Tables, Alike, TableNames, Upserted, RowsMoved, NodeAssertion

LEMMA NaDeleteLoserStep ==
  ASSUME NEW d, Tables(d), NEW s \in Ids, NEW l \in Ids
  PROVE  Tables(NaDeleteLoser(d, s, l)) /\ Alike(d, NaDeleteLoser(d, s, l), {"node_assertion"})
BY DEF NaDeleteLoser, Tables, Alike, TableNames

LEMMA EaSrcUpsertStep ==
  ASSUME NEW d, Tables(d), NEW s \in Ids, NEW l \in Ids
  PROVE  Tables(EaSrcUpsert(d, s, l)) /\ Alike(d, EaSrcUpsert(d, s, l), {"edge_assertion"})
BY DEF EaSrcUpsert, Tables, Alike, TableNames, Upserted, EdgeAssertionsSrcMoved, EdgeAssertion,
  SrcMoved, Edge

LEMMA EaSrcDeleteLoserStep ==
  ASSUME NEW d, Tables(d), NEW s \in Ids, NEW l \in Ids
  PROVE  /\ Tables(EaSrcDeleteLoser(d, s, l))
         /\ Alike(d, EaSrcDeleteLoser(d, s, l), {"edge_assertion"})
BY DEF EaSrcDeleteLoser, Tables, Alike, TableNames

LEMMA EdgeSrcDeleteConflictsStep ==
  ASSUME NEW d, Tables(d), NEW s \in Ids, NEW l \in Ids
  PROVE  /\ Tables(EdgeSrcDeleteConflicts(d, s, l))
         /\ Alike(d, EdgeSrcDeleteConflicts(d, s, l), {"edge"})
BY DEF EdgeSrcDeleteConflicts, Tables, Alike, TableNames

LEMMA EdgeSrcRepointStep ==
  ASSUME NEW d, Tables(d), NEW s \in Ids, NEW l \in Ids
  PROVE  Tables(EdgeSrcRepoint(d, s, l)) /\ Alike(d, EdgeSrcRepoint(d, s, l), {"edge"})
BY DEF EdgeSrcRepoint, Tables, Alike, TableNames, SrcMoved, Edge

LEMMA EaDstUpsertStep ==
  ASSUME NEW d, Tables(d), NEW s \in Ids, NEW l \in Ids
  PROVE  Tables(EaDstUpsert(d, s, l)) /\ Alike(d, EaDstUpsert(d, s, l), {"edge_assertion"})
BY DEF EaDstUpsert, Tables, Alike, TableNames, Upserted, EdgeAssertionsDstMoved, EdgeAssertion,
  DstMoved, Edge

LEMMA EaDstDeleteLoserStep ==
  ASSUME NEW d, Tables(d), NEW s \in Ids, NEW l \in Ids
  PROVE  /\ Tables(EaDstDeleteLoser(d, s, l))
         /\ Alike(d, EaDstDeleteLoser(d, s, l), {"edge_assertion"})
BY DEF EaDstDeleteLoser, Tables, Alike, TableNames

LEMMA EdgeDstDeleteConflictsStep ==
  ASSUME NEW d, Tables(d), NEW s \in Ids, NEW l \in Ids
  PROVE  /\ Tables(EdgeDstDeleteConflicts(d, s, l))
         /\ Alike(d, EdgeDstDeleteConflicts(d, s, l), {"edge"})
BY DEF EdgeDstDeleteConflicts, Tables, Alike, TableNames

LEMMA EdgeDstRepointStep ==
  ASSUME NEW d, Tables(d), NEW s \in Ids, NEW l \in Ids
  PROVE  Tables(EdgeDstRepoint(d, s, l)) /\ Alike(d, EdgeDstRepoint(d, s, l), {"edge"})
BY DEF EdgeDstRepoint, Tables, Alike, TableNames, DstMoved, Edge

LEMMA DemoteLoserCurrentStep ==
  ASSUME NEW d, Tables(d), NEW s \in Ids, NEW l \in Ids
  PROVE  /\ Tables(DemoteLoserCurrent(d, s, l))
         /\ Alike(d, DemoteLoserCurrent(d, s, l), {"artifacts"})
<1>1. DemoteLoserCurrent(d, s, l).artifacts \subseteq Artifact
  BY ArtifactRow DEF DemoteLoserCurrent, Tables
<1>2. QED BY <1>1 DEF DemoteLoserCurrent, Tables, Alike, TableNames

LEMMA ArtifactRepointStep ==
  ASSUME NEW d, Tables(d), NEW s \in Ids, NEW l \in Ids
  PROVE  /\ Tables(ArtifactRepoint(d, s, l))
         /\ Alike(d, ArtifactRepoint(d, s, l), {"artifacts", "lost"})
<1>1. \A R \in SUBSET Artifact : RowsMoved(R, s, l) \subseteq Artifact
  BY ArtifactRow DEF RowsMoved
<1>2. RowsMoved(d.artifacts, s, l) \union RowsMoved(d.lost, s, l) \subseteq Artifact
  BY <1>1 DEF Tables
<1>3. QED BY <1>2 DEF ArtifactRepoint, Tables, Alike, TableNames

LEMMA ArtifactDeleteLoserStep ==
  ASSUME NEW d, Tables(d), NEW s \in Ids, NEW l \in Ids
  PROVE  /\ Tables(ArtifactDeleteLoser(d, s, l))
         /\ Alike(d, ArtifactDeleteLoser(d, s, l), {"artifacts"})
BY DEF ArtifactDeleteLoser, Tables, Alike, TableNames

LEMMA DeleteEdgeAssertionsStep ==
  ASSUME NEW d, Tables(d), NEW net
  PROVE  /\ Tables(DeleteEdgeAssertions(d, net))
         /\ Alike(d, DeleteEdgeAssertions(d, net), {"edge_assertion"})
BY DEF DeleteEdgeAssertions, Tables, Alike, TableNames

LEMMA DeleteEdgesStep ==
  ASSUME NEW d, Tables(d), NEW net
  PROVE  Tables(DeleteEdges(d, net)) /\ Alike(d, DeleteEdges(d, net), {"edge"})
BY DEF DeleteEdges, Tables, Alike, TableNames

LEMMA DeleteNodeAssertionsStep ==
  ASSUME NEW d, Tables(d), NEW net
  PROVE  /\ Tables(DeleteNodeAssertions(d, net))
         /\ Alike(d, DeleteNodeAssertions(d, net), {"node_assertion"})
BY DEF DeleteNodeAssertions, Tables, Alike, TableNames

LEMMA DeleteArtifactsStep ==
  ASSUME NEW d, Tables(d), NEW net
  PROVE  /\ Tables(DeleteArtifacts(d, net))
         /\ Alike(d, DeleteArtifacts(d, net), {"artifacts", "lost"})
BY DEF DeleteArtifacts, Tables, Alike, TableNames

LEMMA DeleteAliasesStep ==
  ASSUME NEW d, Tables(d), NEW net
  PROVE  Tables(DeleteAliases(d, net)) /\ Alike(d, DeleteAliases(d, net), {"alias"})
BY DEF DeleteAliases, Tables, Alike, TableNames, Without

LEMMA ClearMergedIntoStep ==
  ASSUME NEW d, Tables(d), NEW net
  PROVE  Tables(ClearMergedInto(d, net)) /\ Alike(d, ClearMergedInto(d, net), {"node"})
BY DEF ClearMergedInto, Tables, Alike, TableNames, Node

LEMMA DeleteNodesStep ==
  ASSUME NEW d, Tables(d), NEW net
  PROVE  Tables(DeleteNodes(d, net)) /\ Alike(d, DeleteNodes(d, net), {"node"})
BY DEF DeleteNodes, Tables, Alike, TableNames, Without
------------------------------------------------------------------------------
(* What a statement's name stands for. *)

LEMMA EffectIs ==
  ASSUME NEW o, NEW d
  PROVE  /\ Effect(o, "NODE_INSERT", d) = NodeInsert(d, o.n, o.kind)
         /\ Effect(o, "ALIAS_INSERT", d) = AliasInsert(d, o.alias, o.n)
         /\ Effect(o, "NODE_ASSERTION_UPSERT", d) = NodeAssertionUpsert(d, o.row)
         /\ Effect(o, "EDGE_INSERT", d) = EdgeInsert(d, o.row.edge)
         /\ Effect(o, "EDGE_ASSERTION_UPSERT", d) = EdgeAssertionUpsert(d, o.row)
         /\ Effect(o, "FLIP_CURRENT_OFF", d) = FlipCurrentOff(d, o.row.node, o.row.role)
         /\ Effect(o, "ARTIFACT_INSERT", d) = ArtifactInsert(d, o.row)
         /\ Effect(o, "COMPRESS", d) = MergeRedirect(d, o.root, o.walk[1])
BY DEF Effect

LEMMA MergeEffectIs ==
  ASSUME NEW o, NEW d
  PROVE  /\ Effect(o, "MERGE_REDIRECT", d) = MergeRedirect(d, o.s, o.l)
         /\ Effect(o, "ALIAS_REPOINT", d) = AliasRepoint(d, o.s, o.l)
         /\ Effect(o, "NA_UPSERT", d) = NaUpsert(d, o.s, o.l)
         /\ Effect(o, "NA_DELETE_LOSER", d) = NaDeleteLoser(d, o.s, o.l)
         /\ Effect(o, "EA_SRC_UPSERT", d) = EaSrcUpsert(d, o.s, o.l)
         /\ Effect(o, "EA_SRC_DELETE_LOSER", d) = EaSrcDeleteLoser(d, o.s, o.l)
         /\ Effect(o, "EDGE_SRC_DELETE_CONFLICTS", d) = EdgeSrcDeleteConflicts(d, o.s, o.l)
         /\ Effect(o, "EDGE_SRC_REPOINT", d) = EdgeSrcRepoint(d, o.s, o.l)
         /\ Effect(o, "EA_DST_UPSERT", d) = EaDstUpsert(d, o.s, o.l)
         /\ Effect(o, "EA_DST_DELETE_LOSER", d) = EaDstDeleteLoser(d, o.s, o.l)
         /\ Effect(o, "EDGE_DST_DELETE_CONFLICTS", d) = EdgeDstDeleteConflicts(d, o.s, o.l)
         /\ Effect(o, "EDGE_DST_REPOINT", d) = EdgeDstRepoint(d, o.s, o.l)
         /\ Effect(o, "DEMOTE_LOSER_CURRENT", d) = DemoteLoserCurrent(d, o.s, o.l)
         /\ Effect(o, "ARTIFACT_REPOINT", d) = ArtifactRepoint(d, o.s, o.l)
         /\ Effect(o, "ARTIFACT_DELETE_LOSER", d) = ArtifactDeleteLoser(d, o.s, o.l)
BY DEF Effect

LEMMA DeleteEffectIs ==
  ASSUME NEW o, NEW d
  PROVE  /\ Effect(o, "DELETE_EDGE_ASSERTIONS", d) = DeleteEdgeAssertions(d, o.net)
         /\ Effect(o, "DELETE_EDGES", d) = DeleteEdges(d, o.net)
         /\ Effect(o, "DELETE_NODE_ASSERTIONS", d) = DeleteNodeAssertions(d, o.net)
         /\ Effect(o, "DELETE_ARTIFACTS", d) = DeleteArtifacts(d, o.net)
         /\ Effect(o, "DELETE_ALIASES", d) = DeleteAliases(d, o.net)
         /\ Effect(o, "CLEAR_MERGED_INTO", d) = ClearMergedInto(d, o.net)
         /\ Effect(o, "DELETE_NODES", d) = DeleteNodes(d, o.net)
BY DEF Effect
------------------------------------------------------------------------------
(* The stages of a transaction.  works[i] are the tables before statement  *)
(* i of the batch, the last of them those that are committed.              *)

AtStage(t, i, op, args, batch, works) ==
  t = [op |-> op, args |-> args, todo |-> SubSeq(batch, i, Len(batch)), work |-> works[i]]

Stage(t, op, args, batch, works) ==
  \E i \in 1 .. Len(batch) + 1 : AtStage(t, i, op, args, batch, works)

Stages(args, batch, works) ==
  \A i \in 1 .. Len(batch) : works[i + 1] = Effect(args, batch[i], works[i])

LEMMA Rest ==
  ASSUME NEW S, NEW batch \in Seq(S), NEW i \in 1 .. Len(batch) + 1
  PROVE  /\ SubSeq(batch, i, Len(batch)) = <<>> <=> i = Len(batch) + 1
         /\ i <= Len(batch) =>
              /\ Head(SubSeq(batch, i, Len(batch))) = batch[i]
              /\ Tail(SubSeq(batch, i, Len(batch))) = SubSeq(batch, i + 1, Len(batch))
<1>1. Len(batch) \in Nat /\ i \in Int /\ Len(batch) \in Int
  OBVIOUS
<1>2. ASSUME i = Len(batch) + 1 PROVE SubSeq(batch, i, Len(batch)) = <<>>
  BY <1>1, <1>2, SubSeqEmpty
<1>3. ASSUME i # Len(batch) + 1 PROVE SubSeq(batch, i, Len(batch)) # <<>>
  <2>1. \A j \in i .. Len(batch) : batch[j] \in S
    BY <1>1
  <2>2. Len(SubSeq(batch, i, Len(batch))) = Len(batch) - i + 1
    BY <1>1, <1>3, <2>1, SubSeqProperties
  <2>3. QED BY <1>1, <1>3, <2>2
<1>4. ASSUME i <= Len(batch)
      PROVE  /\ Head(SubSeq(batch, i, Len(batch))) = batch[i]
             /\ Tail(SubSeq(batch, i, Len(batch))) = SubSeq(batch, i + 1, Len(batch))
  BY <1>1, <1>4, HeadTailOfSubSeq
<1>5. QED BY <1>2, <1>3, <1>4

LEMMA StageStarts ==
  ASSUME NEW S, NEW batch \in Seq(S), NEW op, NEW args, NEW works, NEW d, works[1] = d
  PROVE  Stage([op |-> op, args |-> args, todo |-> batch, work |-> d], op, args, batch, works)
<1>1. SubSeq(batch, 1, Len(batch)) = batch
  BY SubSeqFull
<1>2. 1 \in 1 .. Len(batch) + 1
  OBVIOUS
<1>3. AtStage([op |-> op, args |-> args, todo |-> batch, work |-> d], 1, op, args, batch, works)
  BY <1>1 DEF AtStage
<1>4. QED BY <1>2, <1>3 DEF Stage

(* The transaction t, a statement later. *)
After(t) ==
  [op |-> t.op, args |-> t.args, todo |-> Tail(t.todo),
   work |-> Effect(t.args, Head(t.todo), t.work)]

NextOf(t, op, args, batch, works) ==
  \E i \in 1 .. Len(batch) :
    /\ AtStage(t, i, op, args, batch, works)
    /\ Head(t.todo) = batch[i] /\ t.work = works[i]

LEMMA StageGoesOn ==
  ASSUME NEW S, NEW batch \in Seq(S), NEW op, NEW args, NEW works, NEW t,
         Stage(t, op, args, batch, works), t.todo # <<>>, Stages(args, batch, works)
  PROVE  /\ Stage(After(t), op, args, batch, works)
         /\ NextOf(t, op, args, batch, works)
<1>1. PICK i \in 1 .. Len(batch) + 1 : AtStage(t, i, op, args, batch, works)
  BY DEF Stage
<1>2. t.todo = SubSeq(batch, i, Len(batch)) /\ t.work = works[i] /\ t.args = args
  BY <1>1 DEF AtStage
<1>3. i \in 1 .. Len(batch) /\ i + 1 \in 1 .. Len(batch) + 1
  BY <1>2, Rest
<1>4. Head(t.todo) = batch[i] /\ Tail(t.todo) = SubSeq(batch, i + 1, Len(batch))
  BY <1>2, <1>3, Rest
<1>5. Effect(t.args, Head(t.todo), t.work) = works[i + 1]
  BY <1>2, <1>3, <1>4 DEF Stages
<1>6. AtStage(After(t), i + 1, op, args, batch, works)
  BY <1>1, <1>4, <1>5 DEF AtStage, After
<1>7. QED BY <1>1, <1>2, <1>3, <1>4, <1>6 DEF Stage, NextOf

LEMMA StageEnds ==
  ASSUME NEW S, NEW batch \in Seq(S), NEW op, NEW args, NEW works, NEW t,
         Stage(t, op, args, batch, works), t.todo = <<>>
  PROVE  t.work = works[Len(batch) + 1]
<1>1. PICK i \in 1 .. Len(batch) + 1 : AtStage(t, i, op, args, batch, works)
  BY DEF Stage
<1>2. t.todo = SubSeq(batch, i, Len(batch)) /\ t.work = works[i]
  BY <1>1 DEF AtStage
<1>3. i = Len(batch) + 1
  BY <1>2, Rest
<1>4. QED BY <1>2, <1>3
------------------------------------------------------------------------------
(* The tables in the course of a merge and of a delete: Mi and Di are what *)
(* the first i statements of the batch make of d.                          *)

M1(d, s, l) == MergeRedirect(d, s, l)
M2(d, s, l) == AliasRepoint(M1(d, s, l), s, l)
M3(d, s, l) == NaUpsert(M2(d, s, l), s, l)
M4(d, s, l) == NaDeleteLoser(M3(d, s, l), s, l)
M5(d, s, l) == EaSrcUpsert(M4(d, s, l), s, l)
M6(d, s, l) == EaSrcDeleteLoser(M5(d, s, l), s, l)
M7(d, s, l) == EdgeSrcDeleteConflicts(M6(d, s, l), s, l)
M8(d, s, l) == EdgeSrcRepoint(M7(d, s, l), s, l)
M9(d, s, l) == EaDstUpsert(M8(d, s, l), s, l)
M10(d, s, l) == EaDstDeleteLoser(M9(d, s, l), s, l)
M11(d, s, l) == EdgeDstDeleteConflicts(M10(d, s, l), s, l)
M12(d, s, l) == EdgeDstRepoint(M11(d, s, l), s, l)
M13(d, s, l) == DemoteLoserCurrent(M12(d, s, l), s, l)
M14(d, s, l) == ArtifactRepoint(M13(d, s, l), s, l)
M15(d, s, l) == ArtifactDeleteLoser(M14(d, s, l), s, l)

D1(d, net) == DeleteEdgeAssertions(d, net)
D2(d, net) == DeleteEdges(D1(d, net), net)
D3(d, net) == DeleteNodeAssertions(D2(d, net), net)
D4(d, net) == DeleteArtifacts(D3(d, net), net)
D5(d, net) == DeleteAliases(D4(d, net), net)
D6(d, net) == ClearMergedInto(D5(d, net), net)
D7(d, net) == DeleteNodes(D6(d, net), net)

MergeWorks(d, s, l) ==
  <<d, M1(d, s, l), M2(d, s, l), M3(d, s, l), M4(d, s, l), M5(d, s, l),
    M6(d, s, l), M7(d, s, l), M8(d, s, l), M9(d, s, l), M10(d, s, l),
    M11(d, s, l), M12(d, s, l), M13(d, s, l), M14(d, s, l), M15(d, s, l)>>
DeleteWorks(d, net) ==
  <<d, D1(d, net), D2(d, net), D3(d, net), D4(d, net), D5(d, net),
    D6(d, net), D7(d, net)>>

LEMMA MergeStages ==
  ASSUME NEW d, NEW s, NEW l
  PROVE  /\ Stages([s |-> s, l |-> l], MergeBatch, MergeWorks(d, s, l))
         /\ MergeBatch \in Seq(ToSet(MergeBatch))
         /\ Len(MergeBatch) = 15
<1> DEFINE o == [s |-> s, l |-> l]
           W == MergeWorks(d, s, l)
<1>1. W[1 + 1] = Effect(o, MergeBatch[1], W[1])
  BY MergeEffectIs DEF MergeBatch, MergeWorks, M1
<1>2. W[2 + 1] = Effect(o, MergeBatch[2], W[2])
  BY MergeEffectIs DEF MergeBatch, MergeWorks, M2
<1>3. W[3 + 1] = Effect(o, MergeBatch[3], W[3])
  BY MergeEffectIs DEF MergeBatch, MergeWorks, M3
<1>4. W[4 + 1] = Effect(o, MergeBatch[4], W[4])
  BY MergeEffectIs DEF MergeBatch, MergeWorks, M4
<1>5. W[5 + 1] = Effect(o, MergeBatch[5], W[5])
  BY MergeEffectIs DEF MergeBatch, MergeWorks, M5
<1>6. W[6 + 1] = Effect(o, MergeBatch[6], W[6])
  BY MergeEffectIs DEF MergeBatch, MergeWorks, M6
<1>7. W[7 + 1] = Effect(o, MergeBatch[7], W[7])
  BY MergeEffectIs DEF MergeBatch, MergeWorks, M7
<1>8. W[8 + 1] = Effect(o, MergeBatch[8], W[8])
  BY MergeEffectIs DEF MergeBatch, MergeWorks, M8
<1>9. W[9 + 1] = Effect(o, MergeBatch[9], W[9])
  BY MergeEffectIs DEF MergeBatch, MergeWorks, M9
<1>10. W[10 + 1] = Effect(o, MergeBatch[10], W[10])
  BY MergeEffectIs DEF MergeBatch, MergeWorks, M10
<1>11. W[11 + 1] = Effect(o, MergeBatch[11], W[11])
  BY MergeEffectIs DEF MergeBatch, MergeWorks, M11
<1>12. W[12 + 1] = Effect(o, MergeBatch[12], W[12])
  BY MergeEffectIs DEF MergeBatch, MergeWorks, M12
<1>13. W[13 + 1] = Effect(o, MergeBatch[13], W[13])
  BY MergeEffectIs DEF MergeBatch, MergeWorks, M13
<1>14. W[14 + 1] = Effect(o, MergeBatch[14], W[14])
  BY MergeEffectIs DEF MergeBatch, MergeWorks, M14
<1>15. W[15 + 1] = Effect(o, MergeBatch[15], W[15])
  BY MergeEffectIs DEF MergeBatch, MergeWorks, M15
<1>16. MergeBatch \in Seq(ToSet(MergeBatch)) /\ Len(MergeBatch) = 15
  BY DEF MergeBatch, ToSet
<1>17. \A i \in 1 .. 15 : W[i + 1] = Effect(o, MergeBatch[i], W[i])
  <2> HIDE DEF o, W
  <2>1. \A i \in 1 .. 15 :
           i = 1 \/ i = 2 \/ i = 3 \/ i = 4 \/ i = 5 \/ i = 6 \/ i = 7 \/ i = 8
           \/ i = 9 \/ i = 10 \/ i = 11 \/ i = 12 \/ i = 13 \/ i = 14 \/ i = 15
    OBVIOUS
  <2>2. QED BY <2>1, <1>1, <1>2, <1>3, <1>4, <1>5, <1>6, <1>7, <1>8, <1>9, <1>10,
            <1>11, <1>12, <1>13, <1>14, <1>15
<1>18. QED BY <1>16, <1>17 DEF Stages

LEMMA DeleteStages ==
  ASSUME NEW d, NEW net
  PROVE  /\ Stages([net |-> net], DeleteBatch, DeleteWorks(d, net))
         /\ DeleteBatch \in Seq(ToSet(DeleteBatch))
         /\ Len(DeleteBatch) = 7
<1> DEFINE o == [net |-> net]
           W == DeleteWorks(d, net)
<1>1. W[1 + 1] = Effect(o, DeleteBatch[1], W[1])
  BY DeleteEffectIs DEF DeleteBatch, DeleteWorks, D1
<1>2. W[2 + 1] = Effect(o, DeleteBatch[2], W[2])
  BY DeleteEffectIs DEF DeleteBatch, DeleteWorks, D2
<1>3. W[3 + 1] = Effect(o, DeleteBatch[3], W[3])
  BY DeleteEffectIs DEF DeleteBatch, DeleteWorks, D3
<1>4. W[4 + 1] = Effect(o, DeleteBatch[4], W[4])
  BY DeleteEffectIs DEF DeleteBatch, DeleteWorks, D4
<1>5. W[5 + 1] = Effect(o, DeleteBatch[5], W[5])
  BY DeleteEffectIs DEF DeleteBatch, DeleteWorks, D5
<1>6. W[6 + 1] = Effect(o, DeleteBatch[6], W[6])
  BY DeleteEffectIs DEF DeleteBatch, DeleteWorks, D6
<1>7. W[7 + 1] = Effect(o, DeleteBatch[7], W[7])
  BY DeleteEffectIs DEF DeleteBatch, DeleteWorks, D7
<1>8. DeleteBatch \in Seq(ToSet(DeleteBatch)) /\ Len(DeleteBatch) = 7
  BY DEF DeleteBatch, ToSet
<1>9. \A i \in 1 .. 7 : W[i + 1] = Effect(o, DeleteBatch[i], W[i])
  <2> HIDE DEF o, W
  <2>1. \A i \in 1 .. 7 :
           i = 1 \/ i = 2 \/ i = 3 \/ i = 4 \/ i = 5 \/ i = 6 \/ i = 7
    OBVIOUS
  <2>2. QED BY <2>1, <1>1, <1>2, <1>3, <1>4, <1>5, <1>6, <1>7
<1>10. QED BY <1>8, <1>9 DEF Stages

LEMMA MergeTyped ==
  ASSUME NEW d, Tables(d), NEW s \in Ids, NEW l \in Ids
  PROVE  /\ \A i \in 1 .. 16 : Tables(MergeWorks(d, s, l)[i])
         /\ Tables(M1(d, s, l)) /\ Alike(d, M1(d, s, l), {"node"})
         /\ Tables(M2(d, s, l)) /\ Alike(M1(d, s, l), M2(d, s, l), {"alias"})
         /\ Tables(M3(d, s, l)) /\ Alike(M2(d, s, l), M3(d, s, l), {"node_assertion"})
         /\ Tables(M4(d, s, l)) /\ Alike(M3(d, s, l), M4(d, s, l), {"node_assertion"})
         /\ Tables(M5(d, s, l)) /\ Alike(M4(d, s, l), M5(d, s, l), {"edge_assertion"})
         /\ Tables(M6(d, s, l)) /\ Alike(M5(d, s, l), M6(d, s, l), {"edge_assertion"})
         /\ Tables(M7(d, s, l)) /\ Alike(M6(d, s, l), M7(d, s, l), {"edge"})
         /\ Tables(M8(d, s, l)) /\ Alike(M7(d, s, l), M8(d, s, l), {"edge"})
         /\ Tables(M9(d, s, l)) /\ Alike(M8(d, s, l), M9(d, s, l), {"edge_assertion"})
         /\ Tables(M10(d, s, l)) /\ Alike(M9(d, s, l), M10(d, s, l), {"edge_assertion"})
         /\ Tables(M11(d, s, l)) /\ Alike(M10(d, s, l), M11(d, s, l), {"edge"})
         /\ Tables(M12(d, s, l)) /\ Alike(M11(d, s, l), M12(d, s, l), {"edge"})
         /\ Tables(M13(d, s, l)) /\ Alike(M12(d, s, l), M13(d, s, l), {"artifacts"})
         /\ Tables(M14(d, s, l)) /\ Alike(M13(d, s, l), M14(d, s, l), {"artifacts", "lost"})
         /\ Tables(M15(d, s, l)) /\ Alike(M14(d, s, l), M15(d, s, l), {"artifacts"})
<1>1. Tables(M1(d, s, l)) /\ Alike(d, M1(d, s, l), {"node"})
  BY MergeRedirectStep DEF M1
<1>2. Tables(M2(d, s, l)) /\ Alike(M1(d, s, l), M2(d, s, l), {"alias"})
  BY <1>1, AliasRepointStep DEF M2
<1>3. Tables(M3(d, s, l)) /\ Alike(M2(d, s, l), M3(d, s, l), {"node_assertion"})
  BY <1>2, NaUpsertStep DEF M3
<1>4. Tables(M4(d, s, l)) /\ Alike(M3(d, s, l), M4(d, s, l), {"node_assertion"})
  BY <1>3, NaDeleteLoserStep DEF M4
<1>5. Tables(M5(d, s, l)) /\ Alike(M4(d, s, l), M5(d, s, l), {"edge_assertion"})
  BY <1>4, EaSrcUpsertStep DEF M5
<1>6. Tables(M6(d, s, l)) /\ Alike(M5(d, s, l), M6(d, s, l), {"edge_assertion"})
  BY <1>5, EaSrcDeleteLoserStep DEF M6
<1>7. Tables(M7(d, s, l)) /\ Alike(M6(d, s, l), M7(d, s, l), {"edge"})
  BY <1>6, EdgeSrcDeleteConflictsStep DEF M7
<1>8. Tables(M8(d, s, l)) /\ Alike(M7(d, s, l), M8(d, s, l), {"edge"})
  BY <1>7, EdgeSrcRepointStep DEF M8
<1>9. Tables(M9(d, s, l)) /\ Alike(M8(d, s, l), M9(d, s, l), {"edge_assertion"})
  BY <1>8, EaDstUpsertStep DEF M9
<1>10. Tables(M10(d, s, l)) /\ Alike(M9(d, s, l), M10(d, s, l), {"edge_assertion"})
  BY <1>9, EaDstDeleteLoserStep DEF M10
<1>11. Tables(M11(d, s, l)) /\ Alike(M10(d, s, l), M11(d, s, l), {"edge"})
  BY <1>10, EdgeDstDeleteConflictsStep DEF M11
<1>12. Tables(M12(d, s, l)) /\ Alike(M11(d, s, l), M12(d, s, l), {"edge"})
  BY <1>11, EdgeDstRepointStep DEF M12
<1>13. Tables(M13(d, s, l)) /\ Alike(M12(d, s, l), M13(d, s, l), {"artifacts"})
  BY <1>12, DemoteLoserCurrentStep DEF M13
<1>14. Tables(M14(d, s, l)) /\ Alike(M13(d, s, l), M14(d, s, l), {"artifacts", "lost"})
  BY <1>13, ArtifactRepointStep DEF M14
<1>15. Tables(M15(d, s, l)) /\ Alike(M14(d, s, l), M15(d, s, l), {"artifacts"})
  BY <1>14, ArtifactDeleteLoserStep DEF M15
<1>16. \A i \in 1 .. 16 : Tables(MergeWorks(d, s, l)[i])
  <2>1. \A i \in 1 .. 16 :
           i = 1 \/ i = 2 \/ i = 3 \/ i = 4 \/ i = 5 \/ i = 6 \/ i = 7 \/ i = 8
           \/ i = 9 \/ i = 10 \/ i = 11 \/ i = 12 \/ i = 13 \/ i = 14 \/ i = 15 \/ i = 16
    OBVIOUS
  <2>2. QED BY <2>1, <1>1, <1>2, <1>3, <1>4, <1>5, <1>6, <1>7, <1>8, <1>9, <1>10,
            <1>11, <1>12, <1>13, <1>14, <1>15 DEF MergeWorks
<1>17. QED BY <1>1, <1>2, <1>3, <1>4, <1>5, <1>6, <1>7, <1>8, <1>9, <1>10,
           <1>11, <1>12, <1>13, <1>14, <1>15, <1>16

LEMMA DeleteTyped ==
  ASSUME NEW d, Tables(d), NEW net
  PROVE  /\ \A i \in 1 .. 8 : Tables(DeleteWorks(d, net)[i])
         /\ Tables(D1(d, net)) /\ Alike(d, D1(d, net), {"edge_assertion"})
         /\ Tables(D2(d, net)) /\ Alike(D1(d, net), D2(d, net), {"edge"})
         /\ Tables(D3(d, net)) /\ Alike(D2(d, net), D3(d, net), {"node_assertion"})
         /\ Tables(D4(d, net)) /\ Alike(D3(d, net), D4(d, net), {"artifacts", "lost"})
         /\ Tables(D5(d, net)) /\ Alike(D4(d, net), D5(d, net), {"alias"})
         /\ Tables(D6(d, net)) /\ Alike(D5(d, net), D6(d, net), {"node"})
         /\ Tables(D7(d, net)) /\ Alike(D6(d, net), D7(d, net), {"node"})
<1>1. Tables(D1(d, net)) /\ Alike(d, D1(d, net), {"edge_assertion"})
  BY DeleteEdgeAssertionsStep DEF D1
<1>2. Tables(D2(d, net)) /\ Alike(D1(d, net), D2(d, net), {"edge"})
  BY <1>1, DeleteEdgesStep DEF D2
<1>3. Tables(D3(d, net)) /\ Alike(D2(d, net), D3(d, net), {"node_assertion"})
  BY <1>2, DeleteNodeAssertionsStep DEF D3
<1>4. Tables(D4(d, net)) /\ Alike(D3(d, net), D4(d, net), {"artifacts", "lost"})
  BY <1>3, DeleteArtifactsStep DEF D4
<1>5. Tables(D5(d, net)) /\ Alike(D4(d, net), D5(d, net), {"alias"})
  BY <1>4, DeleteAliasesStep DEF D5
<1>6. Tables(D6(d, net)) /\ Alike(D5(d, net), D6(d, net), {"node"})
  BY <1>5, ClearMergedIntoStep DEF D6
<1>7. Tables(D7(d, net)) /\ Alike(D6(d, net), D7(d, net), {"node"})
  BY <1>6, DeleteNodesStep DEF D7
<1>8. \A i \in 1 .. 8 : Tables(DeleteWorks(d, net)[i])
  <2>1. \A i \in 1 .. 8 :
           i = 1 \/ i = 2 \/ i = 3 \/ i = 4 \/ i = 5 \/ i = 6 \/ i = 7 \/ i = 8
    OBVIOUS
  <2>2. QED BY <2>1, <1>1, <1>2, <1>3, <1>4, <1>5, <1>6, <1>7 DEF DeleteWorks
<1>9. QED BY <1>1, <1>2, <1>3, <1>4, <1>5, <1>6, <1>7, <1>8
------------------------------------------------------------------------------
(* What a whole merge, and a whole delete, make of each table. *)

AssertionsFolded(A, s, l) == {r \in Upserted(A, RowsMoved(A, s, l), NodeKey) : r.node # l}
SrcFolded(A, s, l) ==
  {r \in Upserted(A, EdgeAssertionsSrcMoved(A, s, l), EdgeKey) : r.edge[1] # l}
DstFolded(A, s, l) ==
  {r \in Upserted(A, EdgeAssertionsDstMoved(A, s, l), EdgeKey) : r.edge[2] # l}
SrcRepointed(E, s, l) == {IF e[1] = l THEN SrcMoved(e, s) ELSE e : e \in E}
DstRepointed(E, s, l) == {IF e[2] = l THEN DstMoved(e, s) ELSE e : e \in E}
Demoted(A, s, l) ==
  {IF a.node = l /\ \E b \in A : b.node = s /\ b.role = a.role /\ b.current
   THEN [a EXCEPT !.current = FALSE] ELSE a : a \in A}
Taken(A, q) == \E a \in A : ArtifactKey(a) = ArtifactKey(q)

(* e is d after the merge of l into s; it is d after the delete of net. *)
MergeMade(d, e, s, l) ==
  LET D == Demoted(d.artifacts, s, l)
      new == RowsMoved(D, s, l)
  IN /\ e.node = [n \in DOMAIN d.node |->
                    IF n = l THEN [d.node[n] EXCEPT !.merged_into = s] ELSE d.node[n]]
     /\ e.alias = [a \in DOMAIN d.alias |-> IF d.alias[a] = l THEN s ELSE d.alias[a]]
     /\ e.node_assertion = AssertionsFolded(d.node_assertion, s, l)
     /\ e.edge_assertion = DstFolded(SrcFolded(d.edge_assertion, s, l), s, l)
     /\ e.edge = DstRepointed(SrcRepointed(d.edge, s, l), s, l)
     /\ e.artifacts = {a \in D \union {q \in new : ~Taken(D, q)} : a.node # l}
     /\ e.lost = {a \in d.lost : a.node # l} \union RowsMoved(d.lost, s, l)
                   \union {q \in new : Taken(D, q)}
DeleteMade(d, e, net) ==
  /\ e.node = [n \in DOMAIN d.node \ net |-> d.node[n]]
  /\ e.alias = [a \in {b \in DOMAIN d.alias : d.alias[b] \notin net} |-> d.alias[a]]
  /\ e.node_assertion = {r \in d.node_assertion : r.node \notin net}
  /\ e.edge_assertion = {r \in d.edge_assertion : ~Cut(net, r.edge)}
  /\ e.edge = {x \in d.edge : ~Cut(net, x)}
  /\ e.artifacts = {a \in d.artifacts : a.node \notin net}
  /\ e.lost = {a \in d.lost : a.node \notin net}

LEMMA MergeMakes ==
  ASSUME NEW d, Tables(d), NEW s \in Ids, NEW l \in Ids, s # l
  PROVE  MergeMade(d, M15(d, s, l), s, l)
<1> USE MergeTyped DEF Alike, TableNames
<1>1. M15(d, s, l).node = M1(d, s, l).node
  OBVIOUS
<1>2. M15(d, s, l).alias = M2(d, s, l).alias /\ M1(d, s, l).alias = d.alias
  OBVIOUS
<1>3. /\ M2(d, s, l).node_assertion = d.node_assertion
      /\ M15(d, s, l).node_assertion = M4(d, s, l).node_assertion
  OBVIOUS
<1>4. /\ M4(d, s, l).edge_assertion = d.edge_assertion
      /\ M8(d, s, l).edge_assertion = M6(d, s, l).edge_assertion
      /\ M15(d, s, l).edge_assertion = M10(d, s, l).edge_assertion
  OBVIOUS
<1>5. /\ M6(d, s, l).edge = d.edge /\ M10(d, s, l).edge = M8(d, s, l).edge
      /\ M15(d, s, l).edge = M12(d, s, l).edge
  OBVIOUS
<1>6. /\ M12(d, s, l).artifacts = d.artifacts /\ M12(d, s, l).lost = d.lost
      /\ M13(d, s, l).lost = d.lost /\ M15(d, s, l).lost = M14(d, s, l).lost
  OBVIOUS
<1>7. /\ DOMAIN d = TableNames
      /\ DOMAIN M1(d, s, l) = TableNames /\ DOMAIN M2(d, s, l) = TableNames
      /\ DOMAIN M3(d, s, l) = TableNames /\ DOMAIN M4(d, s, l) = TableNames
      /\ DOMAIN M5(d, s, l) = TableNames /\ DOMAIN M6(d, s, l) = TableNames
      /\ DOMAIN M7(d, s, l) = TableNames /\ DOMAIN M8(d, s, l) = TableNames
      /\ DOMAIN M9(d, s, l) = TableNames /\ DOMAIN M10(d, s, l) = TableNames
      /\ DOMAIN M11(d, s, l) = TableNames /\ DOMAIN M12(d, s, l) = TableNames
      /\ DOMAIN M13(d, s, l) = TableNames /\ DOMAIN M14(d, s, l) = TableNames
      /\ DOMAIN M15(d, s, l) = TableNames
  BY DEF Tables
<1> HIDE MergeTyped DEF Alike
<1>8. M1(d, s, l).node =
        [n \in DOMAIN d.node |->
           IF n = l THEN [d.node[n] EXCEPT !.merged_into = s] ELSE d.node[n]]
  BY <1>7 DEF M1, MergeRedirect
<1>9. M2(d, s, l).alias =
         [a \in DOMAIN d.alias |-> IF d.alias[a] = l THEN s ELSE d.alias[a]]
  BY <1>2, <1>7 DEF M2, AliasRepoint
<1>10. M4(d, s, l).node_assertion = AssertionsFolded(d.node_assertion, s, l)
  <2>1. M3(d, s, l).node_assertion
          = Upserted(d.node_assertion, RowsMoved(d.node_assertion, s, l), NodeKey)
    BY <1>3, <1>7 DEF M3, NaUpsert
  <2>2. M4(d, s, l).node_assertion = {r \in M3(d, s, l).node_assertion : r.node # l}
    BY <1>7 DEF M4, NaDeleteLoser
  <2>3. QED BY <2>1, <2>2 DEF AssertionsFolded
<1>11. M6(d, s, l).edge_assertion = SrcFolded(d.edge_assertion, s, l)
  <2>1. M5(d, s, l).edge_assertion
          = Upserted(d.edge_assertion, EdgeAssertionsSrcMoved(d.edge_assertion, s, l), EdgeKey)
    BY <1>4, <1>7 DEF M5, EaSrcUpsert
  <2>2. M6(d, s, l).edge_assertion = {r \in M5(d, s, l).edge_assertion : r.edge[1] # l}
    BY <1>7 DEF M6, EaSrcDeleteLoser
  <2>3. QED BY <2>1, <2>2 DEF SrcFolded
<1>12. M10(d, s, l).edge_assertion = DstFolded(M6(d, s, l).edge_assertion, s, l)
  <2>1. M9(d, s, l).edge_assertion
          = Upserted(M6(d, s, l).edge_assertion,
                     EdgeAssertionsDstMoved(M6(d, s, l).edge_assertion, s, l), EdgeKey)
    BY <1>4, <1>7 DEF M9, EaDstUpsert
  <2>2. M10(d, s, l).edge_assertion = {r \in M9(d, s, l).edge_assertion : r.edge[2] # l}
    BY <1>7 DEF M10, EaDstDeleteLoser
  <2>3. QED BY <2>1, <2>2 DEF DstFolded
<1>13. M8(d, s, l).edge = SrcRepointed(d.edge, s, l)
  <2>1. M7(d, s, l).edge = {e \in d.edge : e[1] = l => SrcMoved(e, s) \notin d.edge}
    BY <1>5, <1>7 DEF M7, EdgeSrcDeleteConflicts
  <2>2. M8(d, s, l).edge = {IF e[1] = l THEN SrcMoved(e, s) ELSE e : e \in M7(d, s, l).edge}
    BY <1>7 DEF M8, EdgeSrcRepoint
  <2>3. \A e : SrcMoved(e, s)[1] # l
    BY DEF SrcMoved
  <2>4. QED BY <2>1, <2>2, <2>3 DEF SrcRepointed
<1>14. M12(d, s, l).edge = DstRepointed(M8(d, s, l).edge, s, l)
  <2>1. M11(d, s, l).edge =
          {e \in M8(d, s, l).edge : e[2] = l => DstMoved(e, s) \notin M8(d, s, l).edge}
    BY <1>5, <1>7 DEF M11, EdgeDstDeleteConflicts
  <2>2. M12(d, s, l).edge = {IF e[2] = l THEN DstMoved(e, s) ELSE e : e \in M11(d, s, l).edge}
    BY <1>7 DEF M12, EdgeDstRepoint
  <2>3. \A e : DstMoved(e, s)[2] # l
    BY DEF DstMoved
  <2>4. QED BY <2>1, <2>2, <2>3 DEF DstRepointed
<1>15. M13(d, s, l).artifacts = Demoted(d.artifacts, s, l)
  BY <1>6, <1>7 DEF M13, DemoteLoserCurrent, Demoted
<1>16. LET D == Demoted(d.artifacts, s, l)
           new == RowsMoved(D, s, l)
       IN /\ M15(d, s, l).artifacts = {a \in D \union {q \in new : ~Taken(D, q)} : a.node # l}
          /\ M14(d, s, l).lost = {a \in d.lost : a.node # l} \union RowsMoved(d.lost, s, l)
                                   \union {q \in new : Taken(D, q)}
  <2> DEFINE D == Demoted(d.artifacts, s, l)
             new == RowsMoved(D, s, l)
             left == {q \in new : Taken(D, q)}
  <2>1. /\ M14(d, s, l).artifacts = D \union (new \ left)
        /\ M14(d, s, l).lost = {a \in d.lost : a.node # l} \union RowsMoved(d.lost, s, l)
                                 \union left
    BY <1>6, <1>7, <1>15 DEF M14, ArtifactRepoint, Taken
  <2>2. M15(d, s, l).artifacts = {a \in M14(d, s, l).artifacts : a.node # l}
    BY <1>7 DEF M15, ArtifactDeleteLoser
  <2>3. new \ left = {q \in new : ~Taken(D, q)}
    OBVIOUS
  <2>4. QED BY <2>1, <2>2, <2>3
<1>17. QED
  BY <1>1, <1>2, <1>3, <1>4, <1>5, <1>6, <1>7, <1>8, <1>9, <1>10, <1>11, <1>12, <1>13,
     <1>14, <1>16 DEF MergeMade

DeleteStagesMade(d, net) ==
  /\ DOMAIN D7(d, net) = TableNames
  /\ D7(d, net).node = [n \in DOMAIN d.node \ net |-> d.node[n]]
  /\ D6(d, net).node =
       [n \in DOMAIN d.node |->
          IF n \in net THEN [d.node[n] EXCEPT !.merged_into = NoId] ELSE d.node[n]]
  /\ D5(d, net).alias =
       [a \in {b \in DOMAIN d.alias : d.alias[b] \notin net} |-> d.alias[a]]
  /\ D3(d, net).node_assertion = {r \in d.node_assertion : r.node \notin net}
  /\ D1(d, net).edge_assertion = {r \in d.edge_assertion : ~Cut(net, r.edge)}
  /\ D2(d, net).edge = {e \in d.edge : ~Cut(net, e)}
  /\ D4(d, net).artifacts = {a \in d.artifacts : a.node \notin net}
  /\ D4(d, net).lost = {a \in d.lost : a.node \notin net}

LEMMA DeleteStagesMake ==
  ASSUME NEW d, Tables(d), NEW net
  PROVE  DeleteStagesMade(d, net)
<1>1. /\ DOMAIN d = TableNames
      /\ DOMAIN D1(d, net) = TableNames /\ DOMAIN D2(d, net) = TableNames
      /\ DOMAIN D3(d, net) = TableNames /\ DOMAIN D4(d, net) = TableNames
      /\ DOMAIN D5(d, net) = TableNames /\ DOMAIN D6(d, net) = TableNames
      /\ DOMAIN D7(d, net) = TableNames
  BY DeleteTyped DEF Tables, TableNames
<1>2. D1(d, net).edge_assertion = {r \in d.edge_assertion : ~Cut(net, r.edge)}
  BY <1>1 DEF D1, DeleteEdgeAssertions, TableNames
<1>3. D2(d, net).edge = {e \in d.edge : ~Cut(net, e)}
  <2>1. D1(d, net).edge = d.edge
    BY DeleteTyped DEF Alike
  <2>2. QED BY <1>1, <2>1 DEF D2, DeleteEdges, TableNames
<1>4. D3(d, net).node_assertion = {r \in d.node_assertion : r.node \notin net}
  <2>1. D2(d, net).node_assertion = d.node_assertion
    BY DeleteTyped DEF Alike
  <2>2. QED BY <1>1, <2>1 DEF D3, DeleteNodeAssertions, TableNames
<1>5. /\ D4(d, net).artifacts = {a \in d.artifacts : a.node \notin net}
      /\ D4(d, net).lost = {a \in d.lost : a.node \notin net}
  <2>1. D3(d, net).artifacts = d.artifacts /\ D3(d, net).lost = d.lost
    BY DeleteTyped DEF Alike
  <2>2. QED BY <1>1, <2>1 DEF D4, DeleteArtifacts, TableNames
<1>6. D5(d, net).alias = [a \in {b \in DOMAIN d.alias : d.alias[b] \notin net} |-> d.alias[a]]
  <2>1. D4(d, net).alias = d.alias
    BY DeleteTyped DEF Alike
  <2>2. D5(d, net).alias = Without(d.alias, {a \in DOMAIN d.alias : d.alias[a] \in net})
    BY <1>1, <2>1 DEF D5, DeleteAliases, TableNames
  <2>3. DOMAIN d.alias \ {a \in DOMAIN d.alias : d.alias[a] \in net}
          = {b \in DOMAIN d.alias : d.alias[b] \notin net}
    OBVIOUS
  <2>4. QED BY <2>2, <2>3 DEF Without
<1>7. D6(d, net).node =
        [n \in DOMAIN d.node |->
           IF n \in net THEN [d.node[n] EXCEPT !.merged_into = NoId] ELSE d.node[n]]
  <2>1. D5(d, net).node = d.node
    BY DeleteTyped DEF Alike
  <2>2. QED BY <1>1, <2>1 DEF D6, ClearMergedInto, TableNames
<1>8. D7(d, net).node = [n \in DOMAIN d.node \ net |-> d.node[n]]
  <2>1. D7(d, net).node = Without(D6(d, net).node, net)
    BY <1>1 DEF D7, DeleteNodes, TableNames
  <2>2. QED BY <1>7, <2>1 DEF Without
<1>9. QED BY <1>1, <1>2, <1>3, <1>4, <1>5, <1>6, <1>7, <1>8 DEF DeleteStagesMade

LEMMA DeleteMakes ==
  ASSUME NEW d, Tables(d), NEW net
  PROVE  DeleteMade(d, D7(d, net), net)
<1>1. /\ D7(d, net).alias = D5(d, net).alias
      /\ D7(d, net).node_assertion = D3(d, net).node_assertion
      /\ D7(d, net).edge_assertion = D1(d, net).edge_assertion
      /\ D7(d, net).edge = D2(d, net).edge
      /\ D7(d, net).artifacts = D4(d, net).artifacts
      /\ D7(d, net).lost = D4(d, net).lost
  BY DeleteTyped DEF Alike
<1>2. DeleteStagesMade(d, net)
  BY DeleteStagesMake
<1>3. QED BY <1>1, <1>2 DEF DeleteStagesMade, DeleteMade

(* A row that a redirect leads into the network is of the network. *)
LEMMA NetworkClosed ==
  ASSUME NEW d, Tables(d), NEW n \in Ids, NEW x \in DOMAIN d.node,
         d.node[x].merged_into \in NetworkOf(Redirect(d), DOMAIN d.node, n),
         d.node[x].merged_into # NoId
  PROVE  x \in NetworkOf(Redirect(d), DOMAIN d.node, n)
<1> DEFINE m == Redirect(d)
           t == d.node[x].merged_into
<1>1. x \in Ids /\ m[x] = t
  BY DEF Tables, Redirect
<1>2. t = n \/ n \in Chain(m, t)
  BY DEF NetworkOf
<1>3. ASSUME NEW S \in SUBSET Ids, x \in S, ClosedUnder(m, S)
      PROVE  n \in S
  <2>1. t \in S
    BY <1>1, <1>3 DEF ClosedUnder
  <2>2. QED BY <1>2, <1>3, <2>1 DEF Chain
<1>4. n \in Chain(m, x)
  BY <1>3 DEF Chain
<1>5. QED BY <1>4 DEF NetworkOf

(* Child rows go before the rows they refer to: no statement of a delete   *)
(* leaves a reference to a row that is gone.                               *)
LEMMA DeleteKeepsKeys ==
  ASSUME NEW d, Tables(d), ForeignKeys(d), NEW net,
         \A x \in DOMAIN d.node :
           d.node[x].merged_into # NoId /\ d.node[x].merged_into \in net => x \in net
  PROVE  \A i \in 1 .. 8 : ForeignKeys(DeleteWorks(d, net)[i])
<1>0. DeleteStagesMade(d, net)
  BY DeleteStagesMake
<1>1. /\ D1(d, net).node = d.node /\ D2(d, net).node = d.node /\ D3(d, net).node = d.node
      /\ D4(d, net).node = d.node /\ D5(d, net).node = d.node
  BY DeleteTyped DEF Alike
<1>2. /\ D1(d, net).alias = d.alias /\ D2(d, net).alias = d.alias
      /\ D3(d, net).alias = d.alias /\ D4(d, net).alias = d.alias
      /\ D6(d, net).alias = D5(d, net).alias /\ D7(d, net).alias = D5(d, net).alias
  BY DeleteTyped DEF Alike
<1>3. /\ D1(d, net).node_assertion = d.node_assertion
      /\ D2(d, net).node_assertion = d.node_assertion
      /\ D4(d, net).node_assertion = D3(d, net).node_assertion
      /\ D5(d, net).node_assertion = D3(d, net).node_assertion
      /\ D6(d, net).node_assertion = D3(d, net).node_assertion
      /\ D7(d, net).node_assertion = D3(d, net).node_assertion
  BY DeleteTyped DEF Alike
<1>4. /\ D2(d, net).edge_assertion = D1(d, net).edge_assertion
      /\ D3(d, net).edge_assertion = D1(d, net).edge_assertion
      /\ D4(d, net).edge_assertion = D1(d, net).edge_assertion
      /\ D5(d, net).edge_assertion = D1(d, net).edge_assertion
      /\ D6(d, net).edge_assertion = D1(d, net).edge_assertion
      /\ D7(d, net).edge_assertion = D1(d, net).edge_assertion
  BY DeleteTyped DEF Alike
<1>5. /\ D1(d, net).edge = d.edge /\ D3(d, net).edge = D2(d, net).edge
      /\ D4(d, net).edge = D2(d, net).edge /\ D5(d, net).edge = D2(d, net).edge
      /\ D6(d, net).edge = D2(d, net).edge /\ D7(d, net).edge = D2(d, net).edge
  BY DeleteTyped DEF Alike
<1>6. ForeignKeys(D1(d, net))
  <2>1. D1(d, net).edge_assertion = {r \in d.edge_assertion : ~Cut(net, r.edge)}
    BY <1>0 DEF DeleteStagesMade
  <2>2. QED BY <1>1, <1>2, <1>3, <1>5, <2>1 DEF ForeignKeys
<1>7. ForeignKeys(D2(d, net))
  <2>1. D1(d, net).edge_assertion = {r \in d.edge_assertion : ~Cut(net, r.edge)}
    BY <1>0 DEF DeleteStagesMade
  <2>2. D2(d, net).edge = {e \in d.edge : ~Cut(net, e)}
    BY <1>0 DEF DeleteStagesMade
  <2>3. QED BY <1>1, <1>2, <1>3, <1>4, <2>1, <2>2 DEF ForeignKeys
<1>8. ForeignKeys(D3(d, net)) /\ ForeignKeys(D4(d, net))
  <2>1. D3(d, net).node_assertion = {r \in d.node_assertion : r.node \notin net}
    BY <1>0 DEF DeleteStagesMade
  <2>2. QED BY <1>1, <1>2, <1>3, <1>4, <1>5, <1>7, <2>1 DEF ForeignKeys
<1>9. ForeignKeys(D5(d, net))
  <2>1. D5(d, net).alias = [a \in {b \in DOMAIN d.alias : d.alias[b] \notin net} |-> d.alias[a]]
    BY <1>0 DEF DeleteStagesMade
  <2>2. QED BY <1>1, <1>2, <1>3, <1>4, <1>5, <1>8, <2>1 DEF ForeignKeys
<1>10. ForeignKeys(D6(d, net))
  <2>1. D6(d, net).node =
          [x \in DOMAIN d.node |->
             IF x \in net THEN [d.node[x] EXCEPT !.merged_into = NoId] ELSE d.node[x]]
    BY <1>0 DEF DeleteStagesMade
  <2>2. \A x \in DOMAIN d.node : [d.node[x] EXCEPT !.merged_into = NoId].merged_into = NoId
    BY DEF Tables, Node
  <2>3. /\ DOMAIN D6(d, net).node = DOMAIN d.node
        /\ \A x \in DOMAIN d.node :
             D6(d, net).node[x].merged_into # NoId =>
               D6(d, net).node[x].merged_into = d.node[x].merged_into
    BY <2>1, <2>2
  <2>4. QED BY <1>1, <1>2, <1>3, <1>4, <1>5, <1>9, <2>3 DEF ForeignKeys
<1>11. ForeignKeys(D7(d, net))
  <2>1. /\ DOMAIN D7(d, net).node = DOMAIN d.node \ net
        /\ \A x \in DOMAIN d.node \ net : D7(d, net).node[x] = d.node[x]
    <3>1. D7(d, net).node = [x \in DOMAIN d.node \ net |-> d.node[x]]
      BY <1>0 DEF DeleteStagesMade
    <3>2. QED BY <3>1
  <2>2. \A x \in DOMAIN D7(d, net).node :
          D7(d, net).node[x].merged_into # NoId =>
            D7(d, net).node[x].merged_into \in DOMAIN d.node \ net
    BY <2>1 DEF ForeignKeys
  <2>3. \A a \in DOMAIN D7(d, net).alias : D7(d, net).alias[a] \in DOMAIN d.node \ net
    <3>1. D5(d, net).alias = [a \in {b \in DOMAIN d.alias : d.alias[b] \notin net} |-> d.alias[a]]
      BY <1>0 DEF DeleteStagesMade
    <3>2. QED BY <1>2, <3>1 DEF ForeignKeys
  <2>4. \A r \in D7(d, net).node_assertion : r.node \in DOMAIN d.node \ net
    <3>1. D3(d, net).node_assertion = {r \in d.node_assertion : r.node \notin net}
      BY <1>0 DEF DeleteStagesMade
    <3>2. QED BY <1>3, <3>1 DEF ForeignKeys
  <2>5. \A e \in D7(d, net).edge : e[1] \in DOMAIN d.node \ net /\ e[2] \in DOMAIN d.node \ net
    <3>1. D2(d, net).edge = {e \in d.edge : ~Cut(net, e)}
      BY <1>0 DEF DeleteStagesMade
    <3>2. QED BY <1>5, <3>1 DEF ForeignKeys, Cut
  <2>6. \A r \in D7(d, net).edge_assertion : r.edge \in D7(d, net).edge
    BY <1>4, <1>5, <1>7 DEF ForeignKeys
  <2>7. QED BY <2>1, <2>2, <2>3, <2>4, <2>5, <2>6 DEF ForeignKeys
<1>12. \A i \in 1 .. 8 :
         i = 1 \/ i = 2 \/ i = 3 \/ i = 4 \/ i = 5 \/ i = 6 \/ i = 7 \/ i = 8
  OBVIOUS
<1>13. QED BY <1>6, <1>7, <1>8, <1>9, <1>10, <1>11, <1>12 DEF DeleteWorks
------------------------------------------------------------------------------
(* A merge's upsert and delete fold the rows of the loser into those of    *)
(* the survivor: of the rows that meet under one key the newest is left.   *)

(* U are the rows A after an upsert of the rows M. *)
UpsertOf(A, M, key, U) ==
  /\ \A r \in A \union M : r.at \in Nat
  /\ \A r, q \in A : key[r] = key[q] => r = q
  /\ \A r, q \in M : key[r] = key[q] => r = q
  /\ \A q : q \in U <=>
       \/ q \in A /\ \A p \in M : key[p] = key[q] => p.at <= q.at
       \/ q \in M /\ \A r \in A : key[q] = key[r] => q.at > r.at
NewestOf(A, M, key, U) ==
  /\ \A r, q \in U : key[r] = key[q] => r = q
  /\ \A r \in A \union M : \E q \in U : key[q] = key[r] /\ r.at <= q.at

LEMMA NewestLeft ==
  ASSUME NEW A, NEW M, NEW key, NEW U, UpsertOf(A, M, key, U)
  PROVE  NewestOf(A, M, key, U)
<1> USE DEF UpsertOf
<1>1. ASSUME NEW r \in U, NEW q \in U, key[r] = key[q] PROVE r = q
  <2>1. CASE r \in A /\ q \in A
    BY <1>1, <2>1
  <2>2. CASE r \in M /\ q \in M
    BY <1>1, <2>2
  <2>3. CASE r \in A /\ r \notin M /\ q \in M /\ q \notin A
    <3>1. q.at <= r.at /\ q.at > r.at
      BY <1>1, <2>3
    <3>2. QED BY <2>3, <3>1
  <2>4. CASE q \in A /\ q \notin M /\ r \in M /\ r \notin A
    <3>1. r.at <= q.at /\ r.at > q.at
      BY <1>1, <2>4
    <3>2. QED BY <2>4, <3>1
  <2>5. QED BY <2>1, <2>2, <2>3, <2>4
<1>2. ASSUME NEW r \in A PROVE \E q \in U : key[q] = key[r] /\ r.at <= q.at
  <2>1. CASE \A p \in M : key[p] = key[r] => p.at <= r.at
    <3>1. r \in U /\ r.at <= r.at
      BY <2>1
    <3>2. QED BY <3>1
  <2>2. ASSUME NEW p \in M, key[p] = key[r], ~(p.at <= r.at)
        PROVE  \E q \in U : key[q] = key[r] /\ r.at <= q.at
    <3>1. p.at > r.at /\ r.at <= p.at
      BY <2>2
    <3>2. \A x \in A : key[p] = key[x] => x = r
      BY <2>2
    <3>3. p \in U
      BY <3>1, <3>2
    <3>4. QED BY <2>2, <3>1, <3>3
  <2>3. QED BY <2>1, <2>2
<1>3. ASSUME NEW r \in M PROVE \E q \in U : key[q] = key[r] /\ r.at <= q.at
  <2>1. CASE \A x \in A : key[r] = key[x] => r.at > x.at
    <3>1. r \in U /\ r.at <= r.at
      BY <2>1
    <3>2. QED BY <3>1
  <2>2. ASSUME NEW x \in A, key[r] = key[x], ~(r.at > x.at)
        PROVE  \E q \in U : key[q] = key[r] /\ r.at <= q.at
    <3>1. r.at <= x.at
      BY <2>2
    <3>2. \A p \in M : key[p] = key[x] => p = r
      BY <2>2
    <3>3. x \in U
      BY <3>1, <3>2
    <3>4. QED BY <2>2, <3>1, <3>3
  <2>3. QED BY <2>1, <2>2
<1>4. QED BY <1>1, <1>2, <1>3 DEF NewestOf

To(n, s, l) == IF n = l THEN s ELSE n

NodesFolded(A, B, s, l) ==
  /\ \A r, q \in B : NodeKey(r) = NodeKey(q) => r = q
  /\ \A r \in A : \E q \in B :
       q.node = To(r.node, s, l) /\ q.source = r.source /\ r.at <= q.at
  /\ \A q \in B : \E r \in A :
       q.node = To(r.node, s, l) /\ q.source = r.source /\ q.at = r.at

LEMMA FoldedAssertions ==
  ASSUME NEW A \in SUBSET NodeAssertion, NEW s \in Ids, NEW l \in Ids, s # l,
         \A r, q \in A : NodeKey(r) = NodeKey(q) => r = q
  PROVE  NodesFolded(A, AssertionsFolded(A, s, l), s, l)
<1> DEFINE M == RowsMoved(A, s, l)
           U == Upserted(A, M, NodeKey)
           key == [r \in NodeAssertion |-> NodeKey(r)]
<1>1. \A r \in NodeAssertion : r.at \in Nat
  BY StoreAssumption DEF NodeAssertion
<1>2. \A r \in A : r.node = l =>
        /\ [r EXCEPT !.node = s] \in M
        /\ [r EXCEPT !.node = s].node = s /\ [r EXCEPT !.node = s].source = r.source
        /\ [r EXCEPT !.node = s].at = r.at
  BY DEF RowsMoved, NodeAssertion
<1>3. \A q \in M : \E r \in A :
        /\ r.node = l /\ q.node = s /\ q.source = r.source /\ q.at = r.at
        /\ q = [r EXCEPT !.node = s]
  BY DEF RowsMoved, NodeAssertion
<1>4. M \subseteq NodeAssertion
  BY DEF RowsMoved, NodeAssertion
<1>5. \A r \in NodeAssertion : key[r] = NodeKey(r) /\ key[r] = <<r.node, r.source>>
  BY DEF NodeKey
<1>6. \A q : q \in U <=>
        \/ q \in A /\ \A p \in M : NodeKey(p) = NodeKey(q) => p.at <= q.at
        \/ q \in M /\ \A r \in A : NodeKey(q) = NodeKey(r) => q.at > r.at
  BY DEF Upserted
<1>7. \A p, q \in M : key[p] = key[q] => p = q
  <2> SUFFICES ASSUME NEW p \in M, NEW q \in M, p.source = q.source PROVE p = q
    BY <1>4, <1>5
  <2>1. PICK r \in A : r.node = l /\ p.source = r.source /\ p = [r EXCEPT !.node = s]
    BY <1>3
  <2>2. PICK x \in A : x.node = l /\ q.source = x.source /\ q = [x EXCEPT !.node = s]
    BY <1>3
  <2>3. r = x
    BY <2>1, <2>2 DEF NodeKey
  <2>4. QED BY <2>1, <2>2, <2>3
<1>8. \A r, q \in A : key[r] = key[q] => r = q
  BY <1>5
<1> HIDE DEF M, U, key
<1>9. /\ \A r, q \in U : key[r] = key[q] => r = q
      /\ \A r \in A \union M : \E q \in U : key[q] = key[r] /\ r.at <= q.at
  <2>1. \A r \in A \union M : r.at \in Nat
    BY <1>1, <1>4
  <2>2. \A q : q \in U <=>
          \/ q \in A /\ \A p \in M : key[p] = key[q] => p.at <= q.at
          \/ q \in M /\ \A r \in A : key[q] = key[r] => q.at > r.at
    BY <1>4, <1>5, <1>6
  <2>3. UpsertOf(A, M, key, U)
    BY <1>7, <1>8, <2>1, <2>2 DEF UpsertOf
  <2>4. QED BY <2>3, NewestLeft DEF NewestOf
<1>10. U \subseteq A \union M
  BY <1>6
<1> DEFINE B == AssertionsFolded(A, s, l)
<1>11. B = {r \in U : r.node # l}
  BY DEF AssertionsFolded, U, M
<1> HIDE DEF B
<1>12. \A r, q \in B : NodeKey(r) = NodeKey(q) => r = q
  BY <1>4, <1>5, <1>9, <1>10, <1>11
<1>13. ASSUME NEW r \in A
       PROVE  \E q \in B : q.node = To(r.node, s, l) /\ q.source = r.source /\ r.at <= q.at
  <2>1. PICK x \in A \union M : x.node = To(r.node, s, l) /\ x.source = r.source /\ x.at = r.at
    BY <1>2 DEF To
  <2>2. PICK q \in U : key[q] = key[x] /\ x.at <= q.at
    BY <1>9
  <2>3. q.node = x.node /\ q.source = x.source
    BY <1>4, <1>5, <1>10, <2>2
  <2>4. x.node # l
    BY <2>1 DEF To
  <2>5. QED BY <1>11, <2>1, <2>2, <2>3, <2>4
<1>14. ASSUME NEW q \in B
       PROVE  \E r \in A : q.node = To(r.node, s, l) /\ q.source = r.source /\ q.at = r.at
  <2>1. q \in A \union M /\ q.node # l
    BY <1>10, <1>11
  <2>2. QED BY <1>3, <2>1 DEF To
<1>15. QED BY <1>12, <1>13, <1>14 DEF NodesFolded, B

(* Where the edges go: first by one end, then by the other, in all by both. *)
SrcTo(s, l) == [e \in Edge |-> IF e[1] = l THEN SrcMoved(e, s) ELSE e]
DstTo(s, l) == [e \in Edge |-> IF e[2] = l THEN DstMoved(e, s) ELSE e]
EdgeTo(s, l) == [e \in Edge |-> <<To(e[1], s, l), To(e[2], s, l), e[3]>>]

EdgesFolded(A, B, f) ==
  /\ \A r, q \in B : EdgeKey(r) = EdgeKey(q) => r = q
  /\ \A r \in A : \E q \in B : q.edge = f[r.edge] /\ q.source = r.source /\ r.at <= q.at
  /\ \A q \in B : \E r \in A : q.edge = f[r.edge] /\ q.source = r.source /\ q.at = r.at

LEMMA FoldedSrc ==
  ASSUME NEW A \in SUBSET EdgeAssertion, NEW s \in Ids, NEW l \in Ids, s # l,
         \A r, q \in A : EdgeKey(r) = EdgeKey(q) => r = q
  PROVE  SrcFolded(A, s, l) \subseteq EdgeAssertion
         /\ EdgesFolded(A, SrcFolded(A, s, l), SrcTo(s, l))
<1> DEFINE M == EdgeAssertionsSrcMoved(A, s, l)
           U == Upserted(A, M, EdgeKey)
           key == [r \in EdgeAssertion |-> EdgeKey(r)]
<1>1. \A r \in EdgeAssertion : r.at \in Nat /\ r.edge \in Edge
  BY StoreAssumption DEF EdgeAssertion
<1>0. \A e \in Edge : /\ SrcMoved(e, s) \in Edge /\ SrcMoved(e, s)[1] = s
                      /\ SrcTo(s, l)[e] = IF e[1] = l THEN SrcMoved(e, s) ELSE e
  BY DEF Edge, SrcMoved, SrcTo
<1>2. \A r \in A : r.edge[1] = l =>
        /\ [r EXCEPT !.edge = SrcMoved(r.edge, s)] \in M
        /\ [r EXCEPT !.edge = SrcMoved(r.edge, s)].edge = SrcMoved(r.edge, s)
        /\ [r EXCEPT !.edge = SrcMoved(r.edge, s)].source = r.source
        /\ [r EXCEPT !.edge = SrcMoved(r.edge, s)].at = r.at
  BY DEF EdgeAssertionsSrcMoved, EdgeAssertion
<1>3. \A q \in M : \E r \in A :
        /\ r.edge[1] = l /\ q.edge = SrcMoved(r.edge, s) /\ q.source = r.source /\ q.at = r.at
        /\ q = [r EXCEPT !.edge = SrcMoved(r.edge, s)]
  BY DEF EdgeAssertionsSrcMoved, EdgeAssertion
<1>4. M \subseteq EdgeAssertion
  BY <1>0, <1>1, <1>3 DEF EdgeAssertion
<1>5. \A r \in EdgeAssertion : key[r] = EdgeKey(r) /\ key[r] = <<r.edge, r.source>>
  BY DEF EdgeKey
<1>6. \A q : q \in U <=>
        \/ q \in A /\ \A p \in M : EdgeKey(p) = EdgeKey(q) => p.at <= q.at
        \/ q \in M /\ \A r \in A : EdgeKey(q) = EdgeKey(r) => q.at > r.at
  BY DEF Upserted
<1>7. \A p, q \in M : key[p] = key[q] => p = q
  <2> SUFFICES ASSUME NEW p \in M, NEW q \in M, p.edge = q.edge, p.source = q.source PROVE p = q
    BY <1>4, <1>5
  <2>1. PICK r \in A : /\ r.edge[1] = l /\ p.source = r.source /\ p.edge = SrcMoved(r.edge, s)
                       /\ p = [r EXCEPT !.edge = SrcMoved(r.edge, s)]
    BY <1>3
  <2>2. PICK x \in A : /\ x.edge[1] = l /\ q.source = x.source /\ q.edge = SrcMoved(x.edge, s)
                       /\ q = [x EXCEPT !.edge = SrcMoved(x.edge, s)]
    BY <1>3
  <2>3. r.edge = x.edge
    <3>1. r.edge \in Edge /\ x.edge \in Edge
      BY <1>1
    <3>2. SrcMoved(r.edge, s) = SrcMoved(x.edge, s)
      BY <2>1, <2>2
    <3>3. r.edge[1] = x.edge[1]
      BY <2>1, <2>2
    <3> HIDE <1>0
    <3>4. QED BY <3>1, <3>2, <3>3 DEF SrcMoved, Edge
  <2>4. r = x
    BY <2>1, <2>2, <2>3 DEF EdgeKey
  <2>5. QED BY <2>1, <2>2, <2>4
<1>8. \A r, q \in A : key[r] = key[q] => r = q
  BY <1>5
<1> HIDE DEF M, U, key
<1>9. NewestOf(A, M, key, U)
  <2>1. \A r \in A \union M : r.at \in Nat
    BY <1>1, <1>4
  <2>2. \A q : q \in U <=>
          \/ q \in A /\ \A p \in M : key[p] = key[q] => p.at <= q.at
          \/ q \in M /\ \A r \in A : key[q] = key[r] => q.at > r.at
    BY <1>4, <1>5, <1>6
  <2>3. UpsertOf(A, M, key, U)
    BY <1>7, <1>8, <2>1, <2>2 DEF UpsertOf
  <2>4. QED BY <2>3, NewestLeft
<1>10. U \subseteq A \union M
  BY <1>6
<1> DEFINE B == SrcFolded(A, s, l)
<1>11. B = {r \in U : r.edge[1] # l}
  BY DEF SrcFolded, U, M
<1> HIDE DEF B
<1>12. \A r, q \in B : EdgeKey(r) = EdgeKey(q) => r = q
  BY <1>4, <1>5, <1>9, <1>10, <1>11 DEF NewestOf
<1>13. ASSUME NEW r \in A
       PROVE  \E q \in B : q.edge = SrcTo(s, l)[r.edge] /\ q.source = r.source /\ r.at <= q.at
  <2>1. PICK x \in A \union M :
          x.edge = SrcTo(s, l)[r.edge] /\ x.source = r.source /\ x.at = r.at
    BY <1>0, <1>1, <1>2
  <2>2. PICK q \in U : key[q] = key[x] /\ x.at <= q.at
    BY <1>9 DEF NewestOf
  <2>3. q.edge = x.edge /\ q.source = x.source
    BY <1>4, <1>5, <1>10, <2>2
  <2>4. x.edge[1] # l
    BY <1>0, <1>1, <2>1
  <2>5. QED BY <1>11, <2>1, <2>2, <2>3, <2>4
<1>14. ASSUME NEW q \in B
       PROVE  \E r \in A : q.edge = SrcTo(s, l)[r.edge] /\ q.source = r.source /\ q.at = r.at
  <2>1. q \in A \union M /\ q.edge[1] # l
    BY <1>10, <1>11
  <2>2. QED BY <1>0, <1>1, <1>3, <2>1
<1>15. B \subseteq EdgeAssertion
  BY <1>4, <1>10, <1>11
<1>16. QED BY <1>12, <1>13, <1>14, <1>15 DEF EdgesFolded, B

LEMMA FoldedDst ==
  ASSUME NEW A \in SUBSET EdgeAssertion, NEW s \in Ids, NEW l \in Ids, s # l,
         \A r, q \in A : EdgeKey(r) = EdgeKey(q) => r = q
  PROVE  DstFolded(A, s, l) \subseteq EdgeAssertion
         /\ EdgesFolded(A, DstFolded(A, s, l), DstTo(s, l))
<1> DEFINE M == EdgeAssertionsDstMoved(A, s, l)
           U == Upserted(A, M, EdgeKey)
           key == [r \in EdgeAssertion |-> EdgeKey(r)]
<1>1. \A r \in EdgeAssertion : r.at \in Nat /\ r.edge \in Edge
  BY StoreAssumption DEF EdgeAssertion
<1>0. \A e \in Edge : /\ DstMoved(e, s) \in Edge /\ DstMoved(e, s)[2] = s
                      /\ DstTo(s, l)[e] = IF e[2] = l THEN DstMoved(e, s) ELSE e
  BY DEF Edge, DstMoved, DstTo
<1>2. \A r \in A : r.edge[2] = l =>
        /\ [r EXCEPT !.edge = DstMoved(r.edge, s)] \in M
        /\ [r EXCEPT !.edge = DstMoved(r.edge, s)].edge = DstMoved(r.edge, s)
        /\ [r EXCEPT !.edge = DstMoved(r.edge, s)].source = r.source
        /\ [r EXCEPT !.edge = DstMoved(r.edge, s)].at = r.at
  BY DEF EdgeAssertionsDstMoved, EdgeAssertion
<1>3. \A q \in M : \E r \in A :
        /\ r.edge[2] = l /\ q.edge = DstMoved(r.edge, s) /\ q.source = r.source /\ q.at = r.at
        /\ q = [r EXCEPT !.edge = DstMoved(r.edge, s)]
  BY DEF EdgeAssertionsDstMoved, EdgeAssertion
<1>4. M \subseteq EdgeAssertion
  BY <1>0, <1>1, <1>3 DEF EdgeAssertion
<1>5. \A r \in EdgeAssertion : key[r] = EdgeKey(r) /\ key[r] = <<r.edge, r.source>>
  BY DEF EdgeKey
<1>6. \A q : q \in U <=>
        \/ q \in A /\ \A p \in M : EdgeKey(p) = EdgeKey(q) => p.at <= q.at
        \/ q \in M /\ \A r \in A : EdgeKey(q) = EdgeKey(r) => q.at > r.at
  BY DEF Upserted
<1>7. \A p, q \in M : key[p] = key[q] => p = q
  <2> SUFFICES ASSUME NEW p \in M, NEW q \in M, p.edge = q.edge, p.source = q.source PROVE p = q
    BY <1>4, <1>5
  <2>1. PICK r \in A : /\ r.edge[2] = l /\ p.source = r.source /\ p.edge = DstMoved(r.edge, s)
                       /\ p = [r EXCEPT !.edge = DstMoved(r.edge, s)]
    BY <1>3
  <2>2. PICK x \in A : /\ x.edge[2] = l /\ q.source = x.source /\ q.edge = DstMoved(x.edge, s)
                       /\ q = [x EXCEPT !.edge = DstMoved(x.edge, s)]
    BY <1>3
  <2>3. r.edge = x.edge
    <3>1. r.edge \in Edge /\ x.edge \in Edge
      BY <1>1
    <3>2. DstMoved(r.edge, s) = DstMoved(x.edge, s)
      BY <2>1, <2>2
    <3>3. r.edge[2] = x.edge[2]
      BY <2>1, <2>2
    <3> HIDE <1>0
    <3>4. QED BY <3>1, <3>2, <3>3 DEF DstMoved, Edge
  <2>4. r = x
    BY <2>1, <2>2, <2>3 DEF EdgeKey
  <2>5. QED BY <2>1, <2>2, <2>4
<1>8. \A r, q \in A : key[r] = key[q] => r = q
  BY <1>5
<1> HIDE DEF M, U, key
<1>9. NewestOf(A, M, key, U)
  <2>1. \A r \in A \union M : r.at \in Nat
    BY <1>1, <1>4
  <2>2. \A q : q \in U <=>
          \/ q \in A /\ \A p \in M : key[p] = key[q] => p.at <= q.at
          \/ q \in M /\ \A r \in A : key[q] = key[r] => q.at > r.at
    BY <1>4, <1>5, <1>6
  <2>3. UpsertOf(A, M, key, U)
    BY <1>7, <1>8, <2>1, <2>2 DEF UpsertOf
  <2>4. QED BY <2>3, NewestLeft
<1>10. U \subseteq A \union M
  BY <1>6
<1> DEFINE B == DstFolded(A, s, l)
<1>11. B = {r \in U : r.edge[2] # l}
  BY DEF DstFolded, U, M
<1> HIDE DEF B
<1>12. \A r, q \in B : EdgeKey(r) = EdgeKey(q) => r = q
  BY <1>4, <1>5, <1>9, <1>10, <1>11 DEF NewestOf
<1>13. ASSUME NEW r \in A
       PROVE  \E q \in B : q.edge = DstTo(s, l)[r.edge] /\ q.source = r.source /\ r.at <= q.at
  <2>1. PICK x \in A \union M :
          x.edge = DstTo(s, l)[r.edge] /\ x.source = r.source /\ x.at = r.at
    BY <1>0, <1>1, <1>2
  <2>2. PICK q \in U : key[q] = key[x] /\ x.at <= q.at
    BY <1>9 DEF NewestOf
  <2>3. q.edge = x.edge /\ q.source = x.source
    BY <1>4, <1>5, <1>10, <2>2
  <2>4. x.edge[2] # l
    BY <1>0, <1>1, <2>1
  <2>5. QED BY <1>11, <2>1, <2>2, <2>3, <2>4
<1>14. ASSUME NEW q \in B
       PROVE  \E r \in A : q.edge = DstTo(s, l)[r.edge] /\ q.source = r.source /\ q.at = r.at
  <2>1. q \in A \union M /\ q.edge[2] # l
    BY <1>10, <1>11
  <2>2. QED BY <1>0, <1>1, <1>3, <2>1
<1>15. B \subseteq EdgeAssertion
  BY <1>4, <1>10, <1>11
<1>16. QED BY <1>12, <1>13, <1>14, <1>15 DEF EdgesFolded, B

LEMMA EdgeMoves ==
  ASSUME NEW s \in Ids, NEW l \in Ids, s # l, NEW e \in Edge
  PROVE  /\ SrcTo(s, l)[e] \in Edge /\ DstTo(s, l)[e] \in Edge /\ EdgeTo(s, l)[e] \in Edge
         /\ DstTo(s, l)[SrcTo(s, l)[e]] = EdgeTo(s, l)[e]
<1>1. PICK x \in Ids, y \in Ids, k \in Relations : e = <<x, y, k>>
  BY DEF Edge
<1>2. /\ SrcTo(s, l)[e] = <<To(x, s, l), y, k>> /\ SrcTo(s, l)[e] \in Edge
      /\ EdgeTo(s, l)[e] = <<To(x, s, l), To(y, s, l), k>>
      /\ DstTo(s, l)[e] = <<x, To(y, s, l), k>>
  BY <1>1 DEF SrcTo, DstTo, EdgeTo, To, SrcMoved, DstMoved, Edge
<1>3. To(x, s, l) \in Ids /\ To(y, s, l) \in Ids
  BY DEF To
<1>4. DstTo(s, l)[<<To(x, s, l), y, k>>] = <<To(x, s, l), To(y, s, l), k>>
  BY <1>3 DEF DstTo, To, DstMoved, Edge
<1>5. QED BY <1>2, <1>3, <1>4 DEF Edge

LEMMA FoldedEdges ==
  ASSUME NEW A \in SUBSET EdgeAssertion, NEW s \in Ids, NEW l \in Ids, s # l,
         \A r, q \in A : EdgeKey(r) = EdgeKey(q) => r = q
  PROVE  EdgesFolded(A, DstFolded(SrcFolded(A, s, l), s, l), EdgeTo(s, l))
<1> DEFINE C == SrcFolded(A, s, l)
           B == DstFolded(C, s, l)
<1>1. C \in SUBSET EdgeAssertion /\ EdgesFolded(A, C, SrcTo(s, l))
  BY FoldedSrc
<1> HIDE DEF C
<1>2. EdgesFolded(C, B, DstTo(s, l))
  <2>1. \A r, q \in C : EdgeKey(r) = EdgeKey(q) => r = q
    BY <1>1 DEF EdgesFolded
  <2>2. QED BY <1>1, <2>1, FoldedDst
<1>3. \A r \in A : DstTo(s, l)[SrcTo(s, l)[r.edge]] = EdgeTo(s, l)[r.edge]
  BY EdgeMoves DEF EdgeAssertion
<1>4. \A r \in A \union C \union B : r.edge \in Edge /\ r.at \in Nat
  <2>1. \A r, q \in C : EdgeKey(r) = EdgeKey(q) => r = q
    BY <1>1 DEF EdgesFolded
  <2>2. B \subseteq EdgeAssertion
    BY <1>1, <2>1, FoldedDst
  <2>3. QED BY <1>1, <2>2, StoreAssumption DEF EdgeAssertion
<1> HIDE DEF B
<1>5. ASSUME NEW r \in A
      PROVE  \E q \in B : q.edge = EdgeTo(s, l)[r.edge] /\ q.source = r.source /\ r.at <= q.at
  <2>1. PICK x \in C : x.edge = SrcTo(s, l)[r.edge] /\ x.source = r.source /\ r.at <= x.at
    BY <1>1 DEF EdgesFolded
  <2>2. PICK q \in B : q.edge = DstTo(s, l)[x.edge] /\ q.source = x.source /\ x.at <= q.at
    BY <1>2 DEF EdgesFolded
  <2>3. r.at <= q.at
    BY <1>4, <2>1, <2>2
  <2>4. QED BY <1>3, <2>1, <2>2, <2>3
<1>6. ASSUME NEW q \in B
      PROVE  \E r \in A : q.edge = EdgeTo(s, l)[r.edge] /\ q.source = r.source /\ q.at = r.at
  <2>1. PICK x \in C : q.edge = DstTo(s, l)[x.edge] /\ q.source = x.source /\ q.at = x.at
    BY <1>2 DEF EdgesFolded
  <2>2. PICK r \in A : x.edge = SrcTo(s, l)[r.edge] /\ x.source = r.source /\ x.at = r.at
    BY <1>1 DEF EdgesFolded
  <2>3. QED BY <1>3, <2>1, <2>2
<1>7. \A r, q \in B : EdgeKey(r) = EdgeKey(q) => r = q
  BY <1>2 DEF EdgesFolded
<1>8. QED BY <1>5, <1>6, <1>7 DEF EdgesFolded, B, C

LEMMA RepointedEdges ==
  ASSUME NEW E \in SUBSET Edge, NEW s \in Ids, NEW l \in Ids, s # l
  PROVE  DstRepointed(SrcRepointed(E, s, l), s, l) = {EdgeTo(s, l)[e] : e \in E}
<1>1. SrcRepointed(E, s, l) = {SrcTo(s, l)[e] : e \in E}
  BY DEF SrcRepointed, SrcTo
<1>2. \A F \in SUBSET Edge : DstRepointed(F, s, l) = {DstTo(s, l)[e] : e \in F}
  BY DEF DstRepointed, DstTo
<1>3. SrcRepointed(E, s, l) \in SUBSET Edge
  BY <1>1, EdgeMoves
<1>4. DstRepointed(SrcRepointed(E, s, l), s, l) = {DstTo(s, l)[SrcTo(s, l)[e]] : e \in E}
  BY <1>1, <1>2, <1>3
<1>5. \A e \in E : DstTo(s, l)[SrcTo(s, l)[e]] = EdgeTo(s, l)[e]
  BY EdgeMoves
<1>6. QED BY <1>4, <1>5
------------------------------------------------------------------------------
(* The maps that the tables stand for. *)

LEMMA NodeAssertionMapIs ==
  ASSUME NEW d, OneRowPerKey(d)
  PROVE  /\ DOMAIN NodeAssertionMap(d) = {NodeKey(r) : r \in d.node_assertion}
         /\ \A r \in d.node_assertion : NodeAssertionMap(d)[NodeKey(r)] = r.at
<1>1. DOMAIN NodeAssertionMap(d) = {NodeKey(r) : r \in d.node_assertion}
  BY DEF NodeAssertionMap
<1>2. ASSUME NEW r \in d.node_assertion
      PROVE  NodeAssertionMap(d)[NodeKey(r)] = r.at
  <2>1. NodeAssertionMap(d)[NodeKey(r)]
          = (CHOOSE q \in d.node_assertion : NodeKey(q) = NodeKey(r)).at
    BY DEF NodeAssertionMap
  <2>2. (CHOOSE q \in d.node_assertion : NodeKey(q) = NodeKey(r)) = r
    BY DEF OneRowPerKey
  <2>3. QED BY <2>1, <2>2
<1>3. QED BY <1>1, <1>2

EdgeMapOf(d) ==
  /\ DOMAIN EdgeMap(d) = d.edge
  /\ \A e \in d.edge :
       /\ EdgeMap(d)[e] = [p \in DOMAIN EdgeMap(d)[e] |-> EdgeMap(d)[e][p]]
       /\ DOMAIN EdgeMap(d)[e] = {r.source : r \in {q \in d.edge_assertion : q.edge = e}}
  /\ \A r \in d.edge_assertion : r.edge \in d.edge => EdgeMap(d)[r.edge][r.source] = r.at

LEMMA EdgeMapIs ==
  ASSUME NEW d, OneRowPerKey(d)
  PROVE  EdgeMapOf(d)
<1>1. DOMAIN EdgeMap(d) = d.edge
  BY DEF EdgeMap
<1>2. ASSUME NEW e \in d.edge
      PROVE  EdgeMap(d)[e] =
               [p \in {r.source : r \in {q \in d.edge_assertion : q.edge = e}} |->
                  (CHOOSE r \in d.edge_assertion : r.edge = e /\ r.source = p).at]
  BY DEF EdgeMap
<1>3. ASSUME NEW r \in d.edge_assertion, r.edge \in d.edge
      PROVE  EdgeMap(d)[r.edge][r.source] = r.at
  <2>0. r.source \in {q.source : q \in {x \in d.edge_assertion : x.edge = r.edge}}
    OBVIOUS
  <2>1. EdgeMap(d)[r.edge][r.source]
          = (CHOOSE q \in d.edge_assertion : q.edge = r.edge /\ q.source = r.source).at
    BY <1>2, <1>3, <2>0
  <2>2. (CHOOSE q \in d.edge_assertion : q.edge = r.edge /\ q.source = r.source) = r
    BY DEF OneRowPerKey, EdgeKey
  <2>3. QED BY <2>1, <2>2
<1>4. QED BY <1>1, <1>2, <1>3 DEF EdgeMapOf

LEMMA MergedAssertionMap ==
  ASSUME Tables(db), OneRowPerKey(db), NEW s \in Ids, NEW l \in Ids,
         NEW e, OneRowPerKey(e), NodesFolded(db.node_assertion, e.node_assertion, s, l)
  PROVE  NodeAssertionMap(e) = Mem!AssertionsMerged(s, l)
<1> DEFINE na == NodeAssertionMap(db)
           key(k) == <<Mem!Repoint(k[1], s, l), k[2]>>
           met(k) == {j \in DOMAIN na : key(j) = k}
           A == db.node_assertion
           B == e.node_assertion
<1>1. Mem!AssertionsMerged(s, l) =
        [k \in {key(j) : j \in DOMAIN na} |->
           na[CHOOSE j \in met(k) : \A i \in met(k) : na[i] <= na[j]]]
  BY DEF Mem!AssertionsMerged
<1>2. \A r \in A \union B : NodeKey(r)[1] = r.node /\ NodeKey(r)[2] = r.source
                            /\ key(NodeKey(r)) = <<To(r.node, s, l), r.source>>
                            /\ NodeKey(r) = <<r.node, r.source>>
  BY DEF NodeKey, Mem!Repoint, To
<1>3. /\ DOMAIN na = {NodeKey(r) : r \in A}
      /\ \A r \in A : na[NodeKey(r)] = r.at
      /\ \A r \in A : r.at \in Nat
  BY NodeAssertionMapIs, StoreAssumption DEF Tables, NodeAssertion
<1> HIDE DEF na, key
<1>4. {key(j) : j \in DOMAIN na} = {NodeKey(q) : q \in B}
  <2>1. \A r \in A : \E q \in B : key(NodeKey(r)) = NodeKey(q)
    BY <1>2 DEF NodesFolded
  <2>2. \A q \in B : \E r \in A : key(NodeKey(r)) = NodeKey(q)
    BY <1>2 DEF NodesFolded
  <2>3. QED BY <1>3, <2>1, <2>2
<1>5. ASSUME NEW q \in B
      PROVE  na[CHOOSE j \in met(NodeKey(q)) : \A i \in met(NodeKey(q)) : na[i] <= na[j]] = q.at
  <2> DEFINE k == NodeKey(q)
             pick == CHOOSE j \in met(k) : \A i \in met(k) : na[i] <= na[j]
  <2>1. PICK r \in A : q.node = To(r.node, s, l) /\ q.source = r.source /\ q.at = r.at
    BY DEF NodesFolded
  <2>2. NodeKey(r) \in met(k) /\ na[NodeKey(r)] = q.at
    BY <1>2, <1>3, <2>1
  <2>3. ASSUME NEW i \in met(k)
        PROVE  na[i] \in Nat /\ na[i] <= q.at
    <3>1. PICK x \in A : i = NodeKey(x)
      BY <1>3
    <3>2. PICK y \in B : y.node = To(x.node, s, l) /\ y.source = x.source /\ x.at <= y.at
      BY DEF NodesFolded
    <3>3. NodeKey(y) = NodeKey(q)
      BY <1>2, <3>1, <3>2
    <3>4. y = q
      BY <3>3 DEF NodesFolded
    <3>5. QED BY <1>3, <3>1, <3>2, <3>4
  <2>4. pick \in met(k) /\ \A i \in met(k) : na[i] <= na[pick]
    BY <2>2, <2>3
  <2>5. na[pick] <= q.at /\ q.at <= na[pick] /\ na[pick] \in Nat /\ q.at \in Nat
    BY <2>2, <2>3, <2>4
  <2> HIDE DEF pick
  <2>6. na[pick] = q.at
    BY <2>5
  <2>7. QED BY <2>6 DEF pick
<1>6. NodeAssertionMap(e) = [k \in {NodeKey(q) : q \in B} |-> NodeAssertionMap(e)[k]]
  BY NodeAssertionMapIs DEF NodeAssertionMap
<1>7. \A q \in B : NodeAssertionMap(e)[NodeKey(q)] = q.at
  BY NodeAssertionMapIs
<1> HIDE DEF met, B
<1>8. QED BY <1>1, <1>4, <1>5, <1>6, <1>7

LEMMA MergedEdgeMap ==
  ASSUME Tables(db), OneRowPerKey(db), ForeignKeys(db), NEW s \in Ids, NEW l \in Ids,
         NEW e, OneRowPerKey(e), e.edge = {EdgeTo(s, l)[x] : x \in db.edge},
         EdgesFolded(db.edge_assertion, e.edge_assertion, EdgeTo(s, l))
  PROVE  EdgeMap(e) = Mem!EdgesMerged(s, l)
<1> DEFINE edges == EdgeMap(db)
           key(x) == <<Mem!Repoint(x[1], s, l), Mem!Repoint(x[2], s, l), x[3]>>
           met(k) == {x \in DOMAIN edges : key(x) = k}
           ps(k) == UNION {DOMAIN edges[x] : x \in met(k)}
           by(k, p) == {x \in met(k) : p \in DOMAIN edges[x]}
           best(k, p) == CHOOSE x \in by(k, p) : \A y \in by(k, p) : edges[y][p] <= edges[x][p]
           A == db.edge_assertion
           B == e.edge_assertion
<1>1. Mem!EdgesMerged(s, l) =
        [k \in {key(x) : x \in DOMAIN edges} |-> [p \in ps(k) |-> edges[best(k, p)][p]]]
  BY DEF Mem!EdgesMerged
<1>2. \A x \in Edge : key(x) = EdgeTo(s, l)[x]
  BY DEF EdgeTo, Mem!Repoint, To
<1>3. /\ DOMAIN edges = db.edge /\ db.edge \subseteq Edge
      /\ \A r \in A : /\ r.edge \in DOMAIN edges /\ r.source \in DOMAIN edges[r.edge]
                      /\ edges[r.edge][r.source] = r.at /\ r.at \in Nat
      /\ \A x \in DOMAIN edges : \A p \in DOMAIN edges[x] :
           \E r \in A : r.edge = x /\ r.source = p
  <2>1. \A r \in A : r.edge \in db.edge /\ r.at \in Nat
    BY StoreAssumption DEF ForeignKeys, Tables, EdgeAssertion
  <2>2. db.edge \subseteq Edge
    BY DEF Tables
  <2>3. /\ DOMAIN edges = db.edge
        /\ \A x \in db.edge : DOMAIN edges[x] = {r.source : r \in {q \in A : q.edge = x}}
        /\ \A r \in A : r.edge \in db.edge => edges[r.edge][r.source] = r.at
    <3>1. EdgeMapOf(db)
      BY EdgeMapIs
    <3>2. QED BY <3>1 DEF EdgeMapOf
  <2> HIDE DEF edges
  <2>4. QED BY <2>1, <2>2, <2>3
<1> HIDE DEF edges, key
<1>4. {key(x) : x \in DOMAIN edges} = e.edge
  BY <1>2, <1>3
<1>5. ASSUME NEW k \in e.edge
      PROVE  ps(k) = {q.source : q \in {r \in B : r.edge = k}}
  <2>1. ASSUME NEW p \in ps(k) PROVE \E q \in B : q.edge = k /\ q.source = p
    <3>1. PICK x \in met(k) : p \in DOMAIN edges[x]
      OBVIOUS
    <3>2. PICK r \in A : r.edge = x /\ r.source = p
      BY <1>3, <3>1
    <3>3. EdgeTo(s, l)[r.edge] = k
      BY <1>2, <1>3, <3>1, <3>2
    <3>4. QED BY <3>2, <3>3 DEF EdgesFolded
  <2>2. ASSUME NEW q \in B, q.edge = k PROVE q.source \in ps(k)
    <3>1. PICK r \in A : q.edge = EdgeTo(s, l)[r.edge] /\ q.source = r.source
      BY DEF EdgesFolded
    <3>2. r.edge \in met(k) /\ q.source \in DOMAIN edges[r.edge]
      BY <1>2, <1>3, <2>2, <3>1
    <3>3. QED BY <3>2
  <2> HIDE DEF ps
  <2>3. QED BY <2>1, <2>2
<1>6. ASSUME NEW q \in B, q.edge \in e.edge
      PROVE  edges[best(q.edge, q.source)][q.source] = q.at
  <2> DEFINE k == q.edge
             p == q.source
             pick == best(k, p)
             at(x) == edges[x][p]
  <2>1. PICK r \in A : q.edge = EdgeTo(s, l)[r.edge] /\ q.source = r.source /\ q.at = r.at
    BY DEF EdgesFolded
  <2>2. r.edge \in by(k, p) /\ at(r.edge) = q.at /\ q.at \in Nat
    BY <1>2, <1>3, <2>1
  <2>3. ASSUME NEW x \in by(k, p)
        PROVE  at(x) \in Nat /\ at(x) <= q.at
    <3>1. PICK z \in A : z.edge = x /\ z.source = p
      BY <1>3
    <3>2. EdgeTo(s, l)[z.edge] = k
      BY <1>2, <1>3, <3>1
    <3>3. PICK y \in B : y.edge = EdgeTo(s, l)[z.edge] /\ y.source = z.source /\ z.at <= y.at
      BY DEF EdgesFolded
    <3>4. y = q
      BY <3>1, <3>2, <3>3 DEF EdgesFolded, EdgeKey
    <3>5. at(x) = z.at /\ z.at \in Nat
      BY <1>3, <3>1
    <3>6. QED BY <3>3, <3>4, <3>5
  <2>4. pick \in by(k, p) /\ \A x \in by(k, p) : at(x) <= at(pick)
    BY <2>2, <2>3
  <2> HIDE DEF pick, at
  <2>5. at(pick) = q.at
    BY <2>2, <2>3, <2>4
  <2>6. QED BY <2>5 DEF pick, at
<1>7. /\ EdgeMap(e) = [k \in e.edge |-> EdgeMap(e)[k]]
      /\ \A k \in e.edge :
           /\ EdgeMap(e)[k] = [p \in DOMAIN EdgeMap(e)[k] |-> EdgeMap(e)[k][p]]
           /\ DOMAIN EdgeMap(e)[k] = {q.source : q \in {r \in B : r.edge = k}}
      /\ \A q \in B : q.edge \in e.edge => EdgeMap(e)[q.edge][q.source] = q.at
  <2>1. EdgeMap(e) = [k \in e.edge |-> EdgeMap(e)[k]]
    BY DEF EdgeMap
  <2>2. EdgeMapOf(e)
    BY EdgeMapIs
  <2>3. QED BY <2>1, <2>2 DEF EdgeMapOf
<1> HIDE DEF ps, best, B
<1>8. ASSUME NEW k \in e.edge
      PROVE  EdgeMap(e)[k] = [p \in ps(k) |-> edges[best(k, p)][p]]
  <2>1. DOMAIN EdgeMap(e)[k] = ps(k)
    BY <1>5, <1>7
  <2>2. \A p \in ps(k) : EdgeMap(e)[k][p] = edges[best(k, p)][p]
    BY <1>5, <1>6, <1>7
  <2>3. QED BY <1>7, <2>1, <2>2
<1>9. QED BY <1>1, <1>4, <1>7, <1>8

(* The rows of n in that role, with those that only the maps keep. *)
RoleRows(d, n, role) == {a \in d.artifacts \union d.lost : a.node = n /\ a.role = role}

LEMMA RowsOfIs ==
  ASSUME Tables(db), LostAreOld(db), NEW n, NEW role
  PROVE  /\ Mem!RowsOf(n, role) = {Shown(a) : a \in RoleRows(db, n, role)}
         /\ <<n, role>> \notin DOMAIN ArtifactMap(db) => RoleRows(db, n, role) = {}
         /\ <<n, role>> \in DOMAIN ArtifactMap(db) =>
              ArtifactMap(db)[<<n, role>>] = {Shown(a) : a \in RoleRows(db, n, role)}
         /\ <<n, role>> \in DOMAIN ArtifactMap(db) <=>
              \E a \in db.artifacts : a.node = n /\ a.role = role
<1>1. DOMAIN ArtifactMap(db) = {<<a.node, a.role>> : a \in db.artifacts}
  BY DEF ArtifactMap
<1>2. <<n, role>> \in DOMAIN ArtifactMap(db) <=>
        \E a \in db.artifacts : a.node = n /\ a.role = role
  BY <1>1
<1>3. ASSUME <<n, role>> \notin DOMAIN ArtifactMap(db)
      PROVE  RoleRows(db, n, role) = {}
  <2>1. \A a \in db.artifacts : ~(a.node = n /\ a.role = role)
    BY <1>2, <1>3
  <2>2. \A a \in db.lost : \E b \in db.artifacts : b.node = a.node /\ b.role = a.role
    BY DEF LostAreOld, ArtifactKey
  <2>3. QED BY <2>1, <2>2 DEF RoleRows
<1>4. ASSUME <<n, role>> \in DOMAIN ArtifactMap(db)
      PROVE  ArtifactMap(db)[<<n, role>>] = {Shown(a) : a \in RoleRows(db, n, role)}
  <2>1. ArtifactMap(db)[<<n, role>>] =
          {Shown(a) : a \in {b \in db.artifacts \union db.lost : <<b.node, b.role>> = <<n, role>>}}
    BY <1>1, <1>4 DEF ArtifactMap
  <2>2. {b \in db.artifacts \union db.lost : <<b.node, b.role>> = <<n, role>>}
          = RoleRows(db, n, role)
    BY DEF RoleRows
  <2>3. QED BY <2>1, <2>2
<1>5. Mem!RowsOf(n, role) = {Shown(a) : a \in RoleRows(db, n, role)}
  <2>1. CASE <<n, role>> \in DOMAIN ArtifactMap(db)
    BY <1>4, <2>1 DEF Mem!RowsOf
  <2>2. CASE <<n, role>> \notin DOMAIN ArtifactMap(db)
    BY <1>3, <2>2 DEF Mem!RowsOf
  <2>3. QED BY <2>1, <2>2
<1>6. QED BY <1>2, <1>3, <1>4, <1>5

ShownIs(a, s) ==
  /\ Shown([a EXCEPT !.node = s]) = Shown(a)
  /\ Shown([a EXCEPT !.current = FALSE]) = [Shown(a) EXCEPT !.current = FALSE]
  /\ ~a.current => /\ [Shown(a) EXCEPT !.current = FALSE] = Shown(a)
                   /\ [a EXCEPT !.current = FALSE] = a
  /\ /\ [a EXCEPT !.node = s].node = s /\ [a EXCEPT !.node = s].role = a.role
     /\ [a EXCEPT !.node = s].version = a.version
     /\ [a EXCEPT !.node = s].current = a.current
  /\ /\ [a EXCEPT !.current = FALSE].node = a.node
     /\ [a EXCEPT !.current = FALSE].role = a.role
     /\ [a EXCEPT !.current = FALSE].version = a.version
     /\ [a EXCEPT !.current = FALSE].current = FALSE

LEMMA ShownRow ==
  ASSUME NEW a \in Artifact, NEW s
  PROVE  ShownIs(a, s)
<1>1. /\ [a EXCEPT !.node = s].node = s /\ [a EXCEPT !.node = s].role = a.role
      /\ [a EXCEPT !.node = s].version = a.version
      /\ [a EXCEPT !.node = s].current = a.current
      /\ [a EXCEPT !.node = s].key = a.key
  BY DEF Artifact
<1>2. /\ [a EXCEPT !.current = FALSE].node = a.node
      /\ [a EXCEPT !.current = FALSE].role = a.role
      /\ [a EXCEPT !.current = FALSE].version = a.version
      /\ [a EXCEPT !.current = FALSE].current = FALSE
      /\ [a EXCEPT !.current = FALSE].key = a.key
  BY DEF Artifact
<1>3. Shown([a EXCEPT !.node = s]) = Shown(a)
  BY <1>1 DEF Shown
<1>4. [Shown(a) EXCEPT !.current = FALSE]
        = [version |-> a.version, current |-> FALSE, key |-> a.key]
  <2> DEFINE p == Shown(a)
             x == [p EXCEPT !.current = FALSE]
             y == [version |-> a.version, current |-> FALSE, key |-> a.key]
             R == [version : 1 .. MaxCalls, current : BOOLEAN,
                   key : Ids \X Roles \X (1 .. MaxCalls)]
  <2>1. p \in R /\ y \in R
    BY DEF Shown, Artifact
  <2>2. p.version = a.version /\ p.key = a.key
    BY DEF Shown
  <2> HIDE DEF p
  <2>3. x \in R /\ x.version = p.version /\ x.current = FALSE /\ x.key = p.key
    BY <2>1
  <2>4. x.version = y.version /\ x.current = y.current /\ x.key = y.key
    BY <2>2, <2>3
  <2> HIDE DEF x, y
  <2>5. x = y
    BY <2>1, <2>3, <2>4
  <2>6. QED BY <2>5 DEF x, y, p
<1>5. Shown([a EXCEPT !.current = FALSE])
        = [version |-> a.version, current |-> FALSE, key |-> a.key]
  BY <1>2 DEF Shown
<1>6. ASSUME ~a.current
      PROVE  [Shown(a) EXCEPT !.current = FALSE] = Shown(a) /\ [a EXCEPT !.current = FALSE] = a
  <2>1. a.current = FALSE
    BY <1>6 DEF Artifact
  <2>2. [a EXCEPT !.current = FALSE] = a
    BY <2>1 DEF Artifact
  <2>3. QED BY <1>4, <2>1, <2>2 DEF Shown
<1>7. QED BY <1>1, <1>2, <1>3, <1>4, <1>5, <1>6 DEF ShownIs

(* The row a of the loser, when the survivor has a current version or not. *)
CurrentOf(d, s, role) == \E b \in d.artifacts : b.node = s /\ b.role = role /\ b.current
Passed(d, a, s) == IF CurrentOf(d, s, a.role) THEN [a EXCEPT !.current = FALSE] ELSE a

MergedRows(d, e, s, l) ==
  /\ \A x \in e.artifacts \union e.lost :
       \/ x \in d.artifacts \union d.lost /\ x.node # l
       \/ \E a \in d.artifacts : a.node = l /\ x = [Passed(d, a, s) EXCEPT !.node = s]
       \/ \E a \in d.lost : a.node = l /\ x = [a EXCEPT !.node = s]
  /\ \A x \in d.artifacts : x.node # l => x \in e.artifacts
  /\ \A x \in d.lost : x.node # l => x \in e.lost
  /\ \A x \in d.lost : x.node = l => [x EXCEPT !.node = s] \in e.lost
  /\ \A a \in d.artifacts : a.node = l =>
       LET x == [Passed(d, a, s) EXCEPT !.node = s]
           taken == \E b \in d.artifacts : ArtifactKey(b) = <<s, a.role, a.version>>
       IN (taken => x \in e.lost) /\ (~taken => x \in e.artifacts)
  /\ \A x \in e.artifacts :
       \/ x \in d.artifacts /\ x.node # l
       \/ \E a \in d.artifacts :
            /\ a.node = l /\ x = [Passed(d, a, s) EXCEPT !.node = s]
            /\ ~\E b \in d.artifacts : ArtifactKey(b) = <<s, a.role, a.version>>
  /\ \A x \in e.lost :
       \/ x \in d.lost /\ x.node # l
       \/ \E a \in d.lost : a.node = l /\ x = [a EXCEPT !.node = s]
       \/ \E a \in d.artifacts :
            /\ a.node = l /\ x = [Passed(d, a, s) EXCEPT !.node = s]
            /\ \E b \in d.artifacts : ArtifactKey(b) = <<s, a.role, a.version>>

PassedIs(d, a, s) ==
  /\ Passed(d, a, s) \in Artifact
  /\ Passed(d, a, s).node = a.node /\ Passed(d, a, s).role = a.role
  /\ Passed(d, a, s).version = a.version
  /\ Passed(d, a, s).current <=> a.current /\ ~CurrentOf(d, s, a.role)
  /\ ArtifactKey([Passed(d, a, s) EXCEPT !.node = s]) = <<s, a.role, a.version>>
  /\ ShownIs(Passed(d, a, s), s)
  /\ [Passed(d, a, s) EXCEPT !.node = s].node = s
  /\ [Passed(d, a, s) EXCEPT !.node = s].role = a.role
  /\ [Passed(d, a, s) EXCEPT !.node = s].version = a.version
  /\ Shown([Passed(d, a, s) EXCEPT !.node = s])
       = IF CurrentOf(d, s, a.role) THEN [Shown(a) EXCEPT !.current = FALSE] ELSE Shown(a)

LEMMA PassedRow ==
  ASSUME NEW d, NEW a \in Artifact, NEW s
  PROVE  PassedIs(d, a, s)
<1>0. ShownIs(a, s)
  BY ShownRow
<1>1. Passed(d, a, s) \in Artifact
  BY ArtifactRow DEF Passed
<1>2. /\ Passed(d, a, s).node = a.node /\ Passed(d, a, s).role = a.role
      /\ Passed(d, a, s).version = a.version
  BY <1>0 DEF Passed, ShownIs
<1>3. Passed(d, a, s).current <=> a.current /\ ~CurrentOf(d, s, a.role)
  <2>1. CASE CurrentOf(d, s, a.role)
    BY <1>0, <2>1 DEF Passed, ShownIs
  <2>2. CASE ~CurrentOf(d, s, a.role)
    BY <2>2 DEF Passed
  <2>3. QED BY <2>1, <2>2
<1>4. ShownIs(Passed(d, a, s), s)
  BY <1>1, ShownRow
<1>5. ArtifactKey([Passed(d, a, s) EXCEPT !.node = s]) = <<s, a.role, a.version>>
  BY <1>2, <1>4 DEF ArtifactKey, ShownIs
<1>6. Shown([Passed(d, a, s) EXCEPT !.node = s]) = Shown(Passed(d, a, s))
  BY <1>4 DEF ShownIs
<1>7. Shown(Passed(d, a, s))
        = IF CurrentOf(d, s, a.role) THEN [Shown(a) EXCEPT !.current = FALSE] ELSE Shown(a)
  BY <1>0 DEF Passed, ShownIs
<1>8. /\ [Passed(d, a, s) EXCEPT !.node = s].node = s
      /\ [Passed(d, a, s) EXCEPT !.node = s].role = a.role
      /\ [Passed(d, a, s) EXCEPT !.node = s].version = a.version
  BY <1>2, <1>4 DEF ShownIs
<1>9. QED BY <1>1, <1>2, <1>3, <1>4, <1>5, <1>6, <1>7, <1>8 DEF PassedIs

LEMMA MergedArtifacts ==
  ASSUME NEW d, Tables(d), NEW s \in Ids, NEW l \in Ids, s # l, NEW e, MergeMade(d, e, s, l)
  PROVE  MergedRows(d, e, s, l)
<1> DEFINE D == Demoted(d.artifacts, s, l)
           new == RowsMoved(D, s, l)
<1>1. \A x \in D : \/ x \in d.artifacts /\ x.node # l
                   \/ \E a \in d.artifacts : a.node = l /\ x = Passed(d, a, s)
  BY DEF Demoted, Passed, CurrentOf
<1>2. \A a \in d.artifacts : (a.node # l => a \in D) /\ (a.node = l => Passed(d, a, s) \in D)
  BY DEF Demoted, Passed, CurrentOf
<1>3. \A a \in d.artifacts \union d.lost : a \in Artifact /\ PassedIs(d, a, s)
  BY PassedRow DEF Tables
<1>4. \A x \in new : \E a \in d.artifacts : a.node = l /\ x = [Passed(d, a, s) EXCEPT !.node = s]
  BY <1>1 DEF RowsMoved
<1>5. \A a \in d.artifacts : a.node = l => [Passed(d, a, s) EXCEPT !.node = s] \in new
  BY <1>2, <1>3 DEF RowsMoved, PassedIs
<1>6. \A a \in d.artifacts : a.node = l =>
        /\ Taken(D, [Passed(d, a, s) EXCEPT !.node = s]) <=>
             \E b \in d.artifacts : ArtifactKey(b) = <<s, a.role, a.version>>
        /\ [Passed(d, a, s) EXCEPT !.node = s].node = s
  <2> SUFFICES ASSUME NEW a \in d.artifacts, a.node = l
               PROVE /\ Taken(D, [Passed(d, a, s) EXCEPT !.node = s]) <=>
                          \E b \in d.artifacts : ArtifactKey(b) = <<s, a.role, a.version>>
                     /\ [Passed(d, a, s) EXCEPT !.node = s].node = s
    OBVIOUS
  <2>1. ArtifactKey([Passed(d, a, s) EXCEPT !.node = s]) = <<s, a.role, a.version>>
    BY <1>3 DEF PassedIs
  <2>2. ASSUME NEW x \in D, ArtifactKey(x) = <<s, a.role, a.version>>
        PROVE  x \in d.artifacts
    <3>1. ASSUME NEW b \in d.artifacts, b.node = l, x = Passed(d, b, s) PROVE FALSE
      <4>1. x.node = l
        BY <1>3, <3>1 DEF PassedIs
      <4>2. QED BY <2>2, <4>1 DEF ArtifactKey
    <3>2. QED BY <1>1, <3>1
  <2>3. ASSUME NEW x \in d.artifacts, ArtifactKey(x) = <<s, a.role, a.version>>
        PROVE  x \in D
    BY <1>2, <2>3 DEF ArtifactKey
  <2>4. [Passed(d, a, s) EXCEPT !.node = s].node = s
    BY <1>3 DEF PassedIs, ShownIs
  <2>5. QED BY <2>1, <2>2, <2>3, <2>4 DEF Taken
<1>7. /\ e.artifacts = {a \in D \union {q \in new : ~Taken(D, q)} : a.node # l}
      /\ e.lost = {a \in d.lost : a.node # l} \union RowsMoved(d.lost, s, l)
                    \union {q \in new : Taken(D, q)}
  BY DEF MergeMade
<1>8. \A x : x \in RowsMoved(d.lost, s, l) <=>
               \E a \in d.lost : a.node = l /\ x = [a EXCEPT !.node = s]
  BY DEF RowsMoved
<1>9. \A x \in D : x.node # l => x \in d.artifacts
  BY <1>1, <1>3 DEF PassedIs
<1> HIDE DEF D, new
<1>10. \A x \in e.artifacts :
         \/ x \in d.artifacts /\ x.node # l
         \/ \E a \in d.artifacts :
              /\ a.node = l /\ x = [Passed(d, a, s) EXCEPT !.node = s]
              /\ ~\E b \in d.artifacts : ArtifactKey(b) = <<s, a.role, a.version>>
  BY <1>4, <1>6, <1>7, <1>9
<1>11. \A x \in e.lost :
         \/ x \in d.lost /\ x.node # l
         \/ \E a \in d.lost : a.node = l /\ x = [a EXCEPT !.node = s]
         \/ \E a \in d.artifacts :
              /\ a.node = l /\ x = [Passed(d, a, s) EXCEPT !.node = s]
              /\ \E b \in d.artifacts : ArtifactKey(b) = <<s, a.role, a.version>>
  BY <1>4, <1>6, <1>7, <1>8
<1>12. /\ \A x \in d.artifacts : x.node # l => x \in e.artifacts
       /\ \A x \in d.lost : x.node # l => x \in e.lost
       /\ \A x \in d.lost : x.node = l => [x EXCEPT !.node = s] \in e.lost
  BY <1>2, <1>7, <1>8
<1>13. \A a \in d.artifacts : a.node = l =>
         LET x == [Passed(d, a, s) EXCEPT !.node = s]
             taken == \E b \in d.artifacts : ArtifactKey(b) = <<s, a.role, a.version>>
         IN (taken => x \in e.lost) /\ (~taken => x \in e.artifacts)
  BY <1>5, <1>6, <1>7
<1>14. \A x \in e.artifacts \union e.lost :
         \/ x \in d.artifacts \union d.lost /\ x.node # l
         \/ \E a \in d.artifacts : a.node = l /\ x = [Passed(d, a, s) EXCEPT !.node = s]
         \/ \E a \in d.lost : a.node = l /\ x = [a EXCEPT !.node = s]
  BY <1>10, <1>11
<1>15. QED BY <1>10, <1>11, <1>12, <1>13, <1>14 DEF MergedRows

LEMMA MergedArtifactMap ==
  ASSUME Tables(db), CurrentThere(db), LostAreOld(db), NEW s \in Ids, NEW l \in Ids, s # l,
         NEW e, MergeMade(db, e, s, l)
  PROVE  ArtifactMap(e) = Mem!ArtifactsMerged(s, l)
<1> DEFINE artifacts == ArtifactMap(db)
           keys == {<<Mem!Repoint(j[1], s, l), j[2]>> : j \in DOMAIN artifacts}
           joined(role) ==
             Mem!RowsOf(s, role) \union
               IF \E a \in Mem!RowsOf(s, role) : a.current THEN Mem!Demoted(Mem!RowsOf(l, role))
               ELSE Mem!RowsOf(l, role)
           A == db.artifacts
           L == db.lost
<1>1. Mem!ArtifactsMerged(s, l) =
        [k \in keys |-> IF k[1] # s THEN artifacts[k] ELSE joined(k[2])]
  BY DEF Mem!ArtifactsMerged
<1>2. /\ \A a \in A \union L : a \in Artifact /\ ShownIs(a, s) /\ PassedIs(db, a, s)
      /\ MergedRows(db, e, s, l)
  BY ShownRow, PassedRow, MergedArtifacts DEF Tables
<1>3. DOMAIN artifacts = {<<a.node, a.role>> : a \in A}
  BY DEF ArtifactMap
<1>4. \A x : x \in keys <=> \E a \in A : x = <<To(a.node, s, l), a.role>>
  <2>1. \A j : Mem!Repoint(j, s, l) = To(j, s, l)
    BY DEF Mem!Repoint, To
  <2>2. \A a \in A : <<a.node, a.role>>[1] = a.node /\ <<a.node, a.role>>[2] = a.role
    OBVIOUS
  <2> HIDE DEF artifacts
  <2>3. ASSUME NEW x \in keys PROVE \E a \in A : x = <<To(a.node, s, l), a.role>>
    <3>1. PICK j \in DOMAIN artifacts : x = <<Mem!Repoint(j[1], s, l), j[2]>>
      OBVIOUS
    <3>2. PICK a \in A : j = <<a.node, a.role>>
      BY <1>3
    <3>3. QED BY <2>1, <2>2, <3>1, <3>2
  <2>4. ASSUME NEW a \in A PROVE <<To(a.node, s, l), a.role>> \in keys
    <3>1. <<a.node, a.role>> \in DOMAIN artifacts
      BY <1>3
    <3>2. <<Mem!Repoint(<<a.node, a.role>>[1], s, l), <<a.node, a.role>>[2]>> \in keys
      BY <3>1
    <3>3. QED BY <2>1, <2>2, <3>2
  <2> HIDE DEF keys
  <2>5. QED BY <2>3, <2>4
<1> HIDE DEF keys
<1>5. \A x : (\E a \in e.artifacts : x = <<a.node, a.role>>) <=> x \in keys
  <2>1. ASSUME NEW a \in e.artifacts
        PROVE  \E b \in A : To(b.node, s, l) = a.node /\ b.role = a.role
    <3>1. CASE a \in A /\ a.node # l
      BY <3>1 DEF To
    <3>2. ASSUME NEW b \in A, b.node = l, a = [Passed(db, b, s) EXCEPT !.node = s]
          PROVE  To(b.node, s, l) = a.node /\ b.role = a.role
      <4>1. PassedIs(db, b, s)
        BY <1>2
      <4>2. QED BY <3>2, <4>1 DEF To, PassedIs
    <3>3. QED BY <1>2, <3>1, <3>2 DEF MergedRows
  <2>2. ASSUME NEW b \in A
        PROVE  \E a \in e.artifacts : a.node = To(b.node, s, l) /\ a.role = b.role
    <3>1. CASE b.node # l
      BY <1>2, <3>1 DEF To, MergedRows
    <3>2. CASE b.node = l
      <4> DEFINE x == [Passed(db, b, s) EXCEPT !.node = s]
      <4>1. x.node = s /\ x.role = b.role
        <5>1. PassedIs(db, b, s)
          BY <1>2
        <5>2. QED BY <5>1 DEF PassedIs
      <4>2. CASE x \in e.artifacts
        BY <3>2, <4>1, <4>2 DEF To
      <4>3. CASE x \notin e.artifacts
        <5>1. PICK c \in A : ArtifactKey(c) = <<s, b.role, b.version>>
          BY <1>2, <3>2, <4>3 DEF MergedRows
        <5>2. c.node = s /\ c.role = b.role
          BY <5>1 DEF ArtifactKey
        <5>3. c \in e.artifacts
          BY <1>2, <5>2 DEF MergedRows
        <5>4. QED BY <3>2, <5>2, <5>3 DEF To
      <4>4. QED BY <4>2, <4>3
    <3>3. QED BY <3>1, <3>2
  <2>3. QED BY <1>4, <2>1, <2>2
<1> DEFINE rows(n, role) == RoleRows(e, n, role)
<1>6. \A k \in keys : /\ k = <<k[1], k[2]>>
                      /\ ArtifactMap(e)[k] = {Shown(a) : a \in rows(k[1], k[2])}
  <2> SUFFICES ASSUME NEW k \in keys
               PROVE  /\ k = <<k[1], k[2]>>
                      /\ ArtifactMap(e)[k] = {Shown(a) : a \in rows(k[1], k[2])}
    OBVIOUS
  <2>1. k = <<k[1], k[2]>> /\ k \in {<<a.node, a.role>> : a \in e.artifacts}
    BY <1>4, <1>5
  <2>2. ArtifactMap(e)[k] =
          {Shown(a) : a \in {b \in e.artifacts \union e.lost : <<b.node, b.role>> = k}}
    BY <2>1 DEF ArtifactMap
  <2>3. {b \in e.artifacts \union e.lost : <<b.node, b.role>> = k} = rows(k[1], k[2])
    BY <2>1 DEF RoleRows
  <2>4. QED BY <2>1, <2>2, <2>3
<1>7. ASSUME NEW k \in keys, k[1] # s
      PROVE  ArtifactMap(e)[k] = artifacts[k]
  <2>1. k[1] # l /\ k \in DOMAIN artifacts
    BY <1>3, <1>4, <1>7 DEF To
  <2>2. rows(k[1], k[2]) = RoleRows(db, k[1], k[2])
    <3>1. ASSUME NEW x \in rows(k[1], k[2]) PROVE x \in RoleRows(db, k[1], k[2])
      <4>1. x \in e.artifacts \union e.lost /\ x.node # s /\ x.node = k[1] /\ x.role = k[2]
        BY <1>7 DEF RoleRows
      <4>2. ASSUME NEW a \in A, x = [Passed(db, a, s) EXCEPT !.node = s] PROVE FALSE
        BY <1>2, <4>1, <4>2 DEF PassedIs, ShownIs
      <4>3. ASSUME NEW a \in L, x = [a EXCEPT !.node = s] PROVE FALSE
        BY <1>2, <4>1, <4>3 DEF ShownIs
      <4>4. x \in A \union L
        BY <1>2, <4>1, <4>2, <4>3 DEF MergedRows
      <4>5. QED BY <4>1, <4>4 DEF RoleRows
    <3>2. ASSUME NEW x \in RoleRows(db, k[1], k[2]) PROVE x \in rows(k[1], k[2])
      BY <1>2, <2>1 DEF RoleRows, MergedRows
    <3>3. QED BY <3>1, <3>2
  <2>3. <<k[1], k[2]>> \in DOMAIN ArtifactMap(db)
    BY <1>6, <2>1
  <2>4. ArtifactMap(db)[<<k[1], k[2]>>] = {Shown(a) : a \in RoleRows(db, k[1], k[2])}
    BY <2>3, RowsOfIs
  <2>5. QED BY <1>6, <2>2, <2>4
<1>8. ASSUME NEW role, <<s, role>> \in keys
      PROVE  ArtifactMap(e)[<<s, role>>] = joined(role)
  <2> DEFINE S == {Shown(a) : a \in RoleRows(db, s, role)}
             T == {Shown(a) : a \in RoleRows(db, l, role)}
             X == {Shown(a) : a \in rows(s, role)}
  <2>1. Mem!RowsOf(s, role) = S /\ Mem!RowsOf(l, role) = T
    BY RowsOfIs
  <2>2. (\E a \in S : a.current) <=> CurrentOf(db, s, role)
    <3>1. \A a : Shown(a).current = a.current
      BY DEF Shown
    <3>2. QED BY <3>1 DEF CurrentOf, RoleRows, LostAreOld
  <2>0. /\ \A a \in A : /\ [Passed(db, a, s) EXCEPT !.node = s].node = s
                        /\ [Passed(db, a, s) EXCEPT !.node = s].role = a.role
        /\ \A a \in L : /\ [a EXCEPT !.node = s].node = s
                        /\ [a EXCEPT !.node = s].role = a.role
    BY <1>2 DEF PassedIs, ShownIs
  <2>3. \A x \in rows(s, role) :
          \/ x \in RoleRows(db, s, role)
          \/ \E a \in A : a.node = l /\ a.role = role /\ x = [Passed(db, a, s) EXCEPT !.node = s]
          \/ \E a \in L : a.node = l /\ a.role = role /\ x = [a EXCEPT !.node = s]
    <3> SUFFICES ASSUME NEW x \in rows(s, role)
                 PROVE
          \/ x \in RoleRows(db, s, role)
          \/ \E a \in A : a.node = l /\ a.role = role /\ x = [Passed(db, a, s) EXCEPT !.node = s]
          \/ \E a \in L : a.node = l /\ a.role = role /\ x = [a EXCEPT !.node = s]
      OBVIOUS
    <3>1. x \in e.artifacts \union e.lost /\ x.node = s /\ x.role = role
      BY DEF RoleRows
    <3>2. CASE x \in A \union L
      BY <3>1, <3>2 DEF RoleRows
    <3>3. ASSUME NEW a \in A, a.node = l, x = [Passed(db, a, s) EXCEPT !.node = s]
          PROVE  a.role = role
      BY <2>0, <3>1, <3>3
    <3>4. ASSUME NEW a \in L, a.node = l, x = [a EXCEPT !.node = s]
          PROVE  a.role = role
      BY <2>0, <3>1, <3>4
    <3>5. \/ x \in A \union L
          \/ \E a \in A : a.node = l /\ x = [Passed(db, a, s) EXCEPT !.node = s]
          \/ \E a \in L : a.node = l /\ x = [a EXCEPT !.node = s]
      BY <1>2, <3>1 DEF MergedRows
    <3> HIDE DEF rows
    <3>6. QED BY <3>2, <3>3, <3>4, <3>5
  <2>4. \A x \in RoleRows(db, s, role) : x \in rows(s, role)
    BY <1>2 DEF RoleRows, MergedRows
  <2>5. \A a \in A :
          a.node = l /\ a.role = role => [Passed(db, a, s) EXCEPT !.node = s] \in rows(s, role)
    BY <1>2, <2>0 DEF RoleRows, MergedRows
  <2>6. \A a \in L : a.node = l /\ a.role = role => [a EXCEPT !.node = s] \in rows(s, role)
    BY <1>2 DEF RoleRows, MergedRows, ShownIs
  <2>7. \A a \in L : ~a.current
    BY DEF LostAreOld
  <2>8. CASE CurrentOf(db, s, role)
    <3>1. X = S \union {[t EXCEPT !.current = FALSE] : t \in T}
      <4>1. ASSUME NEW x \in rows(s, role)
            PROVE  Shown(x) \in S \union {[t EXCEPT !.current = FALSE] : t \in T}
        <5>1. ASSUME NEW a \in A, a.node = l, a.role = role, x = [Passed(db, a, s) EXCEPT !.node = s]
              PROVE  \E t \in T : Shown(x) = [t EXCEPT !.current = FALSE]
          <6>1. Shown(a) \in T /\ Shown(x) = [Shown(a) EXCEPT !.current = FALSE]
            BY <1>2, <2>8, <5>1 DEF PassedIs, RoleRows
          <6>2. QED BY <6>1
        <5>2. ASSUME NEW a \in L, a.node = l, a.role = role, x = [a EXCEPT !.node = s]
              PROVE  \E t \in T : Shown(x) = [t EXCEPT !.current = FALSE]
          <6>1. Shown(a) \in T /\ Shown(x) = [Shown(a) EXCEPT !.current = FALSE]
            BY <1>2, <2>7, <5>2 DEF ShownIs, RoleRows
          <6>2. QED BY <6>1
        <5>3. QED BY <2>3, <5>1, <5>2
      <4>2. ASSUME NEW a \in RoleRows(db, l, role)
            PROVE  [Shown(a) EXCEPT !.current = FALSE] \in X
        <5>0. (a \in A \/ a \in L) /\ a.node = l /\ a.role = role
          BY DEF RoleRows
        <5>1. CASE a \in A
          <6>1. [Passed(db, a, s) EXCEPT !.node = s] \in rows(s, role)
            BY <2>5, <5>0, <5>1
          <6>2. Shown([Passed(db, a, s) EXCEPT !.node = s]) = [Shown(a) EXCEPT !.current = FALSE]
            BY <1>2, <2>8, <5>0, <5>1 DEF PassedIs
          <6>3. QED BY <6>1, <6>2
        <5>2. CASE a \in L
          <6>1. [a EXCEPT !.node = s] \in rows(s, role)
            BY <2>6, <5>0, <5>2
          <6>2. Shown([a EXCEPT !.node = s]) = [Shown(a) EXCEPT !.current = FALSE]
            BY <1>2, <2>7, <5>2 DEF ShownIs
          <6>3. QED BY <6>1, <6>2
        <5>3. QED BY <5>0, <5>1, <5>2
      <4>3. \A x \in S : x \in X
        BY <2>4
      <4>4. \A t \in T : [t EXCEPT !.current = FALSE] \in X
        BY <4>2
      <4>5. \A x \in X : x \in S \union {[t EXCEPT !.current = FALSE] : t \in T}
        BY <4>1
      <4> HIDE DEF S, T, X
      <4>6. QED BY <4>3, <4>4, <4>5
    <3>2. QED BY <1>6, <1>8, <2>1, <2>2, <2>8, <3>1 DEF Mem!Demoted
  <2>9. CASE ~CurrentOf(db, s, role)
    <3>1. X = S \union T
      <4>1. ASSUME NEW x \in rows(s, role)
            PROVE  Shown(x) \in S \union T
        <5>1. ASSUME NEW a \in A, a.node = l, a.role = role, x = [Passed(db, a, s) EXCEPT !.node = s]
              PROVE  Shown(x) \in T
          BY <1>2, <2>9, <5>1 DEF PassedIs, RoleRows
        <5>2. ASSUME NEW a \in L, a.node = l, a.role = role, x = [a EXCEPT !.node = s]
              PROVE  Shown(x) \in T
          BY <1>2, <5>2 DEF ShownIs, RoleRows
        <5>3. QED BY <2>3, <5>1, <5>2
      <4>2. ASSUME NEW a \in RoleRows(db, l, role)
            PROVE  Shown(a) \in X
        <5>0. (a \in A \/ a \in L) /\ a.node = l /\ a.role = role
          BY DEF RoleRows
        <5>1. CASE a \in A
          <6>1. [Passed(db, a, s) EXCEPT !.node = s] \in rows(s, role)
            BY <2>5, <5>0, <5>1
          <6>2. Shown([Passed(db, a, s) EXCEPT !.node = s]) = Shown(a)
            BY <1>2, <2>9, <5>0, <5>1 DEF PassedIs
          <6>3. QED BY <6>1, <6>2
        <5>2. CASE a \in L
          <6>1. [a EXCEPT !.node = s] \in rows(s, role)
            BY <2>6, <5>0, <5>2
          <6>2. Shown([a EXCEPT !.node = s]) = Shown(a)
            BY <1>2, <2>7, <5>2 DEF ShownIs
          <6>3. QED BY <6>1, <6>2
        <5>3. QED BY <5>0, <5>1, <5>2
      <4>3. QED BY <2>4, <4>1, <4>2
    <3>2. QED BY <1>6, <1>8, <2>1, <2>2, <2>9, <3>1
  <2>10. QED BY <2>8, <2>9
<1>9. ArtifactMap(e) = [k \in keys |-> ArtifactMap(e)[k]]
  <2>1. {<<a.node, a.role>> : a \in e.artifacts} = keys
    BY <1>5
  <2>2. QED BY <2>1 DEF ArtifactMap
<1>10. \A k \in keys : k[1] = s => ArtifactMap(e)[k] = joined(k[2])
  <2> HIDE DEF joined
  <2>1. ASSUME NEW k \in keys, k[1] = s PROVE ArtifactMap(e)[k] = joined(k[2])
    <3>1. k = <<s, k[2]>>
      BY <1>6, <2>1
    <3>2. <<s, k[2]>> \in keys
      BY <3>1
    <3>3. QED BY <1>8, <3>1, <3>2
  <2>2. QED BY <2>1
<1> HIDE DEF joined, artifacts
<1>11. QED BY <1>1, <1>7, <1>9, <1>10
------------------------------------------------------------------------------
(* Every operation leaves a sound database sound. *)

LEMMA MergedSound ==
  ASSUME NEW d, Sound(d), NEW s \in DOMAIN d.node, NEW l \in DOMAIN d.node, s < l,
         NEW e, Tables(e), MergeMade(d, e, s, l)
  PROVE  /\ Sound(e) /\ e.edge = {EdgeTo(s, l)[x] : x \in d.edge}
         /\ NodesFolded(d.node_assertion, e.node_assertion, s, l)
         /\ EdgesFolded(d.edge_assertion, e.edge_assertion, EdgeTo(s, l))
<1>1. /\ Tables(d) /\ ForeignKeys(d) /\ Decreases(d) /\ OneRowPerKey(d)
      /\ ArtifactsOwned(d) /\ CurrentThere(d) /\ LostAreOld(d)
  BY DEF Sound
<1>2. /\ s \in Ids /\ l \in Ids /\ s # l /\ s \in Nat /\ l \in Nat
      /\ d.node_assertion \in SUBSET NodeAssertion
      /\ d.edge_assertion \in SUBSET EdgeAssertion /\ d.edge \in SUBSET Edge
      /\ \A a \in d.artifacts \union d.lost : PassedIs(d, a, s) /\ ShownIs(a, s)
  <2>1. s \in Ids /\ l \in Ids
    BY <1>1 DEF Tables
  <2>2. \A a \in d.artifacts \union d.lost : PassedIs(d, a, s) /\ ShownIs(a, s)
    BY <1>1, PassedRow, ShownRow DEF Tables
  <2>3. s # l
    BY <2>1, IdsAssumption
  <2>4. QED BY <1>1, <2>1, <2>2, <2>3, IdsAssumption DEF Tables
<1>3. NodesFolded(d.node_assertion, e.node_assertion, s, l)
  BY <1>1, <1>2, FoldedAssertions DEF MergeMade, OneRowPerKey
<1>4. EdgesFolded(d.edge_assertion, e.edge_assertion, EdgeTo(s, l))
  BY <1>1, <1>2, FoldedEdges DEF MergeMade, OneRowPerKey
<1>5. e.edge = {EdgeTo(s, l)[x] : x \in d.edge}
  BY <1>2, RepointedEdges DEF MergeMade
<1>6. MergedRows(d, e, s, l)
  BY <1>1, <1>2, MergedArtifacts
<1>7. /\ DOMAIN e.node = DOMAIN d.node
      /\ \A n \in DOMAIN d.node : e.node[n].merged_into
                                    = IF n = l THEN s ELSE d.node[n].merged_into
      /\ DOMAIN e.alias = DOMAIN d.alias
      /\ \A a \in DOMAIN d.alias : e.alias[a] = To(d.alias[a], s, l)
  BY <1>1 DEF MergeMade, To, Tables, Node
<1>8. \A n \in DOMAIN d.node : To(n, s, l) \in DOMAIN d.node
  BY DEF To
<1>9. ForeignKeys(e)
  <2>1. /\ \A n \in DOMAIN e.node :
             e.node[n].merged_into # NoId => e.node[n].merged_into \in DOMAIN e.node
        /\ \A a \in DOMAIN e.alias : e.alias[a] \in DOMAIN e.node
    BY <1>1, <1>7, <1>8 DEF ForeignKeys
  <2>2. \A r \in e.node_assertion : r.node \in DOMAIN e.node
    BY <1>1, <1>3, <1>7, <1>8 DEF ForeignKeys, NodesFolded
  <2>3. \A x \in e.edge : x[1] \in DOMAIN e.node /\ x[2] \in DOMAIN e.node
    <3>1. \A x \in d.edge : /\ EdgeTo(s, l)[x][1] = To(x[1], s, l)
                            /\ EdgeTo(s, l)[x][2] = To(x[2], s, l)
      BY <1>2 DEF EdgeTo
    <3>2. QED BY <1>1, <1>5, <1>7, <1>8, <3>1 DEF ForeignKeys
  <2>4. \A r \in e.edge_assertion : r.edge \in e.edge
    BY <1>1, <1>4, <1>5 DEF ForeignKeys, EdgesFolded
  <2>5. QED BY <2>1, <2>2, <2>3, <2>4 DEF ForeignKeys
<1>10. Decreases(e)
  BY <1>1, <1>7 DEF Decreases
<1>11. \A x \in e.artifacts :
         \/ x \in d.artifacts /\ x.node # l
         \/ \E a \in d.artifacts :
              /\ a.node = l /\ x = [Passed(d, a, s) EXCEPT !.node = s]
              /\ ~\E b \in d.artifacts : ArtifactKey(b) = <<s, a.role, a.version>>
  BY <1>6 DEF MergedRows
<1>12. \A a, b \in e.artifacts : ArtifactKey(a) = ArtifactKey(b) => a = b
  <2> SUFFICES ASSUME NEW x \in e.artifacts, NEW y \in e.artifacts, ArtifactKey(x) = ArtifactKey(y)
               PROVE  x = y
    OBVIOUS
  <2> DEFINE Moved(z, a) == /\ a \in d.artifacts /\ a.node = l
                            /\ z = [Passed(d, a, s) EXCEPT !.node = s]
                            /\ ~\E b \in d.artifacts : ArtifactKey(b) = <<s, a.role, a.version>>
  <2>1. \A z, a : Moved(z, a) => ArtifactKey(z) = <<s, a.role, a.version>>
    BY <1>2 DEF PassedIs
  <2>2. /\ (x \in d.artifacts \/ \E a : Moved(x, a))
        /\ (y \in d.artifacts \/ \E a : Moved(y, a))
    BY <1>11
  <2>3. CASE x \in d.artifacts /\ y \in d.artifacts
    BY <1>1, <2>3 DEF OneRowPerKey
  <2>4. ASSUME NEW a, NEW b, Moved(x, a), Moved(y, b) PROVE x = y
    <3>1. a.role = b.role /\ a.version = b.version
      BY <2>1, <2>4
    <3>2. a = b
      BY <1>1, <2>4, <3>1 DEF OneRowPerKey, ArtifactKey
    <3>3. QED BY <2>4, <3>2
  <2>5. ASSUME NEW a, (Moved(x, a) /\ y \in d.artifacts) \/ (Moved(y, a) /\ x \in d.artifacts)
        PROVE  FALSE
    BY <2>1, <2>5
  <2>6. QED BY <2>2, <2>3, <2>4, <2>5
<1>13. OneRowPerKey(e)
  BY <1>3, <1>4, <1>12 DEF OneRowPerKey, NodesFolded, EdgesFolded
<1>14. ArtifactsOwned(e)
  <2>1. \A a \in d.artifacts : [Passed(d, a, s) EXCEPT !.node = s].node = s
    BY <1>2 DEF PassedIs
  <2>2. ASSUME NEW x \in e.artifacts PROVE x.node \in DOMAIN d.node
    BY <1>1, <1>11, <2>1 DEF ArtifactsOwned
  <2>3. QED BY <1>7, <2>2 DEF ArtifactsOwned
<1>15. ASSUME NEW x \in e.artifacts
       PROVE  \E b \in e.artifacts : b.node = x.node /\ b.role = x.role /\ b.current
  <2>1. CASE x \in d.artifacts /\ x.node # l
    <3>1. PICK b \in d.artifacts : b.node = x.node /\ b.role = x.role /\ b.current
      BY <1>1, <2>1 DEF CurrentThere
    <3>2. b \in e.artifacts
      BY <1>6, <2>1, <3>1 DEF MergedRows
    <3>3. QED BY <3>1, <3>2
  <2>2. ASSUME NEW a \in d.artifacts, a.node = l, x = [Passed(d, a, s) EXCEPT !.node = s]
        PROVE  \E b \in e.artifacts : b.node = x.node /\ b.role = x.role /\ b.current
    <3>1. x.node = s /\ x.role = a.role
      BY <1>2, <2>2 DEF PassedIs
    <3>2. CASE CurrentOf(d, s, a.role)
      <4>1. PICK b \in d.artifacts : b.node = s /\ b.role = a.role /\ b.current
        BY <3>2 DEF CurrentOf
      <4>2. b \in e.artifacts
        BY <1>2, <1>6, <4>1 DEF MergedRows
      <4>3. QED BY <3>1, <4>1, <4>2
    <3>3. CASE ~CurrentOf(d, s, a.role)
      <4>1. \A b \in d.artifacts : ~(b.node = s /\ b.role = a.role)
        BY <1>1, <3>3 DEF CurrentThere, CurrentOf
      <4>2. PICK b \in d.artifacts : b.node = l /\ b.role = a.role /\ b.current
        BY <1>1, <2>2 DEF CurrentThere
      <4> DEFINE y == [Passed(d, b, s) EXCEPT !.node = s]
      <4>3. ~\E c \in d.artifacts : ArtifactKey(c) = <<s, b.role, b.version>>
        BY <4>1, <4>2 DEF ArtifactKey
      <4>4. y \in e.artifacts
        BY <1>6, <4>2, <4>3 DEF MergedRows
      <4>5. y.node = s /\ y.role = a.role /\ y.current = Passed(d, b, s).current
        BY <1>2, <4>2 DEF PassedIs, ShownIs
      <4>6. Passed(d, b, s).current
        BY <1>2, <3>3, <4>2 DEF PassedIs
      <4>7. QED BY <3>1, <4>4, <4>5, <4>6
    <3>4. QED BY <3>2, <3>3
  <2>3. QED BY <1>11, <2>1, <2>2
<1>16. ASSUME NEW x \in e.lost
       PROVE  ~x.current /\ \E b \in e.artifacts : ArtifactKey(b) = ArtifactKey(x)
  <2>1. CASE x \in d.lost /\ x.node # l
    <3>1. PICK b \in d.artifacts : ArtifactKey(b) = ArtifactKey(x)
      BY <1>1, <2>1 DEF LostAreOld
    <3>2. b.node # l
      BY <2>1, <3>1 DEF ArtifactKey
    <3>3. b \in e.artifacts
      BY <1>6, <3>1, <3>2 DEF MergedRows
    <3>4. ~x.current
      BY <1>1, <2>1 DEF LostAreOld
    <3>5. QED BY <3>1, <3>3, <3>4
  <2>2. ASSUME NEW b \in d.artifacts, ArtifactKey(b) = ArtifactKey(x), x.node = s
        PROVE  \E c \in e.artifacts : ArtifactKey(c) = ArtifactKey(x)
    <3>1. b.node # l
      BY <1>2, <2>2 DEF ArtifactKey
    <3>2. b \in e.artifacts
      BY <1>6, <3>1 DEF MergedRows
    <3>3. QED BY <2>2, <3>2
  <2>3. ASSUME NEW a \in d.lost, a.node = l, x = [a EXCEPT !.node = s]
        PROVE  ~x.current /\ \E b \in e.artifacts : ArtifactKey(b) = ArtifactKey(x)
    <3>1. /\ ~x.current /\ x.node = s /\ ArtifactKey(x) = <<s, a.role, a.version>>
      BY <1>1, <1>2, <2>3 DEF ShownIs, LostAreOld, ArtifactKey
    <3>2. PICK b \in d.artifacts : b.node = l /\ b.role = a.role /\ b.version = a.version
      BY <1>1, <2>3 DEF LostAreOld, ArtifactKey
    <3> DEFINE y == [Passed(d, b, s) EXCEPT !.node = s]
    <3>3. ArtifactKey(y) = <<s, a.role, a.version>>
      BY <1>2, <3>2 DEF PassedIs
    <3>4. CASE \E c \in d.artifacts : ArtifactKey(c) = <<s, b.role, b.version>>
      BY <2>2, <3>1, <3>2, <3>4
    <3>5. CASE ~\E c \in d.artifacts : ArtifactKey(c) = <<s, b.role, b.version>>
      <4>1. y \in e.artifacts
        BY <1>6, <3>2, <3>5 DEF MergedRows
      <4>2. QED BY <3>1, <3>3, <4>1
    <3>6. QED BY <3>4, <3>5
  <2>4. ASSUME NEW a \in d.artifacts, a.node = l, x = [Passed(d, a, s) EXCEPT !.node = s],
               NEW b \in d.artifacts, ArtifactKey(b) = <<s, a.role, a.version>>
        PROVE  ~x.current /\ \E c \in e.artifacts : ArtifactKey(c) = ArtifactKey(x)
    <3>1. x.node = s /\ ArtifactKey(x) = <<s, a.role, a.version>>
      BY <1>2, <2>4 DEF PassedIs
    <3>2. CurrentOf(d, s, a.role)
      BY <1>1, <2>4 DEF ArtifactKey, CurrentThere, CurrentOf
    <3>3. x.current = Passed(d, a, s).current
      BY <1>2, <2>4 DEF PassedIs, ShownIs
    <3>4. ~Passed(d, a, s).current
      BY <1>2, <3>2 DEF PassedIs
    <3>5. QED BY <2>2, <2>4, <3>1, <3>3, <3>4
  <2>5. QED BY <1>6, <2>1, <2>3, <2>4 DEF MergedRows
<1>17. QED
  BY <1>3, <1>4, <1>5, <1>9, <1>10, <1>13, <1>14, <1>15, <1>16 DEF Sound, CurrentThere,
    LostAreOld

LEMMA DeletedSound ==
  ASSUME NEW d, Sound(d), NEW net, NEW e, Tables(e), ForeignKeys(e), DeleteMade(d, e, net)
  PROVE  Sound(e)
<1>1. /\ Tables(d) /\ ForeignKeys(d) /\ Decreases(d) /\ OneRowPerKey(d)
      /\ ArtifactsOwned(d) /\ CurrentThere(d) /\ LostAreOld(d)
  BY DEF Sound
<1>2. /\ DOMAIN e.node = DOMAIN d.node \ net
      /\ \A n \in DOMAIN e.node : e.node[n] = d.node[n]
  BY DEF DeleteMade
<1>3. /\ e.node_assertion \subseteq d.node_assertion /\ e.edge_assertion \subseteq d.edge_assertion
      /\ e.artifacts = {a \in d.artifacts : a.node \notin net}
      /\ e.lost = {a \in d.lost : a.node \notin net}
  BY DEF DeleteMade
<1>4. Decreases(e)
  BY <1>1, <1>2 DEF Decreases
<1>5. OneRowPerKey(e)
  BY <1>1, <1>3 DEF OneRowPerKey
<1>6. ArtifactsOwned(e) /\ CurrentThere(e)
  BY <1>1, <1>2, <1>3 DEF ArtifactsOwned, CurrentThere
<1>7. LostAreOld(e)
  BY <1>1, <1>3 DEF LostAreOld, ArtifactKey
<1>8. QED BY <1>4, <1>5, <1>6, <1>7 DEF Sound

(* The walks of the two modules are the same. *)
LEMMA MemWalks ==
  /\ \A n : Mem!Chain(Mem!Redirect, n) = Chain(Redirect(db), n)
  /\ \A n : Mem!Compressed(Mem!Redirect, n) = Compressed(Redirect(db), n)
  /\ \A n : Mem!Network(n) = NetworkOf(Redirect(db), DOMAIN db.node, n)
  /\ Mem!LiveNodes = LiveNodes
<1>1. Mem!Redirect = Redirect(db) /\ Mem!LiveNodes = LiveNodes
  BY DEF Mem!Redirect, Redirect, Mem!LiveNodes, LiveNodes
<1>2. \A m, n : Mem!Chain(m, n) = Chain(m, n)
  BY DEF Mem!Chain, Chain, Mem!ClosedUnder, ClosedUnder
<1>3. \A m, n : Mem!Root(m, n) = Root(m, n)
  BY <1>2 DEF Mem!Root, Root
<1>4. \A m, n : Mem!Compressed(m, n) = Compressed(m, n)
  BY <1>2, <1>3 DEF Mem!Compressed, Compressed
<1>5. \A m, S, n : Mem!NetworkOf(m, S, n) = NetworkOf(m, S, n)
  BY <1>2 DEF Mem!NetworkOf, NetworkOf
<1>6. QED BY <1>1, <1>2, <1>4, <1>5 DEF Mem!Network

LEMMA DeletedMaps ==
  ASSUME Sound(db), NEW net, NEW e, Sound(e), DeleteMade(db, e, net)
  PROVE  LET out == DOMAIN db.node \ net
         IN /\ e.node = Mem!Keep(db.node, out)
            /\ e.alias = Mem!Keep(db.alias, {a \in DOMAIN db.alias : db.alias[a] \in out})
            /\ NodeAssertionMap(e) = Mem!Keep(NodeAssertionMap(db), out \X Sources)
            /\ EdgeMap(e) = Mem!Keep(EdgeMap(db), out \X out \X Relations)
            /\ ArtifactMap(e) = Mem!Keep(ArtifactMap(db), out \X Roles)
<1> DEFINE out == DOMAIN db.node \ net
<1>1. /\ Tables(db) /\ ForeignKeys(db) /\ OneRowPerKey(db) /\ ArtifactsOwned(db) /\ LostAreOld(db)
      /\ OneRowPerKey(e) /\ Tables(e) /\ LostAreOld(e) /\ ForeignKeys(e)
  BY DEF Sound
<1>2. e.node = Mem!Keep(db.node, out)
  BY DEF DeleteMade, Mem!Keep
<1>3. e.alias = Mem!Keep(db.alias, {a \in DOMAIN db.alias : db.alias[a] \in out})
  <2>1. DOMAIN db.alias \intersect {a \in DOMAIN db.alias : db.alias[a] \in out}
          = {b \in DOMAIN db.alias : db.alias[b] \notin net}
    BY <1>1 DEF ForeignKeys
  <2>2. QED BY <2>1 DEF DeleteMade, Mem!Keep
<1>4. NodeAssertionMap(e) = Mem!Keep(NodeAssertionMap(db), out \X Sources)
  <2> DEFINE na == NodeAssertionMap(db)
             nb == NodeAssertionMap(e)
  <2>1. /\ DOMAIN na = {NodeKey(r) : r \in db.node_assertion}
        /\ \A r \in db.node_assertion : na[NodeKey(r)] = r.at
        /\ DOMAIN nb = {NodeKey(r) : r \in e.node_assertion}
        /\ \A r \in e.node_assertion : nb[NodeKey(r)] = r.at
    BY <1>1, NodeAssertionMapIs
  <2>2. nb = [k \in DOMAIN nb |-> nb[k]]
    BY DEF NodeAssertionMap
  <2>3. e.node_assertion = {r \in db.node_assertion : r.node \notin net}
    BY DEF DeleteMade
  <2>4. \A r \in db.node_assertion : r.node \in DOMAIN db.node /\ r.source \in Sources
    BY <1>1 DEF ForeignKeys, Tables, NodeAssertion
  <2> HIDE DEF na, nb
  <2>5. DOMAIN nb = DOMAIN na \intersect (out \X Sources)
    BY <2>1, <2>3, <2>4 DEF NodeKey
  <2>6. \A k \in DOMAIN nb : nb[k] = na[k]
    BY <2>1, <2>3
  <2>7. nb = Mem!Keep(na, out \X Sources)
    BY <2>2, <2>5, <2>6 DEF Mem!Keep
  <2>8. QED BY <2>7 DEF na, nb
<1>5. EdgeMap(e) = Mem!Keep(EdgeMap(db), out \X out \X Relations)
  <2>1. EdgeMapOf(db) /\ EdgeMapOf(e)
    BY <1>1, EdgeMapIs
  <2>2. e.edge = {x \in db.edge : ~Cut(net, x)}
    BY DEF DeleteMade
  <2>3. e.edge_assertion = {r \in db.edge_assertion : ~Cut(net, r.edge)}
    BY DEF DeleteMade
  <2>4. e.edge = db.edge \intersect (out \X out \X Relations)
    <3>1. \A x \in db.edge : x[1] \in DOMAIN db.node /\ x[2] \in DOMAIN db.node /\ x \in Edge
      BY <1>1 DEF ForeignKeys, Tables
    <3>2. \A x \in Edge : x \in out \X out \X Relations <=> x[1] \in out /\ x[2] \in out
      BY DEF Edge
    <3>3. QED BY <2>2, <3>1, <3>2 DEF Cut
  <2>5. ASSUME NEW x \in e.edge PROVE EdgeMap(e)[x] = EdgeMap(db)[x]
    <3>1. x \in db.edge /\ ~Cut(net, x)
      BY <2>2
    <3>2. \A r : r \in e.edge_assertion /\ r.edge = x <=> r \in db.edge_assertion /\ r.edge = x
      BY <2>3, <3>1
    <3>3. {r.source : r \in {q \in e.edge_assertion : q.edge = x}}
            = {r.source : r \in {q \in db.edge_assertion : q.edge = x}}
      BY <3>2
    <3>4. DOMAIN EdgeMap(e)[x] = DOMAIN EdgeMap(db)[x]
      BY <2>1, <3>1, <3>3 DEF EdgeMapOf
    <3>5. ASSUME NEW p \in DOMAIN EdgeMap(e)[x] PROVE EdgeMap(e)[x][p] = EdgeMap(db)[x][p]
      <4>0. DOMAIN EdgeMap(e)[x] = {r.source : r \in {q \in e.edge_assertion : q.edge = x}}
        BY <2>1 DEF EdgeMapOf
      <4>1. PICK r \in e.edge_assertion : r.edge = x /\ r.source = p
        BY <4>0
      <4>2. r \in db.edge_assertion
        BY <3>2, <4>1
      <4>3. QED BY <2>1, <3>1, <4>1, <4>2 DEF EdgeMapOf
    <3>6. /\ EdgeMap(e)[x] = [p \in DOMAIN EdgeMap(e)[x] |-> EdgeMap(e)[x][p]]
          /\ EdgeMap(db)[x] = [p \in DOMAIN EdgeMap(db)[x] |-> EdgeMap(db)[x][p]]
      BY <2>1, <3>1 DEF EdgeMapOf
    <3>7. QED BY <3>4, <3>5, <3>6
  <2>6. EdgeMap(e) = [x \in e.edge |-> EdgeMap(e)[x]]
    BY DEF EdgeMap
  <2>7. DOMAIN EdgeMap(db) = db.edge
    BY <2>1 DEF EdgeMapOf
  <2>8. QED BY <2>4, <2>5, <2>6, <2>7 DEF Mem!Keep
<1>6. ArtifactMap(e) = Mem!Keep(ArtifactMap(db), out \X Roles)
  <2> DEFINE rows(d, k) == {b \in d.artifacts \union d.lost : <<b.node, b.role>> = k}
  <2>1. /\ e.artifacts = {a \in db.artifacts : a.node \notin net}
        /\ e.lost = {a \in db.lost : a.node \notin net}
    BY DEF DeleteMade
  <2>2. \A a \in db.artifacts : a.node \in DOMAIN db.node /\ a.role \in Roles
    BY <1>1 DEF ArtifactsOwned, Tables, Artifact
  <2>3. {<<a.node, a.role>> : a \in e.artifacts}
          = {<<a.node, a.role>> : a \in db.artifacts} \intersect (out \X Roles)
    BY <2>1, <2>2
  <2>4. ASSUME NEW k \in {<<a.node, a.role>> : a \in e.artifacts}
        PROVE  rows(e, k) = rows(db, k)
    BY <2>1
  <2>5. /\ ArtifactMap(e) = [k \in {<<a.node, a.role>> : a \in e.artifacts} |->
                               {Shown(a) : a \in rows(e, k)}]
        /\ ArtifactMap(db) = [k \in {<<a.node, a.role>> : a \in db.artifacts} |->
                               {Shown(a) : a \in rows(db, k)}]
    BY DEF ArtifactMap
  <2> HIDE DEF rows
  <2>6. QED BY <2>3, <2>4, <2>5 DEF Mem!Keep
<1>7. QED BY <1>2, <1>3, <1>4, <1>5, <1>6

(* A committed merge, and a committed delete, are those of the maps. *)
LEMMA MergeCommits ==
  ASSUME Sound(db), NEW s \in LiveNodes, NEW l \in LiveNodes, s < l, db' = M15(db, s, l)
  PROVE  Sound(db') /\ Mem!Merge(s, l)
<1> DEFINE e == M15(db, s, l)
<1>1. /\ s \in DOMAIN db.node /\ l \in DOMAIN db.node /\ s \in Ids /\ l \in Ids /\ s # l
  <2>1. s \in DOMAIN db.node /\ l \in DOMAIN db.node
    BY DEF LiveNodes
  <2>2. DOMAIN db.node \subseteq Ids
    BY DEF Sound, Tables
  <2>3. s \in Nat /\ l \in Nat
    BY <2>1, <2>2, IdsAssumption
  <2>4. QED BY <2>1, <2>2, <2>3
<1>2. Tables(db) /\ OneRowPerKey(db) /\ ForeignKeys(db) /\ CurrentThere(db) /\ LostAreOld(db)
  BY DEF Sound
<1>3. Tables(e) /\ MergeMade(db, e, s, l)
  BY <1>1, <1>2, MergeTyped, MergeMakes
<1> HIDE DEF e
<1>4. /\ Sound(e) /\ e.edge = {EdgeTo(s, l)[x] : x \in db.edge}
      /\ NodesFolded(db.node_assertion, e.node_assertion, s, l)
      /\ EdgesFolded(db.edge_assertion, e.edge_assertion, EdgeTo(s, l))
  BY <1>1, <1>3, MergedSound
<1>5. NodeAssertionMap(e) = Mem!AssertionsMerged(s, l)
  BY <1>1, <1>2, <1>4, MergedAssertionMap DEF Sound
<1>6. EdgeMap(e) = Mem!EdgesMerged(s, l)
  BY <1>1, <1>2, <1>4, MergedEdgeMap DEF Sound
<1>7. ArtifactMap(e) = Mem!ArtifactsMerged(s, l)
  BY <1>1, <1>2, <1>3, MergedArtifactMap
<1>8. e.node = IF l \in DOMAIN db.node THEN [db.node EXCEPT ![l].merged_into = s] ELSE db.node
  BY <1>1, <1>3 DEF MergeMade
<1>9. e.alias = [a \in DOMAIN db.alias |-> Mem!Repoint(db.alias[a], s, l)]
  BY <1>3 DEF MergeMade, Mem!Repoint
<1>10. db' = e
  BY DEF e
<1>11. QED BY <1>4, <1>5, <1>6, <1>7, <1>8, <1>9, <1>10 DEF Mem!Merge

LEMMA DeleteCommits ==
  ASSUME Sound(db), NEW n \in LiveNodes,
         NEW net, net = NetworkOf(Redirect(db), DOMAIN db.node, n), db' = D7(db, net)
  PROVE  Sound(db') /\ Mem!DeleteWorkNetwork(n)
<1>1. n \in Ids /\ Tables(db) /\ ForeignKeys(db)
  BY DEF LiveNodes, Sound, Tables
<1>2. DeleteMade(db, D7(db, net), net) /\ Tables(D7(db, net))
  BY <1>1, DeleteMakes, DeleteTyped
<1>3. \A x \in DOMAIN db.node :
        db.node[x].merged_into # NoId /\ db.node[x].merged_into \in net => x \in net
  BY <1>1, NetworkClosed
<1>4. ForeignKeys(D7(db, net))
  <2>1. \A i \in 1 .. 8 : ForeignKeys(DeleteWorks(db, net)[i])
    BY <1>1, <1>3, DeleteKeepsKeys
  <2>2. DeleteWorks(db, net)[8] = D7(db, net)
    BY DEF DeleteWorks
  <2>3. QED BY <2>1, <2>2
<1>5. Sound(db') /\ DeleteMade(db, db', net)
  BY <1>2, <1>4, DeletedSound
<1>6. Mem!Network(n) = net
  BY MemWalks
<1>7. QED BY <1>5, <1>6, DeletedMaps DEF Mem!DeleteWorkNetwork

(* No version number is past the operations committed. *)
VersionsBelow(d, c) == \A a \in d.artifacts : a.version <= c

LEMMA SameMaps ==
  ASSUME NEW d, NEW e
  PROVE  /\ e.node_assertion = d.node_assertion => NodeAssertionMap(e) = NodeAssertionMap(d)
         /\ e.edge = d.edge /\ e.edge_assertion = d.edge_assertion => EdgeMap(e) = EdgeMap(d)
         /\ e.artifacts = d.artifacts /\ e.lost = d.lost => ArtifactMap(e) = ArtifactMap(d)
<1>1. ASSUME e.node_assertion = d.node_assertion
      PROVE  NodeAssertionMap(e) = NodeAssertionMap(d)
  <2> DEFINE F(A) == [k \in {NodeKey(r) : r \in A} |-> (CHOOSE r \in A : NodeKey(r) = k).at]
  <2>1. NodeAssertionMap(e) = F(e.node_assertion) /\ NodeAssertionMap(d) = F(d.node_assertion)
    BY DEF NodeAssertionMap
  <2> HIDE DEF F
  <2>2. QED BY <1>1, <2>1
<1>2. ASSUME e.edge = d.edge, e.edge_assertion = d.edge_assertion
      PROVE  EdgeMap(e) = EdgeMap(d)
  <2> DEFINE F(E, A) ==
               [x \in E |-> [p \in {r.source : r \in {q \in A : q.edge = x}} |->
                              (CHOOSE r \in A : r.edge = x /\ r.source = p).at]]
  <2>1. /\ EdgeMap(e) = F(e.edge, e.edge_assertion)
        /\ EdgeMap(d) = F(d.edge, d.edge_assertion)
    BY DEF EdgeMap
  <2> HIDE DEF F
  <2>2. QED BY <1>2, <2>1
<1>3. ASSUME e.artifacts = d.artifacts, e.lost = d.lost
      PROVE  ArtifactMap(e) = ArtifactMap(d)
  BY <1>3, Zenon DEF ArtifactMap
<1>4. QED BY <1>1, <1>2, <1>3

LEMMA CreateCommits ==
  ASSUME Sound(db), NEW n \in Ids \ DOMAIN db.node, NEW k \in Kinds, db' = NodeInsert(db, n, k)
  PROVE  Sound(db') /\ Mem!CreateNode(n, k) /\ db'.artifacts = db.artifacts
<1> DEFINE e == NodeInsert(db, n, k)
<1>1. Tables(db)
  BY DEF Sound
<1>2. Tables(e) /\ Alike(db, e, {"node"})
  BY <1>1, NodeInsertStep
<1>3. e.node = With(db.node, n, [kind |-> k, merged_into |-> NoId])
  BY <1>1 DEF NodeInsert, Tables
<1> HIDE DEF e
<1>4. /\ e.alias = db.alias /\ e.node_assertion = db.node_assertion /\ e.edge = db.edge
      /\ e.edge_assertion = db.edge_assertion /\ e.artifacts = db.artifacts /\ e.lost = db.lost
  BY <1>2 DEF Alike
<1>5. /\ DOMAIN e.node = DOMAIN db.node \union {n}
      /\ \A x \in DOMAIN db.node : e.node[x] = db.node[x]
      /\ e.node[n].merged_into = NoId
  BY <1>3 DEF With
<1>6. ForeignKeys(e) /\ Decreases(e)
  BY <1>4, <1>5 DEF Sound, ForeignKeys, Decreases
<1>7. OneRowPerKey(e) /\ ArtifactsOwned(e) /\ CurrentThere(e) /\ LostAreOld(e)
  BY <1>4, <1>5 DEF Sound, OneRowPerKey, ArtifactsOwned, CurrentThere, LostAreOld
<1>8. /\ NodeAssertionMap(e) = NodeAssertionMap(db) /\ EdgeMap(e) = EdgeMap(db)
      /\ ArtifactMap(e) = ArtifactMap(db)
  BY <1>4, SameMaps
<1>9. db' = e
  BY DEF e
<1>10. QED
  BY <1>2, <1>3, <1>4, <1>6, <1>7, <1>8, <1>9 DEF Sound, Mem!CreateNode, Mem!With, With

LEMMA AliasCommits ==
  ASSUME Sound(db), NEW a \in Aliases, NEW n \in LiveNodes, db' = AliasInsert(db, a, n)
  PROVE  Sound(db') /\ Mem!GetOrCreateAlias(a, n) /\ db'.artifacts = db.artifacts
<1> DEFINE e == AliasInsert(db, a, n)
<1>1. Tables(db) /\ n \in DOMAIN db.node /\ n \in Ids
  BY DEF Sound, LiveNodes, Tables
<1>2. Tables(e) /\ Alike(db, e, {"alias"})
  BY <1>1, AliasInsertStep
<1>3. e.alias = IF a \in DOMAIN db.alias THEN db.alias ELSE With(db.alias, a, n)
  BY <1>1 DEF AliasInsert, Tables
<1> HIDE DEF e
<1>4. /\ e.node = db.node /\ e.node_assertion = db.node_assertion /\ e.edge = db.edge
      /\ e.edge_assertion = db.edge_assertion /\ e.artifacts = db.artifacts /\ e.lost = db.lost
  BY <1>2 DEF Alike
<1>5. \A b \in DOMAIN e.alias : e.alias[b] = n \/ (b \in DOMAIN db.alias /\ e.alias[b] = db.alias[b])
  BY <1>3 DEF With
<1>6. ForeignKeys(e) /\ Decreases(e)
  BY <1>1, <1>4, <1>5 DEF Sound, ForeignKeys, Decreases
<1>7. OneRowPerKey(e) /\ ArtifactsOwned(e) /\ CurrentThere(e) /\ LostAreOld(e)
  BY <1>4, <1>5 DEF Sound, OneRowPerKey, ArtifactsOwned, CurrentThere, LostAreOld
<1>8. /\ NodeAssertionMap(e) = NodeAssertionMap(db) /\ EdgeMap(e) = EdgeMap(db)
      /\ ArtifactMap(e) = ArtifactMap(db)
  BY <1>4, SameMaps
<1>9. db' = e
  BY DEF e
<1>10. QED
  BY <1>2, <1>3, <1>4, <1>6, <1>7, <1>8, <1>9 DEF Sound, Mem!GetOrCreateAlias, Mem!With, With

LEMMA AssertionCommits ==
  ASSUME Sound(db), NEW n \in LiveNodes, NEW p \in Sources, NEW t \in Stamps,
         db' = NodeAssertionUpsert(db, [node |-> n, source |-> p, at |-> t])
  PROVE  Sound(db') /\ Mem!UpsertNodeAssertion(n, p, t) /\ db'.artifacts = db.artifacts
<1> DEFINE row == [node |-> n, source |-> p, at |-> t]
           e == NodeAssertionUpsert(db, row)
           A == db.node_assertion
           na == NodeAssertionMap(db)
           nb == NodeAssertionMap(e)
<1>1. Tables(db) /\ n \in DOMAIN db.node /\ n \in Ids /\ OneRowPerKey(db)
  BY DEF Sound, LiveNodes, Tables
<1>2. Tables(e) /\ Alike(db, e, {"node_assertion"})
  <2>1. row \in NodeAssertion
    BY <1>1 DEF NodeAssertion
  <2>2. QED BY <1>1, <2>1, NodeAssertionUpsertStep
<1>3. e.node_assertion = {r \in A : <<r.node, r.source>> # <<n, p>>} \union {row}
  BY <1>1 DEF NodeAssertionUpsert, Tables, Replaced, NodeKey
<1>4. row.node = n /\ row.source = p /\ row.at = t
  OBVIOUS
<1> HIDE DEF e, row
<1>5. /\ e.node = db.node /\ e.alias = db.alias /\ e.edge = db.edge
      /\ e.edge_assertion = db.edge_assertion /\ e.artifacts = db.artifacts /\ e.lost = db.lost
  BY <1>2 DEF Alike
<1>6. \A r \in e.node_assertion : r = row \/ (r \in A /\ <<r.node, r.source>> # <<n, p>>)
  BY <1>3
<1>7. ForeignKeys(e) /\ Decreases(e)
  BY <1>1, <1>4, <1>5, <1>6 DEF Sound, ForeignKeys, Decreases
<1>8. OneRowPerKey(e)
  BY <1>1, <1>4, <1>5, <1>6 DEF OneRowPerKey, NodeKey
<1>9. ArtifactsOwned(e) /\ CurrentThere(e) /\ LostAreOld(e)
  BY <1>5 DEF Sound, ArtifactsOwned, CurrentThere, LostAreOld
<1>10. nb = Mem!With(na, <<n, p>>, t)
  <2>1. /\ DOMAIN na = {NodeKey(r) : r \in A}
        /\ \A r \in A : na[NodeKey(r)] = r.at
        /\ DOMAIN nb = {NodeKey(r) : r \in e.node_assertion}
        /\ \A r \in e.node_assertion : nb[NodeKey(r)] = r.at
    BY <1>1, <1>8, NodeAssertionMapIs
  <2>2. nb = [k \in DOMAIN nb |-> nb[k]]
    BY DEF NodeAssertionMap
  <2>3. NodeKey(row) = <<n, p>> /\ row \in e.node_assertion
    BY <1>3, <1>4 DEF NodeKey
  <2> HIDE DEF na, nb
  <2>4. DOMAIN nb = DOMAIN na \union {<<n, p>>}
    <3>1. ASSUME NEW r \in A PROVE \E q \in e.node_assertion : NodeKey(q) = NodeKey(r)
      BY <1>3, <2>3 DEF NodeKey
    <3>2. QED BY <1>6, <2>1, <2>3, <3>1
  <2>5. nb[<<n, p>>] = t
    BY <1>4, <2>1, <2>3
  <2>6. ASSUME NEW k \in DOMAIN nb, k # <<n, p>> PROVE nb[k] = na[k]
    <3>1. PICK r \in e.node_assertion : k = NodeKey(r)
      BY <2>1
    <3>2. r \in A
      BY <1>6, <2>3, <2>6, <3>1
    <3>3. QED BY <2>1, <3>1, <3>2
  <2>7. QED BY <2>2, <2>4, <2>5, <2>6 DEF Mem!With
<1>11. EdgeMap(e) = EdgeMap(db) /\ ArtifactMap(e) = ArtifactMap(db)
  BY <1>5, SameMaps
<1>12. db' = e
  BY DEF e, row
<1>13. QED
  BY <1>2, <1>5, <1>7, <1>8, <1>9, <1>10, <1>11, <1>12 DEF Sound, Mem!UpsertNodeAssertion

LEMMA EdgeCommits ==
  ASSUME Sound(db), NEW x \in LiveNodes, NEW y \in LiveNodes, NEW r \in Relations,
         NEW p \in Sources, NEW t \in Stamps,
         db' = EdgeAssertionUpsert(EdgeInsert(db, <<x, y, r>>),
                                   [edge |-> <<x, y, r>>, source |-> p, at |-> t])
  PROVE  Sound(db') /\ Mem!PutEdge(x, y, r, p, t) /\ db'.artifacts = db.artifacts
<1> DEFINE k == <<x, y, r>>
           row == [edge |-> k, source |-> p, at |-> t]
           mid == EdgeInsert(db, k)
           e == EdgeAssertionUpsert(mid, row)
           A == db.edge_assertion
<1>1. /\ Tables(db) /\ x \in DOMAIN db.node /\ y \in DOMAIN db.node
      /\ x \in Ids /\ y \in Ids /\ OneRowPerKey(db)
  BY DEF Sound, LiveNodes, Tables
<1>2. k \in Edge /\ row \in EdgeAssertion /\ row.edge = k /\ row.source = p /\ row.at = t
      /\ k[1] = x /\ k[2] = y
  BY <1>1 DEF Edge, EdgeAssertion
<1> HIDE DEF k, row
<1>3. Tables(mid) /\ Alike(db, mid, {"edge"}) /\ mid.edge = db.edge \union {k}
  BY <1>1, <1>2, EdgeInsertStep DEF EdgeInsert, Tables
<1> HIDE DEF mid
<1>4. /\ Tables(e) /\ Alike(mid, e, {"edge_assertion"})
      /\ e.edge_assertion = {q \in mid.edge_assertion : EdgeKey(q) # EdgeKey(row)} \union {row}
  BY <1>2, <1>3, EdgeAssertionUpsertStep DEF EdgeAssertionUpsert, Tables, Replaced
<1> HIDE DEF e
<1>5. /\ e.node = db.node /\ e.alias = db.alias /\ e.node_assertion = db.node_assertion
      /\ e.artifacts = db.artifacts /\ e.lost = db.lost /\ e.edge = db.edge \union {k}
      /\ e.edge_assertion = {q \in A : EdgeKey(q) # EdgeKey(row)} \union {row}
  BY <1>3, <1>4 DEF Alike
<1>6. ForeignKeys(e) /\ Decreases(e)
  BY <1>1, <1>2, <1>5 DEF Sound, ForeignKeys, Decreases
<1>7. OneRowPerKey(e)
  BY <1>1, <1>5 DEF OneRowPerKey
<1>8. ArtifactsOwned(e) /\ CurrentThere(e) /\ LostAreOld(e)
  BY <1>5 DEF Sound, ArtifactsOwned, CurrentThere, LostAreOld
<1> DEFINE edges == EdgeMap(db)
           new == EdgeMap(e)
           old == IF k \in DOMAIN edges THEN edges[k] ELSE Mem!Empty
<1>9. EdgeMapOf(db) /\ EdgeMapOf(e)
  BY <1>1, <1>7, EdgeMapIs
<1>10. DOMAIN new = DOMAIN edges \union {k}
  BY <1>5, <1>9 DEF EdgeMapOf
<1>11. \A q : q \in e.edge_assertion <=> q = row \/ (q \in A /\ <<q.edge, q.source>> # <<k, p>>)
  BY <1>2, <1>5 DEF EdgeKey
<1>12. ASSUME NEW z \in DOMAIN new, z # k PROVE new[z] = edges[z]
  <2>1. z \in db.edge /\ z \in e.edge
    BY <1>5, <1>9, <1>12 DEF EdgeMapOf
  <2>2. \A q : q \in e.edge_assertion /\ q.edge = z <=> q \in A /\ q.edge = z
    BY <1>2, <1>11, <1>12
  <2>3. {q.source : q \in {v \in e.edge_assertion : v.edge = z}}
          = {q.source : q \in {v \in A : v.edge = z}}
    BY <2>2
  <2>4. /\ DOMAIN new[z] = {q.source : q \in {v \in e.edge_assertion : v.edge = z}}
        /\ DOMAIN edges[z] = {q.source : q \in {v \in A : v.edge = z}}
        /\ new[z] = [v \in DOMAIN new[z] |-> new[z][v]]
        /\ edges[z] = [v \in DOMAIN edges[z] |-> edges[z][v]]
    BY <1>9, <2>1 DEF EdgeMapOf
  <2>5. ASSUME NEW v \in DOMAIN new[z] PROVE new[z][v] = edges[z][v]
    <3>1. PICK q \in e.edge_assertion : q.edge = z /\ q.source = v
      BY <2>4
    <3>2. q \in A
      BY <2>2, <3>1
    <3>3. QED BY <1>9, <2>1, <3>1, <3>2 DEF EdgeMapOf
  <2>6. QED BY <2>3, <2>4, <2>5
<1>13. new[k] = Mem!With(old, p, t)
  <2>1. /\ k \in e.edge
        /\ DOMAIN new[k] = {q.source : q \in {v \in e.edge_assertion : v.edge = k}}
        /\ new[k] = [v \in DOMAIN new[k] |-> new[k][v]]
    BY <1>5, <1>9 DEF EdgeMapOf
  <2>2. DOMAIN old = {q.source : q \in {v \in A : v.edge = k}}
    <3>1. CASE k \in db.edge
      BY <1>9, <3>1 DEF EdgeMapOf
    <3>2. CASE k \notin db.edge
      <4>1. \A q \in A : q.edge # k
        BY <3>2 DEF Sound, ForeignKeys
      <4>2. old = Mem!Empty /\ DOMAIN Mem!Empty = {}
        BY <1>9, <3>2 DEF EdgeMapOf, Mem!Empty
      <4>3. QED BY <4>1, <4>2
    <3>3. QED BY <3>1, <3>2
  <2>3. DOMAIN new[k] = DOMAIN old \union {p}
    <3>1. row \in {v \in e.edge_assertion : v.edge = k} /\ row.source = p
      BY <1>2, <1>11
    <3>2. ASSUME NEW v \in DOMAIN new[k] PROVE v \in DOMAIN old \union {p}
      <4>1. PICK q \in e.edge_assertion : q.edge = k /\ q.source = v
        BY <2>1
      <4>2. CASE q = row
        BY <1>2, <4>1, <4>2
      <4>3. CASE q \in A
        BY <2>2, <4>1, <4>3
      <4>4. QED BY <1>11, <4>2, <4>3
    <3>3. ASSUME NEW v \in DOMAIN old, v # p PROVE v \in DOMAIN new[k]
      <4>1. PICK q \in A : q.edge = k /\ q.source = v
        BY <2>2
      <4>2. q \in e.edge_assertion
        BY <1>11, <3>3, <4>1
      <4>3. QED BY <2>1, <4>1, <4>2
    <3>4. p \in DOMAIN new[k]
      BY <2>1, <3>1
    <3>5. QED BY <3>2, <3>3, <3>4
  <2>4. new[k][p] = t
    BY <1>2, <1>9, <1>11, <2>1 DEF EdgeMapOf
  <2>5. ASSUME NEW v \in DOMAIN new[k], v # p PROVE new[k][v] = old[v]
    <3>1. PICK q \in e.edge_assertion : q.edge = k /\ q.source = v
      BY <2>1
    <3>2. q \in A
      BY <1>2, <1>11, <2>5, <3>1
    <3>3. k \in db.edge
      BY <3>1, <3>2 DEF Sound, ForeignKeys
    <3>4. new[k][v] = q.at /\ edges[k][v] = q.at /\ k \in DOMAIN edges
      BY <1>9, <2>1, <3>1, <3>2, <3>3 DEF EdgeMapOf
    <3>5. QED BY <3>4
  <2> HIDE DEF old, new
  <2>6. QED BY <2>1, <2>3, <2>4, <2>5 DEF Mem!With
<1>14. new = [z \in DOMAIN new |-> new[z]]
  BY DEF EdgeMap
<1> HIDE DEF new, old
<1>15. new = Mem!With(edges, k, Mem!With(old, p, t))
  <2> HIDE DEF edges
  <2> DEFINE w == Mem!With(old, p, t)
  <2>1. new[k] = w
    BY <1>13
  <2> HIDE DEF w
  <2>2. new = Mem!With(edges, k, w)
    BY <1>10, <1>12, <1>14, <2>1 DEF Mem!With
  <2>3. QED BY <2>2 DEF w
<1>16. NodeAssertionMap(e) = NodeAssertionMap(db) /\ ArtifactMap(e) = ArtifactMap(db)
  BY <1>5, SameMaps
<1>17. db' = e
  BY DEF e, mid, row, k
<1>18. EdgeMap(e) = Mem!With(EdgeMap(db), <<x, y, r>>,
           Mem!With(IF <<x, y, r>> \in DOMAIN EdgeMap(db) THEN EdgeMap(db)[<<x, y, r>>]
                    ELSE Mem!Empty, p, t))
  BY <1>15 DEF new, old, k
<1>19. Mem!PutEdge(x, y, r, p, t)
  BY <1>5, <1>16, <1>17, <1>18 DEF Mem!PutEdge
<1>20. QED
  BY <1>4, <1>5, <1>6, <1>7, <1>8, <1>17, <1>19 DEF Sound

LEMMA GreatestBelow ==
  ASSUME NEW S \in SUBSET Nat, S # {}, NEW b \in Nat, \A x \in S : x <= b
  PROVE  \E m \in S : \A x \in S : x <= m
<1> DEFINE T == {b - x : x \in S}
<1>1. T \in SUBSET Nat /\ T # {}
  <2>1. \A x \in S : b - x \in Nat
    OBVIOUS
  <2>2. PICK x \in S : TRUE
    OBVIOUS
  <2>3. b - x \in T
    OBVIOUS
  <2>4. QED BY <2>1, <2>3
<1>2. PICK t \in T : \A u \in T : t <= u
  <2> HIDE DEF T
  <2>1. QED BY <1>1, LeastProperty
<1>3. PICK m \in S : t = b - m
  OBVIOUS
<1>4. \A x \in S : b - m <= b - x
  BY <1>2, <1>3
<1>5. QED BY <1>4

LEMMA NextVersions ==
  ASSUME Sound(db), NEW c \in Nat, VersionsBelow(db, c), NEW n, NEW role
  PROVE  /\ NextVersion(n, role) = Mem!NextVersion(n, role)
         /\ NextVersion(n, role) \in 1 .. c + 1
         /\ \A a \in db.artifacts : a.node = n /\ a.role = role => a.version < NextVersion(n, role)
<1> DEFINE V == {a.version : a \in {b \in db.artifacts : b.node = n /\ b.role = role}}
           W == V \union {0}
           m == Max(W)
<1>1. /\ Tables(db) /\ LostAreOld(db)
      /\ \A a \in db.artifacts : a.version \in Nat /\ 1 <= a.version /\ a.version <= c
  BY StoreAssumption DEF Sound, Tables, Artifact, VersionsBelow
<1>2. W \in SUBSET Nat /\ W # {} /\ \A x \in W : x <= c
  BY <1>1
<1>3. V \in SUBSET Nat
  BY <1>1
<1>4. NextVersion(n, role) = 1 + m
  BY DEF NextVersion
<1>5. {a.version : a \in Mem!RowsOf(n, role)} = V
  <2>1. Mem!RowsOf(n, role) = {Shown(a) : a \in RoleRows(db, n, role)}
    BY <1>1, RowsOfIs
  <2>2. \A a : Shown(a).version = a.version
    BY DEF Shown
  <2>3. ASSUME NEW a \in RoleRows(db, n, role)
        PROVE  \E b \in db.artifacts : b.node = n /\ b.role = role /\ b.version = a.version
    BY <1>1 DEF RoleRows, LostAreOld, ArtifactKey
  <2>4. \A b \in db.artifacts : b.node = n /\ b.role = role => b \in RoleRows(db, n, role)
    BY DEF RoleRows
  <2>5. \A x : x \in {a.version : a \in Mem!RowsOf(n, role)} <=>
               \E a \in RoleRows(db, n, role) : x = a.version
    BY <2>1, <2>2
  <2>6. \A x : x \in V <=>
               \E b \in db.artifacts : b.node = n /\ b.role = role /\ x = b.version
    OBVIOUS
  <2> HIDE DEF V
  <2>7. ASSUME NEW x, x \in {a.version : a \in Mem!RowsOf(n, role)} PROVE x \in V
    BY <2>3, <2>5, <2>6, <2>7
  <2>8. ASSUME NEW x, x \in V PROVE x \in {a.version : a \in Mem!RowsOf(n, role)}
    BY <2>4, <2>5, <2>6, <2>8
  <2>9. QED BY <2>7, <2>8
<1> HIDE DEF V
<1>6. m \in W /\ \A x \in W : x <= m
  <2>1. PICK x \in W : \A y \in W : y <= x
    <3> HIDE DEF W
    <3>1. QED BY <1>2, GreatestBelow
  <2>2. \A y \in W : x >= y
    BY <1>2, <2>1
  <2> HIDE DEF W
  <2>3. m \in W /\ \A y \in W : m >= y
    BY <2>2 DEF Max
  <2>4. QED BY <1>2, <2>3
<1>7. m \in Nat /\ m <= c
  BY <1>2, <1>6
<1> HIDE DEF m
<1>8. 1 + m = Mem!NextVersion(n, role)
  <2>1. CASE V = {}
    <3>1. m = 0
      BY <1>6, <2>1
    <3>2. Mem!NextVersion(n, role) = 1
      BY <1>5, <2>1 DEF Mem!NextVersion
    <3>3. QED BY <3>1, <3>2
  <2>2. CASE V # {}
    <3> DEFINE k == CHOOSE v \in V : \A w \in V : w <= v
    <3>1. PICK x \in V : \A y \in V : y <= x
      BY <1>2, <1>3, <2>2, GreatestBelow
    <3>2. k \in V /\ \A w \in V : w <= k
      BY <3>1
    <3>3. Mem!NextVersion(n, role) = 1 + k
      BY <1>5, <2>2 DEF Mem!NextVersion
    <3> HIDE DEF k
    <3>4. k <= m
      BY <1>6, <3>2
    <3>5. m = 0 \/ m <= k
      BY <1>6, <3>2
    <3>6. m = k
      BY <1>3, <1>7, <3>2, <3>4, <3>5
    <3>7. QED BY <3>3, <3>6
  <2>3. QED BY <2>1, <2>2
<1>9. \A a \in db.artifacts : a.node = n /\ a.role = role => a.version < 1 + m
  <2>1. ASSUME NEW a \in db.artifacts, a.node = n, a.role = role
        PROVE  a.version < 1 + m
    <3>1. a.version \in V
      BY <2>1 DEF V
    <3>2. a.version <= m /\ a.version \in Nat
      BY <1>1, <1>6, <3>1
    <3>3. QED BY <1>7, <3>2
  <2>2. QED BY <2>1
<1>10. QED BY <1>4, <1>7, <1>8, <1>9

RecordIs(n, role, row, v, e, c) ==
  /\ Sound(e) /\ VersionsBelow(e, c + 1) /\ v = Mem!NextVersion(n, role)
  /\ e.node = db.node /\ e.alias = db.alias
  /\ NodeAssertionMap(e) = NodeAssertionMap(db) /\ EdgeMap(e) = EdgeMap(db)
  /\ ArtifactMap(e) = Mem!With(ArtifactMap(db), <<n, role>>,
       Mem!Demoted(Mem!RowsOf(n, role))
         \union {[version |-> v, current |-> TRUE, key |-> <<n, role, v>>]})

LEMMA RecordSafe ==
  ASSUME Sound(db), NEW c \in Nat, c < MaxCalls, VersionsBelow(db, c),
         NEW n \in LiveNodes, NEW role \in Roles, NEW row,
         row = [node |-> n, role |-> role, version |-> NextVersion(n, role),
                current |-> TRUE, key |-> <<n, role, NextVersion(n, role)>>]
  PROVE  /\ Tables(FlipCurrentOff(db, n, role))
         /\ Tables(ArtifactInsert(FlipCurrentOff(db, n, role), row))
         /\ \A a \in FlipCurrentOff(db, n, role).artifacts : ArtifactKey(a) # ArtifactKey(row)
         /\ RecordIs(n, role, row, NextVersion(n, role),
                     ArtifactInsert(FlipCurrentOff(db, n, role), row), c)
<1> DEFINE v == NextVersion(n, role)
           mid == FlipCurrentOff(db, n, role)
           e == ArtifactInsert(mid, row)
           A == db.artifacts
           flip(a) == IF a.node = n /\ a.role = role THEN [a EXCEPT !.current = FALSE] ELSE a
<1>1. Tables(db) /\ n \in DOMAIN db.node /\ n \in Ids /\ LostAreOld(db)
  BY DEF Sound, LiveNodes, Tables
<1>2. /\ v = Mem!NextVersion(n, role) /\ v \in 1 .. c + 1
      /\ \A a \in A : a.node = n /\ a.role = role => a.version < v
  BY NextVersions
<1> HIDE DEF v
<1>3. /\ row \in Artifact
      /\ row.node = n /\ row.role = role /\ row.version = v /\ row.current = TRUE
      /\ Shown(row) = [version |-> v, current |-> TRUE, key |-> <<n, role, v>>]
  <2>1. c + 1 <= MaxCalls /\ v \in 1 .. MaxCalls
    BY <1>2, StoreAssumption
  <2>2. QED BY <1>1, <2>1 DEF Artifact, Shown, v
<1>4. \A a \in A \union db.lost : a \in Artifact /\ ShownIs(a, n)
  BY <1>1, ShownRow DEF Tables
<1>5. Tables(mid) /\ Alike(db, mid, {"artifacts"}) /\ mid.artifacts = {flip(a) : a \in A}
  <2>1. Tables(mid) /\ Alike(db, mid, {"artifacts"})
    BY <1>1, FlipCurrentOffStep
  <2>2. mid.artifacts = {flip(a) : a \in A}
    BY <1>1 DEF FlipCurrentOff, Tables
  <2>3. QED BY <2>1, <2>2
<1>6. \A a \in A : /\ ArtifactKey(flip(a)) = ArtifactKey(a) /\ flip(a).node = a.node
                   /\ flip(a).role = a.role /\ flip(a).version = a.version
                   /\ flip(a).current => a.current /\ ~(a.node = n /\ a.role = role)
                   /\ ~(a.node = n /\ a.role = role) => flip(a) = a
                   /\ a.node = n /\ a.role = role =>
                        Shown(flip(a)) = [Shown(a) EXCEPT !.current = FALSE]
  <2>1. ASSUME NEW a \in A, a.node = n, a.role = role
        PROVE  /\ flip(a) = [a EXCEPT !.current = FALSE] /\ ~flip(a).current
               /\ flip(a).node = a.node /\ flip(a).role = a.role /\ flip(a).version = a.version
               /\ Shown(flip(a)) = [Shown(a) EXCEPT !.current = FALSE]
    BY <1>4, <2>1 DEF ShownIs
  <2>2. ASSUME NEW a \in A, ~(a.node = n /\ a.role = role)
        PROVE  flip(a) = a
    BY <2>2
  <2> HIDE DEF flip
  <2>3. QED BY <2>1, <2>2 DEF ArtifactKey
<1> HIDE DEF flip, mid
<1>7. Tables(e) /\ Alike(mid, e, {"artifacts"}) /\ e.artifacts = mid.artifacts \union {row}
  BY <1>3, <1>5, ArtifactInsertStep DEF ArtifactInsert, Tables
<1> HIDE DEF e
<1>8. /\ e.node = db.node /\ e.alias = db.alias /\ e.node_assertion = db.node_assertion
      /\ e.edge = db.edge /\ e.edge_assertion = db.edge_assertion /\ e.lost = db.lost
      /\ e.artifacts = {flip(a) : a \in A} \union {row}
  BY <1>5, <1>7 DEF Alike
<1>9. \A a \in mid.artifacts : ArtifactKey(a) # ArtifactKey(row)
  <2>1. \A a \in A : ArtifactKey(a) # ArtifactKey(row)
    <3> SUFFICES ASSUME NEW a \in A, ArtifactKey(a) = ArtifactKey(row) PROVE FALSE
      OBVIOUS
    <3>1. a.node = n /\ a.role = role /\ a.version = v
      BY <1>3 DEF ArtifactKey
    <3>2. a.version < v /\ v \in Int
      BY <1>2, <3>1
    <3>3. QED BY <3>1, <3>2
  <2>2. ASSUME NEW x \in mid.artifacts PROVE ArtifactKey(x) # ArtifactKey(row)
    <3>1. PICK a \in A : x = flip(a)
      BY <1>5
    <3>2. QED BY <1>6, <2>1, <3>1
  <2>3. QED BY <2>2
<1>10. ForeignKeys(e) /\ Decreases(e)
  BY <1>8 DEF Sound, ForeignKeys, Decreases
<1>11. OneRowPerKey(e)
  <2>1. \A a, b \in mid.artifacts : ArtifactKey(a) = ArtifactKey(b) => a = b
    BY <1>5, <1>6 DEF Sound, OneRowPerKey
  <2>2. \A a, b \in e.artifacts : ArtifactKey(a) = ArtifactKey(b) => a = b
    BY <1>7, <1>9, <2>1
  <2>3. QED BY <1>8, <2>2 DEF Sound, OneRowPerKey
<1>12. ArtifactsOwned(e)
  BY <1>1, <1>3, <1>6, <1>8 DEF Sound, ArtifactsOwned
<1>13. ASSUME NEW x \in e.artifacts
       PROVE  \E b \in e.artifacts : b.node = x.node /\ b.role = x.role /\ b.current
  <2>1. CASE x.node = n /\ x.role = role
    BY <1>3, <1>8, <2>1
  <2>2. CASE ~(x.node = n /\ x.role = role)
    <3>1. x \in A
      BY <1>3, <1>6, <1>8, <2>2
    <3>2. PICK b \in A : b.node = x.node /\ b.role = x.role /\ b.current
      BY <3>1 DEF Sound, CurrentThere
    <3>3. flip(b) = b
      BY <1>6, <2>2, <3>2
    <3>4. b \in e.artifacts
      BY <1>8, <3>3
    <3>5. QED BY <3>2, <3>4
  <2>3. QED BY <2>1, <2>2
<1>14. LostAreOld(e)
  <2>1. ASSUME NEW a \in db.lost
        PROVE  ~a.current /\ \E b \in e.artifacts : ArtifactKey(b) = ArtifactKey(a)
    <3>1. ~a.current
      BY <1>1 DEF LostAreOld
    <3>2. PICK b \in A : ArtifactKey(b) = ArtifactKey(a)
      BY <1>1 DEF LostAreOld
    <3>3. flip(b) \in e.artifacts /\ ArtifactKey(flip(b)) = ArtifactKey(a)
      BY <1>6, <1>8, <3>2
    <3>4. QED BY <3>1, <3>3
  <2>2. QED BY <1>8, <2>1 DEF LostAreOld
<1>15. VersionsBelow(e, c + 1)
  <2>1. \A a \in A : a.version <= c /\ a.version \in Nat
    BY <1>4 DEF VersionsBelow, Artifact
  <2>2. \A x \in e.artifacts : x.version = v \/ \E a \in A : x.version = a.version
    BY <1>3, <1>6, <1>8
  <2>3. QED BY <1>2, <2>1, <2>2 DEF VersionsBelow
<1> DEFINE artifacts == ArtifactMap(db)
           added == Mem!Demoted(Mem!RowsOf(n, role))
                      \union {[version |-> v, current |-> TRUE, key |-> <<n, role, v>>]}
<1>16. ArtifactMap(e) = Mem!With(artifacts, <<n, role>>, added)
  <2>1. /\ DOMAIN ArtifactMap(e) = {<<a.node, a.role>> : a \in e.artifacts}
        /\ DOMAIN artifacts = {<<a.node, a.role>> : a \in A}
        /\ ArtifactMap(e) = [k \in DOMAIN ArtifactMap(e) |-> ArtifactMap(e)[k]]
    BY DEF ArtifactMap
  <2>2. DOMAIN ArtifactMap(e) = DOMAIN artifacts \union {<<n, role>>}
    <3>1. \A a \in A : <<flip(a).node, flip(a).role>> = <<a.node, a.role>>
      BY <1>6
    <3>2. <<row.node, row.role>> = <<n, role>>
      BY <1>3
    <3> HIDE DEF artifacts
    <3>3. ASSUME NEW x \in e.artifacts
          PROVE  <<x.node, x.role>> \in {<<a.node, a.role>> : a \in A} \union {<<n, role>>}
      BY <1>8, <3>1, <3>2
    <3>4. ASSUME NEW a \in A PROVE \E x \in e.artifacts : <<x.node, x.role>> = <<a.node, a.role>>
      BY <1>8, <3>1
    <3>5. \E x \in e.artifacts : <<x.node, x.role>> = <<n, role>>
      BY <1>8, <3>2
    <3>6. QED BY <2>1, <3>3, <3>4, <3>5
  <2>3. \A k \in DOMAIN ArtifactMap(e) :
          ArtifactMap(e)[k] =
            {Shown(a) : a \in {b \in e.artifacts \union e.lost : <<b.node, b.role>> = k}}
    BY DEF ArtifactMap
  <2>4. \A k \in DOMAIN artifacts :
          artifacts[k] =
            {Shown(a) : a \in {b \in A \union db.lost : <<b.node, b.role>> = k}}
    BY DEF ArtifactMap
  <2> HIDE DEF artifacts
  <2>5. ASSUME NEW k \in DOMAIN ArtifactMap(e), k # <<n, role>>
        PROVE  ArtifactMap(e)[k] = artifacts[k]
    <3>1. \A b : b \in e.artifacts \union e.lost /\ <<b.node, b.role>> = k
                   <=> b \in A \union db.lost /\ <<b.node, b.role>> = k
      <4>1. ASSUME NEW b \in e.artifacts, <<b.node, b.role>> = k PROVE b \in A
        BY <1>3, <1>6, <1>8, <2>5, <4>1
      <4>2. ASSUME NEW b \in A, <<b.node, b.role>> = k PROVE b \in e.artifacts
        <5>1. flip(b) = b
          BY <1>6, <2>5, <4>2
        <5>2. QED BY <1>8, <5>1
      <4>3. QED BY <1>8, <4>1, <4>2
    <3>2. {b \in e.artifacts \union e.lost : <<b.node, b.role>> = k}
            = {b \in A \union db.lost : <<b.node, b.role>> = k}
      BY <3>1
    <3>3. k \in DOMAIN artifacts
      BY <2>2, <2>5
    <3>4. QED BY <2>3, <2>4, <3>2, <3>3
  <2>6. ArtifactMap(e)[<<n, role>>] = added
    <3> DEFINE S == {b \in e.artifacts \union e.lost : <<b.node, b.role>> = <<n, role>>}
               R == RoleRows(db, n, role)
    <3>1. Mem!RowsOf(n, role) = {Shown(a) : a \in R}
      BY <1>1, RowsOfIs
    <3>2. ASSUME NEW b \in S PROVE Shown(b) \in added
      <4>1. b.node = n /\ b.role = role
        OBVIOUS
      <4>2. CASE b = row
        BY <1>3, <4>2
      <4>3. ASSUME NEW a \in A, b = flip(a) PROVE Shown(b) \in added
        <5>1. a \in R /\ Shown(b) = [Shown(a) EXCEPT !.current = FALSE]
          BY <1>6, <4>1, <4>3 DEF RoleRows
        <5>2. QED BY <3>1, <5>1 DEF Mem!Demoted
      <4>4. CASE b \in db.lost
        <5>1. b \in R /\ Shown(b) = [Shown(b) EXCEPT !.current = FALSE]
          BY <1>1, <1>4, <4>1, <4>4 DEF RoleRows, LostAreOld, ShownIs
        <5>2. QED BY <3>1, <5>1 DEF Mem!Demoted
      <4>5. QED BY <1>8, <4>2, <4>3, <4>4
    <3>3. ASSUME NEW a \in R PROVE [Shown(a) EXCEPT !.current = FALSE] \in {Shown(b) : b \in S}
      <4>1. a.node = n /\ a.role = role /\ (a \in A \/ a \in db.lost)
        BY DEF RoleRows
      <4>2. CASE a \in A
        <5>1. flip(a) \in S /\ Shown(flip(a)) = [Shown(a) EXCEPT !.current = FALSE]
          BY <1>6, <1>8, <4>1, <4>2
        <5>2. QED BY <5>1
      <4>3. CASE a \in db.lost
        <5>1. a \in S /\ Shown(a) = [Shown(a) EXCEPT !.current = FALSE]
          BY <1>1, <1>4, <1>8, <4>1, <4>3 DEF LostAreOld, ShownIs
        <5>2. QED BY <5>1
      <4>4. QED BY <4>1, <4>2, <4>3
    <3>4. Shown(row) \in {Shown(b) : b \in S}
      BY <1>3, <1>8
    <3>5. ASSUME NEW x \in added PROVE x \in {Shown(b) : b \in S}
      <4>1. CASE x = Shown(row)
        BY <3>4, <4>1
      <4>2. ASSUME NEW a \in R, x = [Shown(a) EXCEPT !.current = FALSE]
            PROVE  x \in {Shown(b) : b \in S}
        BY <3>3, <4>2
      <4>3. x = Shown(row) \/ \E a \in R : x = [Shown(a) EXCEPT !.current = FALSE]
        BY <1>3, <3>1 DEF Mem!Demoted
      <4>4. QED BY <4>1, <4>2, <4>3
    <3>6. <<n, role>> \in DOMAIN ArtifactMap(e)
      BY <2>2
    <3>7. ArtifactMap(e)[<<n, role>>] = {Shown(b) : b \in S}
      BY <2>3, <3>6
    <3> HIDE DEF added, S
    <3>8. QED BY <3>2, <3>5, <3>7
  <2> HIDE DEF added
  <2>7. QED BY <2>1, <2>2, <2>5, <2>6 DEF Mem!With
<1>17. NodeAssertionMap(e) = NodeAssertionMap(db) /\ EdgeMap(e) = EdgeMap(db)
  BY <1>8, SameMaps
<1>18. RecordIs(n, role, row, v, e, c)
  BY <1>2, <1>7, <1>8, <1>10, <1>11, <1>12, <1>13, <1>14, <1>15, <1>16, <1>17
     DEF Sound, CurrentThere, RecordIs
<1>19. QED BY <1>5, <1>7, <1>9, <1>18 DEF e, mid, v

LEMMA RecordCommits ==
  ASSUME Sound(db), NEW c \in Nat, c < MaxCalls, VersionsBelow(db, c),
         NEW n \in LiveNodes, NEW role \in Roles, NEW row,
         row = [node |-> n, role |-> role, version |-> NextVersion(n, role),
                current |-> TRUE, key |-> <<n, role, NextVersion(n, role)>>],
         db' = ArtifactInsert(FlipCurrentOff(db, n, role), row)
  PROVE  /\ Sound(db') /\ VersionsBelow(db', c + 1)
         /\ Mem!Record(n, role, Mem!NextVersion(n, role))
<1>1. RecordIs(n, role, row, NextVersion(n, role), db', c)
  BY RecordSafe
<1>2. QED BY <1>1 DEF RecordIs, Mem!Record

(* The redirects of the walk from n, of which D have been repointed. *)
Walked(d, n) == {x \in Chain(Redirect(d), n) : Redirect(d)[x] # NoId}
Pointed(d, e, D, root) ==
  /\ Alike(d, e, {"node"}) /\ DOMAIN e.node = DOMAIN d.node
  /\ \A x \in DOMAIN d.node :
       e.node[x] = IF x \in D THEN [d.node[x] EXCEPT !.merged_into = root] ELSE d.node[x]

LEMMA WalkInside ==
  ASSUME NEW d, Sound(d), NEW n \in DOMAIN d.node
  PROVE  /\ Redirect(d) \in Redirection /\ Decreasing(Redirect(d)) /\ n \in Ids
         /\ Chain(Redirect(d), n) \subseteq DOMAIN d.node
         /\ Root(Redirect(d), n) \in DOMAIN d.node
         /\ Walked(d, n) \subseteq DOMAIN d.node /\ IsFiniteSet(Walked(d, n))
         /\ \A x \in Walked(d, n) : Root(Redirect(d), n) < x
<1> DEFINE m == Redirect(d)
<1>1. /\ DOMAIN d.node \subseteq Ids /\ d.node \in [DOMAIN d.node -> Node] /\ n \in Ids
  BY DEF Sound, Tables
<1>2. m \in Redirection
  BY <1>1 DEF Redirect, Redirection, Node
<1>3. \A x \in Ids : m[x] = IF x \in DOMAIN d.node THEN d.node[x].merged_into ELSE NoId
  BY DEF Redirect
<1> HIDE DEF m
<1>4. Decreasing(m)
  BY <1>3 DEF Decreasing, Sound, Decreases
<1>5. ClosedUnder(m, DOMAIN d.node)
  BY <1>1, <1>3 DEF ClosedUnder, Sound, ForeignKeys
<1>6. Chain(m, n) \subseteq DOMAIN d.node
  BY <1>1, <1>2, <1>5, ChainMinimal
<1>7. /\ Root(m, n) \in Chain(m, n) /\ m[Root(m, n)] = NoId
      /\ \A x \in Chain(m, n) : Root(m, n) <= x
  BY <1>1, <1>2, <1>4, RootProperty
<1>8. Walked(d, n) \subseteq Chain(m, n) /\ \A x \in Walked(d, n) : m[x] # NoId
  BY DEF Walked, m
<1>9. IsFiniteSet(Walked(d, n))
  BY <1>1, <1>6, <1>8, IdsAssumption, FS_Subset
<1>10. \A x \in Walked(d, n) : Root(m, n) < x
  <2>1. \A x \in Walked(d, n) : Root(m, n) # x /\ Root(m, n) <= x /\ x \in Nat /\ Root(m, n) \in Nat
    BY <1>1, <1>6, <1>7, <1>8, IdsAssumption
  <2>2. QED BY <2>1
<1>11. QED BY <1>1, <1>2, <1>4, <1>6, <1>7, <1>8, <1>9, <1>10 DEF m

LEMMA PointedOn ==
  ASSUME NEW d, NEW e, Tables(d), Tables(e), NEW D, NEW root \in Ids, NEW x \in DOMAIN d.node,
         Pointed(d, e, D, root)
  PROVE  Pointed(d, MergeRedirect(e, root, x), D \union {x}, root)
<1> DEFINE f == MergeRedirect(e, root, x)
<1>1. Tables(f) /\ Alike(e, f, {"node"})
  BY MergeRedirectStep DEF Tables
<1>2. /\ DOMAIN f.node = DOMAIN e.node
      /\ \A z \in DOMAIN e.node :
           f.node[z] = IF z = x THEN [e.node[z] EXCEPT !.merged_into = root] ELSE e.node[z]
  BY DEF MergeRedirect, Tables
<1> HIDE DEF f
<1>3. Alike(d, f, {"node"})
  BY <1>1 DEF Alike, Pointed
<1>4. [e.node[x] EXCEPT !.merged_into = root] = [d.node[x] EXCEPT !.merged_into = root]
  <2>1. d.node[x] \in Node
    BY DEF Tables
  <2>2. e.node[x] = d.node[x] \/ e.node[x] = [d.node[x] EXCEPT !.merged_into = root]
    BY DEF Pointed
  <2>3. QED BY <2>1, <2>2 DEF Node
<1>5. QED BY <1>2, <1>3, <1>4 DEF Pointed, f

LEMMA PointedKeys ==
  ASSUME NEW d, NEW e, Sound(d), Tables(e), NEW D, NEW n \in DOMAIN d.node,
         Pointed(d, e, D, Root(Redirect(d), n))
  PROVE  ForeignKeys(e)
<1>1. Root(Redirect(d), n) \in DOMAIN d.node
  BY WalkInside
<1>2. /\ e.alias = d.alias /\ e.node_assertion = d.node_assertion /\ e.edge = d.edge
      /\ e.edge_assertion = d.edge_assertion /\ DOMAIN e.node = DOMAIN d.node
  BY DEF Pointed, Alike
<1>3. \A x \in DOMAIN d.node :
        e.node[x].merged_into \in {d.node[x].merged_into, Root(Redirect(d), n)}
  <2>1. d.node \in [DOMAIN d.node -> Node]
    BY DEF Sound, Tables
  <2>2. QED BY <2>1 DEF Pointed, Node
<1>4. QED BY <1>1, <1>2, <1>3 DEF Sound, ForeignKeys

LEMMA ResolveCommits ==
  ASSUME Sound(db), NEW n \in DOMAIN db.node, Tables(db'),
         Pointed(db, db', Walked(db, n), Root(Redirect(db), n))
  PROVE  Sound(db') /\ Mem!ResolveLive(n) /\ db'.artifacts = db.artifacts
<1> DEFINE m == Redirect(db)
           root == Root(m, n)
           e == db'
<1>1. /\ m \in Redirection /\ Decreasing(m) /\ n \in Ids
      /\ Walked(db, n) \subseteq DOMAIN db.node
      /\ \A x \in Walked(db, n) : root < x
      /\ db.node \in [DOMAIN db.node -> Node] /\ DOMAIN db.node \subseteq Ids
  BY WalkInside DEF Sound, Tables
<1>2. /\ e.alias = db.alias /\ e.node_assertion = db.node_assertion /\ e.edge = db.edge
      /\ e.edge_assertion = db.edge_assertion /\ e.artifacts = db.artifacts /\ e.lost = db.lost
      /\ DOMAIN e.node = DOMAIN db.node
  BY DEF Pointed, Alike
<1>3. ForeignKeys(e)
  BY PointedKeys
<1>4. \A x \in DOMAIN db.node :
        e.node[x] = IF x \in Walked(db, n) THEN [db.node[x] EXCEPT !.merged_into = root]
                    ELSE db.node[x]
  BY DEF Pointed
<1>5. \A x \in DOMAIN db.node :
        e.node[x].merged_into = IF x \in Walked(db, n) THEN root ELSE db.node[x].merged_into
  BY <1>1, <1>4 DEF Node
<1>6. Decreases(e)
  BY <1>1, <1>2, <1>5 DEF Decreases, Sound
<1>7. OneRowPerKey(e) /\ ArtifactsOwned(e) /\ CurrentThere(e) /\ LostAreOld(e)
  BY <1>2 DEF Sound, OneRowPerKey, ArtifactsOwned, CurrentThere, LostAreOld
<1>8. Mem!ResolveLive(n)
  <2>1. ASSUME NEW x \in DOMAIN db.node
        PROVE  e.node[x] = [db.node[x] EXCEPT !.merged_into = Compressed(m, n)[x]]
    <3>1. x \in Ids /\ m[x] = db.node[x].merged_into
      BY <1>1 DEF Redirect
    <3>2. CASE x \in Walked(db, n)
      <4>1. Compressed(m, n)[x] = root
        BY <3>1, <3>2 DEF Compressed, Walked
      <4>2. QED BY <1>4, <3>2, <4>1
    <3>3. CASE x \notin Walked(db, n)
      <4>1. Compressed(m, n)[x] = m[x]
        BY <3>1, <3>3 DEF Compressed, Walked
      <4>2. [db.node[x] EXCEPT !.merged_into = db.node[x].merged_into] = db.node[x]
        BY <1>1 DEF Node
      <4>3. QED BY <1>4, <3>1, <3>3, <4>1, <4>2
    <3>4. QED BY <3>2, <3>3
  <2>2. e.node = [x \in DOMAIN e.node |-> e.node[x]]
    BY DEF Tables
  <2>3. e.node = [x \in DOMAIN db.node |->
                    [db.node[x] EXCEPT !.merged_into = Mem!Compressed(Mem!Redirect, n)[x]]]
    <3>1. Mem!Compressed(Mem!Redirect, n) = Compressed(m, n)
      BY MemWalks
    <3>2. e.node = [x \in DOMAIN db.node |->
                      [db.node[x] EXCEPT !.merged_into = Compressed(m, n)[x]]]
      BY <1>2, <2>1, <2>2
    <3>3. QED BY <3>1, <3>2, Zenon
  <2>4. /\ NodeAssertionMap(e) = NodeAssertionMap(db) /\ EdgeMap(e) = EdgeMap(db)
        /\ ArtifactMap(e) = ArtifactMap(db)
    BY <1>2, SameMaps
  <2>5. QED BY <1>2, <2>3, <2>4 DEF Mem!ResolveLive
<1>9. QED BY <1>2, <1>3, <1>6, <1>7, <1>8 DEF Sound
------------------------------------------------------------------------------
(* The stories: an operation that is under way has been started on the     *)
(* committed tables, and its working copy is what some of its statements   *)
(* have made of them.                                                      *)

CreatePlan(op, args, batch, works) ==
  \E n \in Ids \ DOMAIN db.node, k \in Kinds :
    /\ op = "create_node" /\ args = [n |-> n, kind |-> k] /\ batch = <<"NODE_INSERT">>
    /\ works = <<db, NodeInsert(db, n, k)>>
AliasPlan(op, args, batch, works) ==
  \E a \in Aliases, n \in LiveNodes :
    /\ op = "get_or_create_alias" /\ args = [alias |-> a, n |-> n] /\ batch = <<"ALIAS_INSERT">>
    /\ works = <<db, AliasInsert(db, a, n)>>
AssertionPlan(op, args, batch, works) ==
  \E n \in LiveNodes, p \in Sources, t \in Stamps :
    /\ op = "upsert_node_assertion" /\ args = [row |-> [node |-> n, source |-> p, at |-> t]]
    /\ batch = <<"NODE_ASSERTION_UPSERT">>
    /\ works = <<db, NodeAssertionUpsert(db, args.row)>>
EdgePlan(op, args, batch, works) ==
  \E x, y \in LiveNodes, r \in Relations, p \in Sources, t \in Stamps :
    /\ op = "put_edge" /\ args = [row |-> [edge |-> <<x, y, r>>, source |-> p, at |-> t]]
    /\ batch = <<"EDGE_INSERT", "EDGE_ASSERTION_UPSERT">>
    /\ works = <<db, EdgeInsert(db, <<x, y, r>>),
                 EdgeAssertionUpsert(EdgeInsert(db, <<x, y, r>>), args.row)>>
RecordPlan(op, args, batch, works) ==
  \E n \in LiveNodes, role \in Roles :
    /\ op = "record"
    /\ args = [row |-> [node |-> n, role |-> role, version |-> NextVersion(n, role),
                        current |-> TRUE, key |-> <<n, role, NextVersion(n, role)>>]]
    /\ batch = <<"FLIP_CURRENT_OFF", "ARTIFACT_INSERT">>
    /\ works = <<db, FlipCurrentOff(db, n, role),
                 ArtifactInsert(FlipCurrentOff(db, n, role), args.row)>>
MergePlan(op, args, batch, works) ==
  \E s, l \in LiveNodes :
    /\ s < l /\ op = "merge" /\ args = [s |-> s, l |-> l] /\ batch = MergeBatch
    /\ works = MergeWorks(db, s, l)
DeletePlan(op, args, batch, works) ==
  \E n \in LiveNodes :
    /\ op = "delete_work_network" /\ batch = DeleteBatch
    /\ args = [net |-> NetworkOf(Redirect(db), DOMAIN db.node, n)]
    /\ works = DeleteWorks(db, args.net)

Plan(op, args, batch, works) ==
  \/ CreatePlan(op, args, batch, works) \/ AliasPlan(op, args, batch, works)
  \/ AssertionPlan(op, args, batch, works) \/ EdgePlan(op, args, batch, works)
  \/ RecordPlan(op, args, batch, works) \/ MergePlan(op, args, batch, works)
  \/ DeletePlan(op, args, batch, works)

(* A primary key that is taken: the first cause of Fails. *)
Collides(o, st, d) ==
  \/ st = "EDGE_SRC_REPOINT" /\ \E e \in d.edge : e[1] = o.l /\ SrcMoved(e, o.s) \in d.edge
  \/ st = "EDGE_DST_REPOINT" /\ \E e \in d.edge : e[2] = o.l /\ DstMoved(e, o.s) \in d.edge
  \/ st = "ARTIFACT_INSERT" /\ \E a \in d.artifacts : ArtifactKey(a) = ArtifactKey(o.row)

PlanHolds(op, args, batch, works) ==
  /\ op \notin {"resolve_live", "none"}
  /\ batch \in Seq(ToSet(batch)) /\ Len(batch) > 0
  /\ Stages(args, batch, works) /\ works[1] = db
  /\ \A i \in 1 .. Len(batch) + 1 : Tables(works[i])
  /\ \A i \in 1 .. Len(batch) : ~Collides(args, batch[i], works[i])
  /\ op # "merge" => \A i \in 1 .. Len(batch) : ForeignKeys(works[i + 1])

LEMMA NodeInsertKeys ==
  ASSUME NEW d, Tables(d), ForeignKeys(d), NEW n, NEW k
  PROVE  ForeignKeys(NodeInsert(d, n, k))
BY DEF NodeInsert, Tables, ForeignKeys, With

LEMMA AliasInsertKeys ==
  ASSUME NEW d, Tables(d), ForeignKeys(d), NEW a, NEW n \in DOMAIN d.node
  PROVE  ForeignKeys(AliasInsert(d, a, n))
BY DEF AliasInsert, Tables, ForeignKeys, With

LEMMA AssertionUpsertKeys ==
  ASSUME NEW d, Tables(d), ForeignKeys(d), NEW row, row.node \in DOMAIN d.node
  PROVE  ForeignKeys(NodeAssertionUpsert(d, row))
BY DEF NodeAssertionUpsert, Tables, ForeignKeys, Replaced

LEMMA EdgeUpsertKeys ==
  ASSUME NEW d, Tables(d), ForeignKeys(d), NEW row,
         row.edge[1] \in DOMAIN d.node, row.edge[2] \in DOMAIN d.node
  PROVE  /\ ForeignKeys(EdgeInsert(d, row.edge))
         /\ ForeignKeys(EdgeAssertionUpsert(EdgeInsert(d, row.edge), row))
<1> DEFINE e == EdgeInsert(d, row.edge)
<1>1. /\ e.node = d.node /\ e.alias = d.alias /\ e.node_assertion = d.node_assertion
      /\ e.edge = d.edge \union {row.edge} /\ e.edge_assertion = d.edge_assertion
      /\ DOMAIN e = DOMAIN d
  BY DEF EdgeInsert, Tables
<1> HIDE DEF e
<1>2. ForeignKeys(e)
  BY <1>1 DEF ForeignKeys
<1>3. ForeignKeys(EdgeAssertionUpsert(e, row))
  BY <1>1, <1>2 DEF EdgeAssertionUpsert, Tables, ForeignKeys, Replaced
<1>4. QED BY <1>2, <1>3 DEF e

LEMMA ArtifactKeys ==
  ASSUME NEW d, Tables(d), ForeignKeys(d), NEW n, NEW role, NEW row
  PROVE  /\ ForeignKeys(FlipCurrentOff(d, n, role))
         /\ ForeignKeys(ArtifactInsert(FlipCurrentOff(d, n, role), row))
BY DEF FlipCurrentOff, ArtifactInsert, Tables, ForeignKeys

LEMMA CreateHolds ==
  ASSUME Sound(db), NEW op, NEW args, NEW batch, NEW works, CreatePlan(op, args, batch, works)
  PROVE  PlanHolds(op, args, batch, works)
<1>1. PICK n \in Ids \ DOMAIN db.node, k \in Kinds :
        /\ op = "create_node" /\ args = [n |-> n, kind |-> k] /\ batch = <<"NODE_INSERT">>
        /\ works = <<db, NodeInsert(db, n, k)>>
  BY DEF CreatePlan
<1>2. Len(batch) = 1 /\ batch[1] = "NODE_INSERT" /\ batch \in Seq(ToSet(batch))
  BY <1>1 DEF ToSet
<1>3. works[1] = db /\ works[2] = NodeInsert(db, n, k)
  BY <1>1
<1>4. Tables(works[1]) /\ Tables(works[2])
  BY <1>3, NodeInsertStep DEF Sound
<1>5. works[2] = Effect(args, batch[1], works[1])
  BY <1>1, <1>2, <1>3, EffectIs
<1>6. ForeignKeys(works[2])
  BY <1>3, NodeInsertKeys DEF Sound
<1> HIDE DEF Tables
<1>7. QED BY <1>1, <1>2, <1>3, <1>4, <1>5, <1>6 DEF PlanHolds, Stages, Collides

LEMMA AliasHolds ==
  ASSUME Sound(db), NEW op, NEW args, NEW batch, NEW works, AliasPlan(op, args, batch, works)
  PROVE  PlanHolds(op, args, batch, works)
<1>1. PICK a \in Aliases, n \in LiveNodes :
        /\ op = "get_or_create_alias" /\ args = [alias |-> a, n |-> n]
        /\ batch = <<"ALIAS_INSERT">> /\ works = <<db, AliasInsert(db, a, n)>>
  BY DEF AliasPlan
<1>2. Len(batch) = 1 /\ batch[1] = "ALIAS_INSERT" /\ batch \in Seq(ToSet(batch))
  BY <1>1 DEF ToSet
<1>3. works[1] = db /\ works[2] = AliasInsert(db, a, n)
  BY <1>1
<1>4. Tables(works[1]) /\ Tables(works[2])
  <2>1. Tables(db) /\ n \in Ids
    BY DEF Sound, Tables, LiveNodes
  <2>2. QED BY <1>3, <2>1, AliasInsertStep
<1>5. works[2] = Effect(args, batch[1], works[1])
  BY <1>1, <1>2, <1>3, EffectIs
<1>6. ForeignKeys(works[2])
  BY <1>3, AliasInsertKeys DEF Sound, LiveNodes
<1>7. QED BY <1>1, <1>2, <1>3, <1>4, <1>5, <1>6 DEF PlanHolds, Stages, Collides

LEMMA AssertionHolds ==
  ASSUME Sound(db), NEW op, NEW args, NEW batch, NEW works, AssertionPlan(op, args, batch, works)
  PROVE  PlanHolds(op, args, batch, works)
<1>1. PICK n \in LiveNodes, p \in Sources, t \in Stamps :
        /\ op = "upsert_node_assertion" /\ args = [row |-> [node |-> n, source |-> p, at |-> t]]
        /\ batch = <<"NODE_ASSERTION_UPSERT">>
        /\ works = <<db, NodeAssertionUpsert(db, args.row)>>
  BY DEF AssertionPlan
<1>2. Len(batch) = 1 /\ batch[1] = "NODE_ASSERTION_UPSERT" /\ batch \in Seq(ToSet(batch))
  BY <1>1 DEF ToSet
<1>3. works[1] = db /\ works[2] = NodeAssertionUpsert(db, args.row)
  BY <1>1
<1>4. Tables(works[1]) /\ Tables(works[2])
  <2>1. Tables(db) /\ args.row \in NodeAssertion
    BY <1>1 DEF Sound, Tables, LiveNodes, NodeAssertion
  <2>2. QED BY <1>3, <2>1, NodeAssertionUpsertStep
<1>5. works[2] = Effect(args, batch[1], works[1])
  BY <1>2, <1>3, EffectIs
<1>6. ForeignKeys(works[2])
  <2>1. args.row.node \in DOMAIN db.node
    BY <1>1 DEF LiveNodes
  <2>2. QED BY <1>3, <2>1, AssertionUpsertKeys DEF Sound
<1>7. QED BY <1>1, <1>2, <1>3, <1>4, <1>5, <1>6 DEF PlanHolds, Stages, Collides

LEMMA EdgeHolds ==
  ASSUME Sound(db), NEW op, NEW args, NEW batch, NEW works, EdgePlan(op, args, batch, works)
  PROVE  PlanHolds(op, args, batch, works)
<1>1. PICK x, y \in LiveNodes, r \in Relations, p \in Sources, t \in Stamps :
        /\ op = "put_edge" /\ args = [row |-> [edge |-> <<x, y, r>>, source |-> p, at |-> t]]
        /\ batch = <<"EDGE_INSERT", "EDGE_ASSERTION_UPSERT">>
        /\ works = <<db, EdgeInsert(db, <<x, y, r>>),
                     EdgeAssertionUpsert(EdgeInsert(db, <<x, y, r>>), args.row)>>
  BY DEF EdgePlan
<1>2. /\ Len(batch) = 2 /\ batch[1] = "EDGE_INSERT" /\ batch[2] = "EDGE_ASSERTION_UPSERT"
      /\ batch \in Seq(ToSet(batch))
  BY <1>1 DEF ToSet
<1>3. /\ works[1] = db /\ works[2] = EdgeInsert(db, <<x, y, r>>)
      /\ works[3] = EdgeAssertionUpsert(works[2], args.row)
  BY <1>1
<1>4. args.row.edge = <<x, y, r>> /\ args.row \in EdgeAssertion /\ <<x, y, r>> \in Edge
  BY <1>1 DEF Sound, Tables, LiveNodes, EdgeAssertion, Edge
<1>5. Tables(works[1]) /\ Tables(works[2]) /\ Tables(works[3])
  <2>1. Tables(db)
    BY DEF Sound
  <2>2. Tables(works[2])
    BY <1>3, <1>4, <2>1, EdgeInsertStep
  <2>3. QED BY <1>3, <1>4, <2>1, <2>2, EdgeAssertionUpsertStep
<1>6. /\ works[2] = Effect(args, batch[1], works[1])
      /\ works[3] = Effect(args, batch[2], works[2])
  BY <1>2, <1>3, <1>4, EffectIs
<1>7. ForeignKeys(works[2]) /\ ForeignKeys(works[3])
  <2>1. /\ works[2] = EdgeInsert(db, args.row.edge)
        /\ args.row.edge[1] \in DOMAIN db.node /\ args.row.edge[2] \in DOMAIN db.node
    BY <1>1, <1>3, <1>4 DEF LiveNodes
  <2>2. QED BY <1>3, <2>1, EdgeUpsertKeys DEF Sound
<1>8. Stages(args, batch, works)
  <2>1. \A i \in 1 .. 2 : i = 1 \/ i = 2
    OBVIOUS
  <2>2. QED BY <1>2, <1>6, <2>1 DEF Stages
<1>9. QED BY <1>1, <1>2, <1>3, <1>5, <1>7, <1>8 DEF PlanHolds, Collides

LEMMA RecordHolds ==
  ASSUME Sound(db), NEW c \in Nat, c < MaxCalls, VersionsBelow(db, c),
         NEW op, NEW args, NEW batch, NEW works, RecordPlan(op, args, batch, works)
  PROVE  PlanHolds(op, args, batch, works)
<1>1. PICK n \in LiveNodes, role \in Roles :
        /\ op = "record"
        /\ args = [row |-> [node |-> n, role |-> role, version |-> NextVersion(n, role),
                            current |-> TRUE, key |-> <<n, role, NextVersion(n, role)>>]]
        /\ batch = <<"FLIP_CURRENT_OFF", "ARTIFACT_INSERT">>
        /\ works = <<db, FlipCurrentOff(db, n, role),
                     ArtifactInsert(FlipCurrentOff(db, n, role), args.row)>>
  BY DEF RecordPlan
<1>2. /\ Len(batch) = 2 /\ batch[1] = "FLIP_CURRENT_OFF" /\ batch[2] = "ARTIFACT_INSERT"
      /\ batch \in Seq(ToSet(batch))
  BY <1>1 DEF ToSet
<1>3. /\ works[1] = db /\ works[2] = FlipCurrentOff(db, n, role)
      /\ works[3] = ArtifactInsert(works[2], args.row)
  BY <1>1
<1>4. args.row.node = n /\ args.row.role = role
  BY <1>1
<1>5. /\ Tables(db) /\ Tables(FlipCurrentOff(db, n, role))
      /\ Tables(ArtifactInsert(FlipCurrentOff(db, n, role), args.row))
      /\ \A a \in FlipCurrentOff(db, n, role).artifacts : ArtifactKey(a) # ArtifactKey(args.row)
  BY <1>1, RecordSafe DEF Sound
<1>6. /\ works[2] = Effect(args, batch[1], works[1])
      /\ works[3] = Effect(args, batch[2], works[2])
  BY <1>2, <1>3, <1>4, EffectIs
<1>7. \A i \in 1 .. 2 : i = 1 \/ i = 2
  OBVIOUS
<1>8. Stages(args, batch, works)
  BY <1>2, <1>6, <1>7 DEF Stages
<1>9. \A i \in 1 .. Len(batch) + 1 : Tables(works[i])
  <2>1. \A i \in 1 .. 3 : i = 1 \/ i = 2 \/ i = 3
    OBVIOUS
  <2>2. works[3] = ArtifactInsert(FlipCurrentOff(db, n, role), args.row)
    BY <1>3
  <2>3. Tables(works[1]) /\ Tables(works[2]) /\ Tables(works[3])
    BY <1>3, <1>5, <2>2
  <2>4. Len(batch) + 1 = 3
    BY <1>2
  <2>5. QED BY <2>1, <2>3, <2>4
<1>10. \A i \in 1 .. Len(batch) : ~Collides(args, batch[i], works[i])
  <2>1. ~Collides(args, "FLIP_CURRENT_OFF", works[1])
    BY DEF Collides
  <2>2. ~Collides(args, "ARTIFACT_INSERT", works[2])
    BY <1>3, <1>5 DEF Collides
  <2>3. QED BY <1>2, <1>7, <2>1, <2>2
<1>11. op = "record" /\ Len(batch) > 0 /\ works[1] = db /\ batch \in Seq(ToSet(batch))
  BY <1>1, <1>2, <1>3
<1>12. \A i \in 1 .. Len(batch) : ForeignKeys(works[i + 1])
  <2>1. ForeignKeys(works[2]) /\ ForeignKeys(works[3])
    BY <1>3, ArtifactKeys DEF Sound
  <2>2. QED BY <1>2, <1>7, <2>1
<1>13. QED BY <1>8, <1>9, <1>10, <1>11, <1>12 DEF PlanHolds

LEMMA MergeHolds ==
  ASSUME Sound(db), NEW op, NEW args, NEW batch, NEW works, MergePlan(op, args, batch, works)
  PROVE  PlanHolds(op, args, batch, works)
<1>1. PICK s \in LiveNodes, l \in LiveNodes :
        /\ s < l /\ op = "merge" /\ args = [s |-> s, l |-> l] /\ batch = MergeBatch
        /\ works = MergeWorks(db, s, l)
  BY DEF MergePlan
<1>2. Tables(db) /\ s \in Ids /\ l \in Ids
  BY DEF Sound, Tables, LiveNodes
<1>3. /\ Stages(args, batch, works) /\ batch \in Seq(ToSet(batch)) /\ Len(batch) = 15
      /\ works[1] = db
  BY <1>1, MergeStages DEF MergeWorks
<1>4. \A i \in 1 .. 16 : Tables(works[i])
  BY <1>1, <1>2, MergeTyped
<1>5. /\ Alike(M6(db, s, l), M7(db, s, l), {"edge"})
      /\ Alike(M10(db, s, l), M11(db, s, l), {"edge"})
      /\ DOMAIN M6(db, s, l) = TableNames /\ DOMAIN M10(db, s, l) = TableNames
  BY <1>2, MergeTyped DEF Tables, TableNames
<1>6. M7(db, s, l).edge =
        {e \in M6(db, s, l).edge : e[1] = l => SrcMoved(e, s) \notin M6(db, s, l).edge}
  BY <1>5 DEF M7, EdgeSrcDeleteConflicts, TableNames
<1>7. M11(db, s, l).edge =
        {e \in M10(db, s, l).edge : e[2] = l => DstMoved(e, s) \notin M10(db, s, l).edge}
  BY <1>5 DEF M11, EdgeDstDeleteConflicts, TableNames
<1>8. /\ works[8] = M7(db, s, l) /\ works[12] = M11(db, s, l)
      /\ batch[8] = "EDGE_SRC_REPOINT" /\ batch[12] = "EDGE_DST_REPOINT"
      /\ args.s = s /\ args.l = l
  BY <1>1 DEF MergeWorks, MergeBatch
<1>9. \A i \in 1 .. 15 :
        /\ batch[i] = "EDGE_SRC_REPOINT" => i = 8
        /\ batch[i] = "EDGE_DST_REPOINT" => i = 12
        /\ batch[i] # "ARTIFACT_INSERT"
  <2>1. \A i \in 1 .. 15 :
           i = 1 \/ i = 2 \/ i = 3 \/ i = 4 \/ i = 5 \/ i = 6 \/ i = 7 \/ i = 8
           \/ i = 9 \/ i = 10 \/ i = 11 \/ i = 12 \/ i = 13 \/ i = 14 \/ i = 15
    OBVIOUS
  <2>2. QED BY <1>1, <2>1 DEF MergeBatch
<1>10. \A i \in 1 .. 15 : ~Collides(args, batch[i], works[i])
  BY <1>6, <1>7, <1>8, <1>9 DEF Collides
<1>11. QED BY <1>1, <1>3, <1>4, <1>10 DEF PlanHolds

LEMMA DeleteHolds ==
  ASSUME Sound(db), NEW op, NEW args, NEW batch, NEW works, DeletePlan(op, args, batch, works)
  PROVE  PlanHolds(op, args, batch, works)
<1>1. PICK n \in LiveNodes :
        /\ op = "delete_work_network" /\ batch = DeleteBatch
        /\ args = [net |-> NetworkOf(Redirect(db), DOMAIN db.node, n)]
        /\ works = DeleteWorks(db, args.net)
  BY DEF DeletePlan
<1> DEFINE net == args.net
<1>2. Tables(db) /\ ForeignKeys(db) /\ n \in Ids /\ args = [net |-> net]
  BY <1>1 DEF Sound, Tables, LiveNodes
<1>3. /\ Stages(args, batch, works) /\ batch \in Seq(ToSet(batch)) /\ Len(batch) = 7
      /\ works[1] = db
  BY <1>1, <1>2, DeleteStages DEF DeleteWorks
<1>4. \A i \in 1 .. 8 : Tables(works[i])
  BY <1>1, <1>2, DeleteTyped
<1>5. \A x \in DOMAIN db.node :
        db.node[x].merged_into # NoId /\ db.node[x].merged_into \in net => x \in net
  BY <1>1, <1>2, NetworkClosed
<1>6. \A i \in 1 .. 8 : ForeignKeys(works[i])
  BY <1>1, <1>2, <1>5, DeleteKeepsKeys
<1>7. \A i \in 1 .. 7 : batch[i] \notin {"EDGE_SRC_REPOINT", "EDGE_DST_REPOINT", "ARTIFACT_INSERT"}
  <2>1. \A i \in 1 .. 7 : i = 1 \/ i = 2 \/ i = 3 \/ i = 4 \/ i = 5 \/ i = 6 \/ i = 7
    OBVIOUS
  <2>2. QED BY <1>1, <2>1 DEF DeleteBatch
<1>8. \A i \in 1 .. Len(batch) : ~Collides(args, batch[i], works[i])
  BY <1>3, <1>7 DEF Collides
<1>9. \A i \in 1 .. Len(batch) : ForeignKeys(works[i + 1])
  <2>1. \A i \in 1 .. 7 : i + 1 \in 1 .. 8
    OBVIOUS
  <2>2. QED BY <1>3, <1>6, <2>1
<1>10. \A i \in 1 .. Len(batch) + 1 : Tables(works[i])
  BY <1>3, <1>4
<1>11. QED BY <1>1, <1>3, <1>8, <1>9, <1>10 DEF PlanHolds

LEMMA PlanIsHeld ==
  ASSUME Sound(db), NEW c \in Nat, c < MaxCalls, VersionsBelow(db, c),
         NEW op, NEW args, NEW batch, NEW works, Plan(op, args, batch, works)
  PROVE  PlanHolds(op, args, batch, works)
BY CreateHolds, AliasHolds, AssertionHolds, EdgeHolds, RecordHolds, MergeHolds, DeleteHolds
   DEF Plan

LEMMA KeptBelow ==
  ASSUME NEW d, NEW e, NEW c \in Nat, VersionsBelow(d, c), Tables(d),
         e.artifacts \subseteq d.artifacts
  PROVE  VersionsBelow(e, c + 1)
BY StoreAssumption DEF VersionsBelow, Tables, Artifact

LEMMA MergedBelow ==
  ASSUME NEW d, Tables(d), NEW c \in Nat, VersionsBelow(d, c),
         NEW s \in Ids, NEW l \in Ids, s # l
  PROVE  VersionsBelow(M15(d, s, l), c + 1)
<1> DEFINE e == M15(d, s, l)
<1>1. MergedRows(d, e, s, l)
  BY MergeMakes, MergedArtifacts
<1> HIDE DEF e
<1>2. ASSUME NEW x \in e.artifacts
      PROVE  x \in d.artifacts \/ \E a \in d.artifacts : x = [Passed(d, a, s) EXCEPT !.node = s]
  BY <1>1 DEF MergedRows
<1>3. ASSUME NEW x \in e.artifacts PROVE \E a \in d.artifacts : x.version = a.version
  <2>1. CASE x \in d.artifacts
    BY <2>1
  <2>2. ASSUME NEW a \in d.artifacts, x = [Passed(d, a, s) EXCEPT !.node = s]
        PROVE  x.version = a.version
    <3>1. PassedIs(d, a, s)
      BY PassedRow DEF Tables
    <3>2. QED BY <2>2, <3>1 DEF PassedIs
  <2>3. QED BY <1>2, <2>1, <2>2
<1>4. \A a \in d.artifacts : a.version \in Nat /\ a.version <= c
  BY StoreAssumption DEF VersionsBelow, Tables, Artifact
<1>5. \A x \in e.artifacts : x.version <= c + 1
  BY <1>3, <1>4
<1>6. QED BY <1>5 DEF VersionsBelow, e

(* The commit of an operation is the step of the maps. *)
Commits(c) == Sound(db') /\ VersionsBelow(db', c + 1) /\ Mem!Operation

LEMMA PlanCommits ==
  ASSUME Sound(db), NEW c \in Nat, c < MaxCalls, VersionsBelow(db, c),
         NEW op, NEW args, NEW batch, NEW works, Plan(op, args, batch, works),
         db' = works[Len(batch) + 1]
  PROVE  Commits(c)
<1> USE MemWalks
<1>0. Tables(db) /\ LiveNodes \subseteq Ids
  BY DEF Sound, Tables, LiveNodes
<1>1. CASE CreatePlan(op, args, batch, works)
  <2>1. PICK n \in Ids \ DOMAIN db.node, k \in Kinds : db' = NodeInsert(db, n, k)
    BY <1>1 DEF CreatePlan
  <2>2. Sound(db') /\ Mem!CreateNode(n, k) /\ db'.artifacts = db.artifacts
    BY <2>1, CreateCommits
  <2>3. VersionsBelow(db', c + 1)
    BY <1>0, <2>2, KeptBelow
  <2>4. QED BY <2>2, <2>3 DEF Mem!Operation, Commits
<1>2. CASE AliasPlan(op, args, batch, works)
  <2>1. PICK a \in Aliases, n \in LiveNodes : db' = AliasInsert(db, a, n)
    BY <1>2 DEF AliasPlan
  <2>2. Sound(db') /\ Mem!GetOrCreateAlias(a, n) /\ db'.artifacts = db.artifacts
    BY <2>1, AliasCommits
  <2>3. VersionsBelow(db', c + 1)
    BY <1>0, <2>2, KeptBelow
  <2>4. QED BY <2>2, <2>3 DEF Mem!Operation, Commits
<1>3. CASE AssertionPlan(op, args, batch, works)
  <2>1. PICK n \in LiveNodes, p \in Sources, t \in Stamps :
          db' = NodeAssertionUpsert(db, [node |-> n, source |-> p, at |-> t])
    BY <1>3 DEF AssertionPlan
  <2>2. Sound(db') /\ Mem!UpsertNodeAssertion(n, p, t) /\ db'.artifacts = db.artifacts
    BY <2>1, AssertionCommits
  <2>3. VersionsBelow(db', c + 1)
    BY <1>0, <2>2, KeptBelow
  <2>4. QED BY <2>2, <2>3 DEF Mem!Operation, Commits
<1>4. CASE EdgePlan(op, args, batch, works)
  <2>1. PICK x, y \in LiveNodes, r \in Relations, p \in Sources, t \in Stamps :
          db' = EdgeAssertionUpsert(EdgeInsert(db, <<x, y, r>>),
                                    [edge |-> <<x, y, r>>, source |-> p, at |-> t])
    BY <1>4 DEF EdgePlan
  <2>2. Sound(db') /\ Mem!PutEdge(x, y, r, p, t) /\ db'.artifacts = db.artifacts
    BY <2>1, EdgeCommits
  <2>3. VersionsBelow(db', c + 1)
    BY <1>0, <2>2, KeptBelow
  <2>4. QED BY <2>2, <2>3 DEF Mem!Operation, Commits
<1>5. CASE RecordPlan(op, args, batch, works)
  <2>1. PICK n \in LiveNodes, role \in Roles :
          /\ args = [row |-> [node |-> n, role |-> role, version |-> NextVersion(n, role),
                              current |-> TRUE, key |-> <<n, role, NextVersion(n, role)>>]]
          /\ db' = ArtifactInsert(FlipCurrentOff(db, n, role), args.row)
    <3>1. PICK n \in LiveNodes, role \in Roles :
            /\ args = [row |-> [node |-> n, role |-> role, version |-> NextVersion(n, role),
                                current |-> TRUE, key |-> <<n, role, NextVersion(n, role)>>]]
            /\ batch = <<"FLIP_CURRENT_OFF", "ARTIFACT_INSERT">>
            /\ works = <<db, FlipCurrentOff(db, n, role),
                         ArtifactInsert(FlipCurrentOff(db, n, role), args.row)>>
      BY <1>5 DEF RecordPlan
    <3>2. Len(batch) + 1 = 3
      BY <3>1
    <3>3. works[3] = ArtifactInsert(FlipCurrentOff(db, n, role), args.row)
      BY <3>1
    <3>4. db' = ArtifactInsert(FlipCurrentOff(db, n, role), args.row)
      BY <3>2, <3>3
    <3>5. QED BY <3>1, <3>4
  <2>2. args.row = [node |-> n, role |-> role, version |-> NextVersion(n, role),
                    current |-> TRUE, key |-> <<n, role, NextVersion(n, role)>>]
    BY <2>1
  <2>3. /\ Sound(db') /\ VersionsBelow(db', c + 1)
        /\ Mem!Record(n, role, Mem!NextVersion(n, role))
    BY <2>1, <2>2, RecordCommits
  <2>4. QED BY <2>3 DEF Mem!Operation, Commits
<1>6. CASE MergePlan(op, args, batch, works)
  <2>1. PICK s \in LiveNodes, l \in LiveNodes : s < l /\ db' = M15(db, s, l)
    <3>1. PICK s \in LiveNodes, l \in LiveNodes :
            s < l /\ batch = MergeBatch /\ works = MergeWorks(db, s, l)
      BY <1>6 DEF MergePlan
    <3>2. Len(batch) + 1 = 16
      BY <3>1 DEF MergeBatch
    <3>3. works[16] = M15(db, s, l)
      BY <3>1 DEF MergeWorks
    <3>4. QED BY <3>1, <3>2, <3>3
  <2>2. Sound(db') /\ Mem!Merge(s, l)
    BY <2>1, MergeCommits
  <2>3. VersionsBelow(db', c + 1)
    <3>1. s \in Ids /\ l \in Ids /\ s # l
      BY <1>0, <2>1, IdsAssumption
    <3>2. QED BY <1>0, <2>1, <3>1, MergedBelow
  <2>4. QED BY <2>1, <2>2, <2>3 DEF Mem!Operation, Commits
<1>7. CASE DeletePlan(op, args, batch, works)
  <2>1. PICK n \in LiveNodes : db' = D7(db, NetworkOf(Redirect(db), DOMAIN db.node, n))
    <3>1. PICK n \in LiveNodes :
            /\ args = [net |-> NetworkOf(Redirect(db), DOMAIN db.node, n)]
            /\ batch = DeleteBatch /\ works = DeleteWorks(db, args.net)
      BY <1>7 DEF DeletePlan
    <3>2. args.net = NetworkOf(Redirect(db), DOMAIN db.node, n)
      BY <3>1
    <3>3. Len(batch) + 1 = 8
      BY <3>1 DEF DeleteBatch
    <3>4. works[8] = D7(db, args.net)
      BY <3>1 DEF DeleteWorks
    <3>5. QED BY <3>1, <3>2, <3>3, <3>4
  <2>2. Sound(db') /\ Mem!DeleteWorkNetwork(n)
    BY <2>1, DeleteCommits
  <2>3. VersionsBelow(db', c + 1)
    <3> DEFINE net == NetworkOf(Redirect(db), DOMAIN db.node, n)
    <3>1. DeleteMade(db, D7(db, net), net)
      BY <1>0, DeleteMakes
    <3>2. db'.artifacts \subseteq db.artifacts
      BY <2>1, <3>1 DEF DeleteMade
    <3>3. QED BY <1>0, <3>2, KeptBelow
  <2>4. QED BY <2>2, <2>3 DEF Mem!Operation, Commits
<1>8. QED BY <1>1, <1>2, <1>3, <1>4, <1>5, <1>6, <1>7 DEF Plan
------------------------------------------------------------------------------
(* The inductive invariant. *)

PlanStory(t) ==
  \E op, args, batch, works :
    Plan(op, args, batch, works) /\ Stage(t, op, args, batch, works)

(* A walk's redirects in D point at its end, those in args.walk will. *)
Walking(d, t, n, D) ==
  /\ t = [op |-> "resolve_live", todo |-> t.todo, work |-> t.work,
          args |-> [root |-> Root(Redirect(d), n), walk |-> t.args.walk]]
  /\ t.args.walk \in Seq(Walked(d, n)) /\ t.todo \in Seq({"COMPRESS"})
  /\ Len(t.todo) = Len(t.args.walk)
  /\ Walked(d, n) = D \union {t.args.walk[i] : i \in 1 .. Len(t.args.walk)}
  /\ Pointed(d, t.work, D, Root(Redirect(d), n))

ResolveStory(d, t) ==
  \E n \in DOMAIN d.node : \E D \in SUBSET Walked(d, n) : Walking(d, t, n, D)

Story == txn = NoTxn \/ ResolveStory(db, txn) \/ PlanStory(txn)

IInv ==
  /\ engine \in Engines /\ calls \in 0 .. MaxCalls
  /\ Sound(db) /\ VersionsBelow(db, calls)
  /\ txn # NoTxn => calls < MaxCalls /\ Tables(txn.work)
  /\ Story
  /\ BatchesSucceed

LEMMA PlanStays ==
  ASSUME db' = db, NEW op, NEW args, NEW batch, NEW works, Plan(op, args, batch, works)
  PROVE  Plan(op, args, batch, works)'
<1>1. LiveNodes' = LiveNodes
  BY DEF LiveNodes
<1>2. ASSUME NEW n, NEW role PROVE NextVersion(n, role)' = NextVersion(n, role)
  <2> DEFINE F(A) ==
        1 + Max({a.version : a \in {b \in A : b.node = n /\ b.role = role}} \union {0})
  <2>1. NextVersion(n, role) = F(db.artifacts) /\ NextVersion(n, role)' = F(db'.artifacts)
    BY DEF NextVersion
  <2> HIDE DEF F
  <2>2. QED BY <2>1
<1>3. CASE CreatePlan(op, args, batch, works)
  BY <1>3, Zenon DEF CreatePlan, Plan
<1>4. CASE AliasPlan(op, args, batch, works)
  BY <1>1, <1>4, Zenon DEF AliasPlan, Plan
<1>5. CASE AssertionPlan(op, args, batch, works)
  BY <1>1, <1>5, Zenon DEF AssertionPlan, Plan
<1>6. CASE EdgePlan(op, args, batch, works)
  BY <1>1, <1>6, Zenon DEF EdgePlan, Plan
<1>7. CASE RecordPlan(op, args, batch, works)
  BY <1>1, <1>2, <1>7, Zenon DEF RecordPlan, Plan
<1>8. CASE MergePlan(op, args, batch, works)
  BY <1>1, <1>8, Zenon DEF MergePlan, Plan
<1>9. CASE DeletePlan(op, args, batch, works)
  BY <1>1, <1>9, Zenon DEF DeletePlan, Plan
<1>10. QED BY <1>3, <1>4, <1>5, <1>6, <1>7, <1>8, <1>9 DEF Plan

LEMMA InitSound == Init => IInv
<1> SUFFICES ASSUME Init PROVE IInv
  OBVIOUS
<1>1. /\ db.node = [n \in Started |-> [kind |-> "work", merged_into |-> NoId]]
      /\ db.alias = [x \in {} |-> x] /\ db.node_assertion = {} /\ db.edge = {}
      /\ db.edge_assertion = {} /\ db.artifacts = {} /\ db.lost = {}
      /\ DOMAIN db = {"node", "alias", "node_assertion", "edge", "edge_assertion",
                      "artifacts", "lost"}
  BY DEF Init
<1>2. /\ DOMAIN db.node = Started /\ DOMAIN db.alias = {}
      /\ \A n \in Started : db.node[n] = [kind |-> "work", merged_into |-> NoId]
  BY <1>1
<1>3. Tables(db)
  <2>1. [kind |-> "work", merged_into |-> NoId] \in Node
    BY StoreAssumption DEF Node
  <2>2. db.node \in [DOMAIN db.node -> Node] /\ DOMAIN db.node \subseteq Ids
    BY <1>1, <2>1, StoreAssumption
  <2>3. db.alias \in [DOMAIN db.alias -> Ids] /\ DOMAIN db.alias \subseteq Aliases
    BY <1>1
  <2>4. QED BY <1>1, <2>2, <2>3 DEF Tables
<1>4. ForeignKeys(db) /\ Decreases(db)
  BY <1>1, <1>2 DEF ForeignKeys, Decreases
<1>5. OneRowPerKey(db) /\ ArtifactsOwned(db) /\ CurrentThere(db) /\ LostAreOld(db)
  BY <1>1 DEF OneRowPerKey, ArtifactsOwned, CurrentThere, LostAreOld
<1>6. VersionsBelow(db, calls)
  BY <1>1 DEF VersionsBelow
<1>7. engine \in Engines /\ calls \in 0 .. MaxCalls /\ txn = NoTxn /\ failed = {}
  BY StoreAssumption DEF Init
<1>8. QED BY <1>3, <1>4, <1>5, <1>6, <1>7 DEF IInv, Sound, Story, BatchesSucceed

LEMMA PlanStarts ==
  ASSUME IInv, calls < MaxCalls, UNCHANGED <<engine, db, failed, calls>>,
         NEW op, NEW args, NEW batch, NEW works, Plan(op, args, batch, works),
         Begin(op, args, batch)
  PROVE  IInv'
<1>1. PlanHolds(op, args, batch, works)
  BY PlanIsHeld DEF IInv
<1>2. txn' = [op |-> op, args |-> args, todo |-> batch, work |-> db]
  BY DEF Begin
<1>3. Stage(txn', op, args, batch, works)
  BY <1>1, <1>2, StageStarts DEF PlanHolds
<1>4. Plan(op, args, batch, works)'
  BY PlanStays
<1>5. PlanStory(txn)'
  BY <1>3, <1>4 DEF PlanStory
<1>6. txn'.work = db
  BY <1>2
<1>7. QED BY <1>5, <1>6 DEF IInv, Story, BatchesSucceed, Sound

LEMMA ResolveStarts ==
  ASSUME IInv, calls < MaxCalls, UNCHANGED <<engine, db, failed, calls>>, ResolveLive
  PROVE  IInv'
<1>1. PICK n \in DOMAIN db.node :
        \E walk \in [1 .. Cardinality(Walked(db, n)) -> Walked(db, n)] :
          /\ \A x \in Walked(db, n) : \E i \in DOMAIN walk : walk[i] = x
          /\ Begin("resolve_live", [root |-> Root(Redirect(db), n), walk |-> walk],
                   [i \in DOMAIN walk |-> "COMPRESS"])
  BY DEF ResolveLive, Walked
<1>2. PICK walk \in [1 .. Cardinality(Walked(db, n)) -> Walked(db, n)] :
        /\ \A x \in Walked(db, n) : \E i \in DOMAIN walk : walk[i] = x
        /\ Begin("resolve_live", [root |-> Root(Redirect(db), n), walk |-> walk],
                 [i \in DOMAIN walk |-> "COMPRESS"])
  BY <1>1
<1>3. Cardinality(Walked(db, n)) \in Nat
  BY WalkInside, FS_CardinalityType DEF IInv
<1>4. walk \in Seq(Walked(db, n)) /\ Len(walk) = Cardinality(Walked(db, n))
  BY <1>3
<1>5. DEFINE todo == [i \in DOMAIN walk |-> "COMPRESS"]
<1>6. todo \in Seq({"COMPRESS"}) /\ Len(todo) = Len(walk)
  BY <1>3, <1>4
<1> HIDE DEF todo
<1>7. txn' = [op |-> "resolve_live", todo |-> todo, work |-> db,
              args |-> [root |-> Root(Redirect(db), n), walk |-> walk]]
  BY <1>2 DEF Begin, todo
<1>8. Walked(db, n) = {} \union {walk[i] : i \in 1 .. Len(walk)}
  BY <1>2, <1>4
<1>9. Pointed(db, db, {}, Root(Redirect(db), n))
  BY DEF Pointed, Alike
<1>10. txn'.args.walk = walk /\ txn'.todo = todo /\ txn'.work = db
  BY <1>7
<1>11. Walking(db, txn', n, {})
  BY <1>4, <1>6, <1>7, <1>8, <1>9, <1>10 DEF Walking
<1>12. ResolveStory(db, txn')
  BY <1>11 DEF ResolveStory
<1>13. QED BY <1>10, <1>12 DEF IInv, Story, BatchesSucceed, Sound

LEMMA StartKeeps == IInv /\ Start => IInv'
<1> SUFFICES ASSUME IInv, Start PROVE IInv'
  OBVIOUS
<1>0. calls < MaxCalls /\ UNCHANGED <<engine, db, failed, calls>>
  BY DEF Start
<1>1. CASE CreateNode
  <2>1. PICK n \in Ids \ DOMAIN db.node, k \in Kinds :
          Begin("create_node", [n |-> n, kind |-> k], <<"NODE_INSERT">>)
    BY <1>1 DEF CreateNode
  <2>2. Plan("create_node", [n |-> n, kind |-> k], <<"NODE_INSERT">>,
             <<db, NodeInsert(db, n, k)>>)
    BY DEF Plan, CreatePlan
  <2>3. QED BY <1>0, <2>1, <2>2, PlanStarts
<1>2. CASE GetOrCreateAlias
  <2>1. PICK a \in Aliases, n \in LiveNodes :
          Begin("get_or_create_alias", [alias |-> a, n |-> n], <<"ALIAS_INSERT">>)
    BY <1>2 DEF GetOrCreateAlias
  <2>2. Plan("get_or_create_alias", [alias |-> a, n |-> n], <<"ALIAS_INSERT">>,
             <<db, AliasInsert(db, a, n)>>)
    BY DEF Plan, AliasPlan
  <2>3. QED BY <1>0, <2>1, <2>2, PlanStarts
<1>3. CASE UpsertNodeAssertion
  <2>1. PICK n \in LiveNodes, p \in Sources, t \in Stamps :
          Begin("upsert_node_assertion", [row |-> [node |-> n, source |-> p, at |-> t]],
                <<"NODE_ASSERTION_UPSERT">>)
    BY <1>3 DEF UpsertNodeAssertion
  <2>2. Plan("upsert_node_assertion", [row |-> [node |-> n, source |-> p, at |-> t]],
             <<"NODE_ASSERTION_UPSERT">>,
             <<db, NodeAssertionUpsert(db, [node |-> n, source |-> p, at |-> t])>>)
    BY DEF Plan, AssertionPlan
  <2>3. QED BY <1>0, <2>1, <2>2, PlanStarts
<1>4. CASE PutEdge
  <2>1. PICK x, y \in LiveNodes, r \in Relations, p \in Sources, t \in Stamps :
          Begin("put_edge", [row |-> [edge |-> <<x, y, r>>, source |-> p, at |-> t]],
                <<"EDGE_INSERT", "EDGE_ASSERTION_UPSERT">>)
    BY <1>4 DEF PutEdge
  <2>2. Plan("put_edge", [row |-> [edge |-> <<x, y, r>>, source |-> p, at |-> t]],
             <<"EDGE_INSERT", "EDGE_ASSERTION_UPSERT">>,
             <<db, EdgeInsert(db, <<x, y, r>>),
               EdgeAssertionUpsert(EdgeInsert(db, <<x, y, r>>),
                                   [edge |-> <<x, y, r>>, source |-> p, at |-> t])>>)
    BY DEF Plan, EdgePlan
  <2>3. QED BY <1>0, <2>1, <2>2, PlanStarts
<1>5. CASE Record
  <2>1. PICK n \in LiveNodes, role \in Roles :
          Begin("record", [row |-> [node |-> n, role |-> role, version |-> NextVersion(n, role),
                                    current |-> TRUE, key |-> <<n, role, NextVersion(n, role)>>]],
                <<"FLIP_CURRENT_OFF", "ARTIFACT_INSERT">>)
    BY <1>5 DEF Record
  <2> DEFINE row == [node |-> n, role |-> role, version |-> NextVersion(n, role),
                     current |-> TRUE, key |-> <<n, role, NextVersion(n, role)>>]
  <2>2. Plan("record", [row |-> row], <<"FLIP_CURRENT_OFF", "ARTIFACT_INSERT">>,
             <<db, FlipCurrentOff(db, n, role),
               ArtifactInsert(FlipCurrentOff(db, n, role), row)>>)
    BY DEF Plan, RecordPlan
  <2>3. QED BY <1>0, <2>1, <2>2, PlanStarts
<1>6. CASE ResolveLive
  BY <1>0, <1>6, ResolveStarts
<1>7. CASE Merge
  <2>1. PICK s \in LiveNodes, l \in LiveNodes :
          s < l /\ Begin("merge", [s |-> s, l |-> l], MergeBatch)
    BY <1>7 DEF Merge
  <2>2. Plan("merge", [s |-> s, l |-> l], MergeBatch, MergeWorks(db, s, l))
    BY <2>1 DEF Plan, MergePlan
  <2>3. QED BY <1>0, <2>1, <2>2, PlanStarts
<1>8. CASE DeleteWorkNetwork
  <2>1. PICK n \in LiveNodes :
          Begin("delete_work_network", [net |-> NetworkOf(Redirect(db), DOMAIN db.node, n)],
                DeleteBatch)
    BY <1>8 DEF DeleteWorkNetwork
  <2> DEFINE net == NetworkOf(Redirect(db), DOMAIN db.node, n)
  <2>2. Plan("delete_work_network", [net |-> net], DeleteBatch, DeleteWorks(db, net))
    BY DEF Plan, DeletePlan
  <2>3. QED BY <1>0, <2>1, <2>2, PlanStarts
<1>9. QED BY <1>1, <1>2, <1>3, <1>4, <1>5, <1>6, <1>7, <1>8 DEF Start

LEMMA ExecutePlan ==
  ASSUME IInv, Execute, txn # NoTxn, PlanStory(txn)
  PROVE  PlanStory(txn)' /\ Tables(txn'.work)
<1>1. PICK op, args, batch, works :
        Plan(op, args, batch, works) /\ Stage(txn, op, args, batch, works)
  BY DEF PlanStory
<1>2. PlanHolds(op, args, batch, works)
  BY <1>1, PlanIsHeld DEF IInv
<1>3. batch \in Seq(ToSet(batch)) /\ Stages(args, batch, works) /\ op # "resolve_live"
  BY <1>2 DEF PlanHolds
<1>4. Stage(After(txn), op, args, batch, works) /\ txn.op = op
  <2>1. Stage(After(txn), op, args, batch, works)
    BY <1>1, <1>3, StageGoesOn DEF Execute
  <2>2. txn.op = op
    BY <1>1 DEF Stage, AtStage
  <2>3. QED BY <2>1, <2>2
<1>5. txn' = After(txn)
  BY <1>3, <1>4 DEF Execute, After
<1>6. Plan(op, args, batch, works)'
  BY <1>1, PlanStays DEF Execute
<1>7. Tables(txn'.work)
  <2>1. PICK i \in 1 .. Len(batch) + 1 : AtStage(txn', i, op, args, batch, works)
    BY <1>4, <1>5 DEF Stage
  <2>2. txn'.work = works[i]
    BY <2>1 DEF AtStage
  <2>3. QED BY <1>2, <2>2 DEF PlanHolds
<1>8. Stage(txn', op, args, batch, works)
  BY <1>4, <1>5
<1>9. QED BY <1>6, <1>7, <1>8 DEF PlanStory

LEMMA ExecuteResolve ==
  ASSUME IInv, Execute, txn # NoTxn, ResolveStory(db, txn)
  PROVE  ResolveStory(db, txn') /\ Tables(txn'.work)
<1>1. PICK n \in DOMAIN db.node : \E D \in SUBSET Walked(db, n) : Walking(db, txn, n, D)
  BY DEF ResolveStory
<1>2. PICK D \in SUBSET Walked(db, n) : Walking(db, txn, n, D)
  BY <1>1
<1> DEFINE root == Root(Redirect(db), n)
           walk == txn.args.walk
<1>3. /\ txn.op = "resolve_live" /\ txn.args = [root |-> root, walk |-> walk]
      /\ walk \in Seq(Walked(db, n)) /\ txn.todo \in Seq({"COMPRESS"})
      /\ Len(txn.todo) = Len(walk) /\ Pointed(db, txn.work, D, root)
      /\ Walked(db, n) = D \union {walk[i] : i \in 1 .. Len(walk)}
  <2>1. txn = [op |-> "resolve_live", todo |-> txn.todo, work |-> txn.work,
               args |-> [root |-> root, walk |-> walk]]
    BY <1>2 DEF Walking
  <2>2. txn.op = "resolve_live" /\ txn.args = [root |-> root, walk |-> walk]
    BY <2>1
  <2>3. QED BY <1>2, <2>2 DEF Walking
<1>4. txn.todo # <<>> /\ Len(walk) > 0
  <2>1. txn.todo # <<>>
    BY DEF Execute
  <2>2. QED BY <1>3, <2>1
<1>5. Head(txn.todo) = "COMPRESS" /\ Tail(txn.todo) \in Seq({"COMPRESS"})
      /\ Len(Tail(txn.todo)) = Len(walk) - 1
  BY <1>3, <1>4
<1>6. /\ Tail(walk) \in Seq(Walked(db, n)) /\ Len(Tail(walk)) = Len(walk) - 1
      /\ walk[1] \in Walked(db, n)
      /\ \A i \in 1 .. Len(walk) - 1 : Tail(walk)[i] = walk[i + 1]
  BY <1>3, <1>4
<1>7. /\ txn.args.root = root
      /\ [txn.args EXCEPT !.walk = Tail(walk)] = [root |-> root, walk |-> Tail(walk)]
  <2> HIDE DEF root, walk
  <2>1. txn.args = [root |-> root, walk |-> walk]
    BY <1>3
  <2>2. txn.args \in [root : {root}, walk : {walk}]
    BY <2>1
  <2> DEFINE v == Tail(walk)
  <2> HIDE DEF v
  <2>3. [txn.args EXCEPT !.walk = v] \in [root : {root}, walk : {v}]
    BY <2>2
  <2>4. [txn.args EXCEPT !.walk = v] = [root |-> root, walk |-> v]
    BY <2>3
  <2>5. QED BY <2>1, <2>4 DEF v
<1>8. txn' = [op |-> "resolve_live", todo |-> Tail(txn.todo),
              work |-> MergeRedirect(txn.work, root, walk[1]),
              args |-> [root |-> root, walk |-> Tail(walk)]]
  <2>1. txn' = [op |-> txn.op, todo |-> Tail(txn.todo),
                work |-> Effect(txn.args, Head(txn.todo), txn.work),
                args |-> [txn.args EXCEPT !.walk = Tail(txn.args.walk)]]
    BY <1>3 DEF Execute
  <2>2. Effect(txn.args, "COMPRESS", txn.work) = MergeRedirect(txn.work, txn.args.root, walk[1])
    BY EffectIs
  <2>3. QED BY <1>3, <1>5, <1>7, <2>1, <2>2
<1>9. /\ txn'.args.walk = Tail(walk) /\ txn'.todo = Tail(txn.todo)
      /\ txn'.work = MergeRedirect(txn.work, root, walk[1])
  BY <1>8
<1>10. root \in Ids /\ walk[1] \in DOMAIN db.node /\ Tables(db) /\ Tables(txn.work)
  BY <1>6, WalkInside DEF IInv, Sound, Tables
<1>11. Pointed(db, txn'.work, D \union {walk[1]}, root)
  BY <1>3, <1>9, <1>10, PointedOn
<1>12. Tables(txn'.work)
  <2>1. walk[1] \in Ids
    BY <1>10 DEF Tables
  <2>2. QED BY <1>9, <1>10, <2>1, MergeRedirectStep
<1>13. Walked(db, n) = (D \union {walk[1]}) \union {Tail(walk)[i] : i \in 1 .. Len(walk) - 1}
  <2>1. ASSUME NEW x \in Walked(db, n)
        PROVE  x \in (D \union {walk[1]}) \union {Tail(walk)[i] : i \in 1 .. Len(walk) - 1}
    <3>1. CASE x \in D
      BY <3>1
    <3>2. ASSUME NEW i \in 1 .. Len(walk), x = walk[i]
          PROVE  x = walk[1] \/ \E j \in 1 .. Len(walk) - 1 : x = Tail(walk)[j]
      <4>1. CASE i = 1
        BY <3>2, <4>1
      <4>2. CASE i # 1
        <5>1. Len(walk) \in Nat
          BY <1>3
        <5>2. i - 1 \in 1 .. Len(walk) - 1 /\ (i - 1) + 1 = i
          BY <4>2, <5>1
        <5>3. Tail(walk)[i - 1] = walk[i]
          BY <1>6, <5>2
        <5>4. QED BY <3>2, <5>2, <5>3
      <4>3. QED BY <4>1, <4>2
    <3>3. QED BY <1>3, <3>1, <3>2
  <2>2. \A x \in D : x \in Walked(db, n)
    OBVIOUS
  <2>3. \A i \in 1 .. Len(walk) - 1 : Tail(walk)[i] \in Walked(db, n)
    BY <1>6
  <2>4. QED BY <1>6, <2>1, <2>2, <2>3
<1>14. D \union {walk[1]} \in SUBSET Walked(db, n)
  BY <1>6
<1>15. Walking(db, txn', n, D \union {walk[1]})
  BY <1>5, <1>6, <1>8, <1>9, <1>11, <1>13 DEF Walking
<1>16. QED BY <1>12, <1>14, <1>15 DEF ResolveStory

LEMMA ExecuteKeeps == IInv /\ Execute => IInv'
<1> SUFFICES ASSUME IInv, Execute PROVE IInv'
  OBVIOUS
<1>1. txn # NoTxn /\ UNCHANGED <<engine, db, failed, calls>>
  BY DEF Execute
<1>2. CASE PlanStory(txn)
  <2>1. PlanStory(txn)' /\ Tables(txn'.work)
    BY <1>1, <1>2, ExecutePlan
  <2>2. QED BY <1>1, <2>1 DEF IInv, Story, BatchesSucceed, Sound
<1>3. CASE ResolveStory(db, txn)
  <2>1. ResolveStory(db, txn') /\ Tables(txn'.work)
    BY <1>1, <1>3, ExecuteResolve
  <2>2. QED BY <1>1, <2>1 DEF IInv, Story, BatchesSucceed, Sound
<1>4. QED BY <1>1, <1>2, <1>3 DEF IInv, Story

(* A commit, from either story, is the operation of the maps. *)
LEMMA CommitCommits == IInv /\ Commit => Commits(calls)
<1> SUFFICES ASSUME IInv, Commit PROVE Commits(calls)
  OBVIOUS
<1>1. /\ txn # NoTxn /\ txn.todo = <<>> /\ db' = txn.work
      /\ calls \in Nat /\ calls < MaxCalls /\ Sound(db) /\ VersionsBelow(db, calls)
  BY StoreAssumption DEF Commit, IInv
<1>2. CASE PlanStory(txn)
  <2>1. PICK op, args, batch, works :
          Plan(op, args, batch, works) /\ Stage(txn, op, args, batch, works)
    BY <1>2 DEF PlanStory
  <2>2. batch \in Seq(ToSet(batch))
    BY <1>1, <2>1, PlanIsHeld DEF PlanHolds
  <2>3. db' = works[Len(batch) + 1]
    BY <1>1, <2>1, <2>2, StageEnds
  <2>4. QED BY <1>1, <2>1, <2>3, PlanCommits
<1>3. CASE ResolveStory(db, txn)
  <2>1. PICK n \in DOMAIN db.node : \E D \in SUBSET Walked(db, n) : Walking(db, txn, n, D)
    BY <1>3 DEF ResolveStory
  <2>2. PICK D \in SUBSET Walked(db, n) : Walking(db, txn, n, D)
    BY <2>1
  <2>3. Len(txn.args.walk) = 0
    BY <1>1, <2>2 DEF Walking
  <2>4. D = Walked(db, n)
    BY <2>2, <2>3 DEF Walking
  <2>5. Pointed(db, db', Walked(db, n), Root(Redirect(db), n)) /\ Tables(db')
    BY <1>1, <2>2, <2>4 DEF Walking, IInv
  <2>6. Sound(db') /\ Mem!ResolveLive(n) /\ db'.artifacts = db.artifacts
    BY <1>1, <2>5, ResolveCommits
  <2>7. VersionsBelow(db', calls + 1)
    BY <1>1, <2>6, KeptBelow DEF Sound
  <2>8. QED BY <2>6, <2>7 DEF Mem!Operation, Commits
<1>4. QED BY <1>1, <1>2, <1>3 DEF IInv, Story

LEMMA CommitKeeps == IInv /\ Commit => IInv'
<1> SUFFICES ASSUME IInv, Commit PROVE IInv'
  OBVIOUS
<1>1. Commits(calls)
  BY CommitCommits
<1>2. /\ txn' = NoTxn /\ engine' = engine /\ failed' = failed /\ calls' = calls + 1
      /\ calls < MaxCalls
  BY DEF Commit, IInv
<1>3. calls' \in 0 .. MaxCalls
  BY <1>2, StoreAssumption DEF IInv
<1>4. Sound(db') /\ VersionsBelow(db', calls')
  BY <1>1, <1>2 DEF Commits
<1>5. QED BY <1>2, <1>3, <1>4 DEF IInv, Story, BatchesSucceed

LEMMA RollbackKeeps == IInv /\ Rollback => IInv'
<1> SUFFICES ASSUME IInv, Rollback PROVE IInv'
  OBVIOUS
<1>1. /\ txn # NoTxn /\ txn.todo # <<>> /\ Fails(txn.args, Head(txn.todo), txn.work)
      /\ txn' = NoTxn /\ engine' = engine /\ db' = db /\ calls' = calls
      /\ failed' = failed \union {txn.op}
  BY DEF Rollback
<1>2. txn.op = "merge" /\ engine # "sqlite"
  <2>1. CASE PlanStory(txn)
    <3>1. PICK op, args, batch, works :
            Plan(op, args, batch, works) /\ Stage(txn, op, args, batch, works)
      BY <2>1 DEF PlanStory
    <3>2. PlanHolds(op, args, batch, works)
      <4>1. calls \in Nat /\ calls < MaxCalls /\ Sound(db) /\ VersionsBelow(db, calls)
        BY <1>1, StoreAssumption DEF IInv
      <4>2. QED BY <3>1, <4>1, PlanIsHeld
    <3>3. batch \in Seq(ToSet(batch)) /\ Stages(args, batch, works)
      BY <3>2 DEF PlanHolds
    <3>4. PICK i \in 1 .. Len(batch) :
            /\ AtStage(txn, i, op, args, batch, works)
            /\ Head(txn.todo) = batch[i] /\ txn.work = works[i]
      <4>1. txn.todo # <<>>
        BY <1>1
      <4>2. Stage(txn, op, args, batch, works)
        BY <3>1
      <4>3. NextOf(txn, op, args, batch, works)
        BY <3>3, <4>1, <4>2, StageGoesOn
      <4>4. QED BY <4>3 DEF NextOf
    <3>5. txn.args = args /\ txn.op = op
      BY <3>4 DEF AtStage
    <3>6. ~Collides(args, batch[i], works[i]) /\ works[i + 1] = Effect(args, batch[i], works[i])
      BY <3>2, <3>3 DEF PlanHolds, Stages
    <3>7. Enforced /\ ~ForeignKeys(works[i + 1])
      BY <1>1, <3>4, <3>5, <3>6 DEF Fails, Collides
    <3>8. op = "merge"
      BY <3>2, <3>7 DEF PlanHolds
    <3>9. QED BY <3>5, <3>7, <3>8 DEF Enforced
  <2>2. CASE ResolveStory(db, txn)
    <3>1. PICK n \in DOMAIN db.node : \E D \in SUBSET Walked(db, n) : Walking(db, txn, n, D)
      BY <2>2 DEF ResolveStory
    <3>2. PICK D \in SUBSET Walked(db, n) : Walking(db, txn, n, D)
      BY <3>1
    <3> DEFINE root == Root(Redirect(db), n)
               walk == txn.args.walk
    <3>3. /\ txn.args = [root |-> root, walk |-> walk] /\ walk \in Seq(Walked(db, n))
          /\ txn.todo \in Seq({"COMPRESS"}) /\ Len(txn.todo) = Len(walk)
          /\ Pointed(db, txn.work, D, root)
      <4>1. txn = [op |-> "resolve_live", todo |-> txn.todo, work |-> txn.work,
                   args |-> [root |-> root, walk |-> walk]]
        BY <3>2 DEF Walking
      <4>2. txn.args = [root |-> root, walk |-> walk]
        BY <4>1
      <4>3. QED BY <3>2, <4>2 DEF Walking
    <3>4. Head(txn.todo) = "COMPRESS" /\ walk[1] \in Walked(db, n)
      BY <1>1, <3>3
    <3>5. Effect(txn.args, "COMPRESS", txn.work) = MergeRedirect(txn.work, root, walk[1])
      BY <3>3, EffectIs
    <3>6. root \in Ids /\ walk[1] \in DOMAIN db.node /\ Tables(db) /\ Tables(txn.work) /\ Sound(db)
      BY <1>1, <3>4, WalkInside DEF IInv, Sound, Tables
    <3>7. Pointed(db, MergeRedirect(txn.work, root, walk[1]), D \union {walk[1]}, root)
      BY <3>3, <3>6, PointedOn
    <3>8. Tables(MergeRedirect(txn.work, root, walk[1]))
      <4>1. walk[1] \in Ids
        BY <3>6 DEF Tables
      <4>2. QED BY <3>6, <4>1, MergeRedirectStep
    <3>9. ForeignKeys(MergeRedirect(txn.work, root, walk[1]))
      BY <3>6, <3>7, <3>8, PointedKeys
    <3>10. ~Fails(txn.args, "COMPRESS", txn.work)
      BY <3>5, <3>9 DEF Fails
    <3>11. QED BY <1>1, <3>4, <3>10
  <2>3. QED BY <1>1, <2>1, <2>2 DEF IInv, Story
<1>3. BatchesSucceed'
  BY <1>1, <1>2 DEF IInv, BatchesSucceed
<1>4. QED BY <1>1, <1>3 DEF IInv, Story, Sound

LEMMA NextKeeps == IInv /\ [Next]_vars => IInv'
<1> SUFFICES ASSUME IInv, [Next]_vars PROVE IInv'
  OBVIOUS
<1>1. CASE Start
  BY <1>1, StartKeeps
<1>2. CASE Execute
  BY <1>2, ExecuteKeeps
<1>3. CASE Commit
  BY <1>3, CommitKeeps
<1>4. CASE Rollback
  BY <1>4, RollbackKeeps
<1>5. CASE Crash
  BY <1>5 DEF Crash, IInv, Story, BatchesSucceed, Sound
<1>6. CASE UNCHANGED vars
  <2>1. engine' = engine /\ db' = db /\ txn' = txn /\ failed' = failed /\ calls' = calls
    BY <1>6 DEF vars
  <2>2. PlanStory(txn) => PlanStory(txn)'
    BY <2>1, PlanStays DEF PlanStory
  <2>3. QED BY <2>1, <2>2 DEF IInv, Story, BatchesSucceed, Sound
<1>7. CASE Done
  BY <1>6, <1>7 DEF Done
<1>8. QED BY <1>1, <1>2, <1>3, <1>4, <1>5, <1>6, <1>7 DEF Next

LEMMA AlwaysSound == Spec => []IInv
BY InitSound, NextKeeps, PTL DEF Spec

(* The tables hold what their columns may, each row once by its key, and   *)
(* so does the working copy of a transaction after any of its statements.  *)
THEOREM StoreTyped == Spec => []TypeOK
<1>1. IInv => TypeOK
  BY DEF IInv, TypeOK, Sound, OneRowPerKey
<1>2. QED BY <1>1, AlwaysSound, PTL

(* No statement fails but those of a merge where foreign keys are enforced: *)
(* an operation is answered on a SQLite that does not, and a delete, an     *)
(* edge, a record or a compression on D1 too.                               *)
THEOREM OnlyMergesFail == Spec => []BatchesSucceed
<1>1. IInv => BatchesSucceed
  BY DEF IInv
<1>2. QED BY <1>1, AlwaysSound, PTL

(* The committed tables never break a REFERENCES clause, on the engine that *)
(* does not enforce them either, and a redirect leads to a lesser id.       *)
THEOREM KeysHold == Spec => [](ForeignKeys(db) /\ Decreases(db))
<1>1. IInv => ForeignKeys(db) /\ Decreases(db)
  BY DEF IInv, Sound
<1>2. QED BY <1>1, AlwaysSound, PTL

LEMMA EmptyMaps == Init => Mem!Init
<1> SUFFICES ASSUME Init PROVE Mem!Init
  OBVIOUS
<1>1. /\ db.node = [n \in Started |-> [kind |-> "work", merged_into |-> NoId]]
      /\ db.alias = [x \in {} |-> x] /\ db.node_assertion = {} /\ db.edge = {}
      /\ db.edge_assertion = {} /\ db.artifacts = {} /\ calls = 0
  BY DEF Init
<1>2. NodeAssertionMap(db) = Mem!Empty
  BY <1>1 DEF NodeAssertionMap, Mem!Empty
<1>3. EdgeMap(db) = Mem!Empty
  BY <1>1 DEF EdgeMap, Mem!Empty
<1>4. ArtifactMap(db) = Mem!Empty
  BY <1>1 DEF ArtifactMap, Mem!Empty
<1>5. QED BY <1>1, <1>2, <1>3, <1>4 DEF Mem!Init, Mem!Empty

LEMMA MapsStay == db' = db /\ calls' = calls => UNCHANGED Mem!vars
<1> SUFFICES ASSUME db' = db, calls' = calls PROVE UNCHANGED Mem!vars
  OBVIOUS
<1>1. /\ NodeAssertionMap(db') = NodeAssertionMap(db) /\ EdgeMap(db') = EdgeMap(db)
      /\ ArtifactMap(db') = ArtifactMap(db)
  BY SameMaps
<1>2. QED BY <1>1 DEF Mem!vars

LEMMA StepMaps == IInv /\ [Next]_vars => [Mem!Next]_(Mem!vars)
<1> SUFFICES ASSUME IInv, [Next]_vars PROVE [Mem!Next]_(Mem!vars)
  OBVIOUS
<1>1. CASE Commit
  <2>1. Mem!Operation
    BY <1>1, CommitCommits DEF Commits
  <2>2. calls < MaxCalls /\ calls' = calls + 1
    BY <1>1 DEF IInv, Commit
  <2>3. QED BY <2>1, <2>2 DEF Mem!Next
<1>2. CASE db' = db /\ calls' = calls
  BY <1>2, MapsStay
<1>3. CASE Start \/ Execute \/ Rollback \/ Crash \/ Done \/ UNCHANGED vars
  BY <1>2, <1>3 DEF Start, Execute, Rollback, Crash, Done, vars
<1>4. QED BY <1>1, <1>3 DEF Next

(* Whatever list of statements an operation is made of, wherever a failure *)
(* or a crash cuts it short and however its walk was compressed, what the  *)
(* committed tables do is what the in-memory maps do: one whole operation  *)
(* of theirs, or nothing.                                                  *)
THEOREM RefinesMemStore == Spec => ImplementsMemStore
<1>1. Spec => Mem!Init
  BY EmptyMaps DEF Spec
<1>2. Spec => [][Mem!Next]_(Mem!vars)
  BY AlwaysSound, StepMaps, PTL DEF Spec
<1>3. QED BY <1>1, <1>2, PTL DEF ImplementsMemStore, Mem!Spec
------------------------------------------------------------------------------
(* What the order of the keys of an export is, on those there are. *)
Linear(K) ==
  /\ \A k \in K : ~KeyBefore(k, k)
  /\ \A j, k \in K : j = k \/ KeyBefore(j, k) \/ KeyBefore(k, j)
  /\ \A i, j, k \in K : KeyBefore(i, j) /\ KeyBefore(j, k) => KeyBefore(i, k)

(* Keys of one length, compared column by column, are in a linear order.   *)
LEMMA KeysOrdered ==
  ASSUME NEW m \in Nat, NEW K \in SUBSET [1 .. m -> Nat]
  PROVE  Linear(K)
<1>0. \A k \in K : DOMAIN k = 1 .. m /\ \A i \in 1 .. m : k[i] \in Nat
  OBVIOUS
<1>1. \A k \in K : ~KeyBefore(k, k)
  BY <1>0 DEF KeyBefore
<1>2. ASSUME NEW j \in K, NEW k \in K, j # k
      PROVE  KeyBefore(j, k) \/ KeyBefore(k, j)
  <2> DEFINE D == {i \in 1 .. m : j[i] # k[i]}
  <2>1. D \in SUBSET Nat /\ D # {}
    <3>1. j = [i \in 1 .. m |-> j[i]] /\ k = [i \in 1 .. m |-> k[i]]
      OBVIOUS
    <3>2. \E i \in 1 .. m : j[i] # k[i]
      BY <1>2, <3>1
    <3>3. \A i \in 1 .. m : i \in Nat
      OBVIOUS
    <3>4. QED BY <3>2, <3>3
  <2>2. PICK i \in D : \A h \in D : i <= h
    <3> HIDE DEF D
    <3>1. QED BY <2>1, LeastProperty
  <2>3. i \in 1 .. m /\ \A h \in 1 .. i - 1 : j[h] = k[h] /\ k[h] = j[h]
    BY <2>2
  <2>4. j[i] < k[i] \/ k[i] < j[i]
    BY <1>0, <2>2
  <2>5. QED BY <1>0, <2>3, <2>4 DEF KeyBefore
<1>3. ASSUME NEW a \in K, NEW b \in K, NEW c \in K, KeyBefore(a, b), KeyBefore(b, c)
      PROVE  KeyBefore(a, c)
  <2>1. PICK p \in 1 .. m : (\A h \in 1 .. p - 1 : a[h] = b[h]) /\ a[p] < b[p]
    BY <1>0, <1>3 DEF KeyBefore
  <2>2. PICK q \in 1 .. m : (\A h \in 1 .. q - 1 : b[h] = c[h]) /\ b[q] < c[q]
    BY <1>0, <1>3 DEF KeyBefore
  <2>0. /\ a[p] \in Nat /\ b[p] \in Nat /\ c[p] \in Nat
        /\ a[q] \in Nat /\ b[q] \in Nat /\ c[q] \in Nat
    BY <1>0
  <2>3. CASE p <= q
    <3>0. (p = q \/ p \in 1 .. q - 1) /\ \A h \in 1 .. p - 1 : h \in 1 .. q - 1
      BY <2>3
    <3>1. (\A h \in 1 .. p - 1 : a[h] = c[h]) /\ a[p] < c[p]
      BY <2>0, <2>1, <2>2, <3>0
    <3>2. QED BY <1>0, <3>1 DEF KeyBefore
  <2>4. CASE q < p
    <3>1. (\A h \in 1 .. q - 1 : a[h] = c[h]) /\ a[q] < c[q]
      BY <1>0, <2>1, <2>2, <2>4
    <3>2. QED BY <1>0, <3>1 DEF KeyBefore
  <2>5. QED BY <2>3, <2>4
<1>4. QED BY <1>1, <1>2, <1>3 DEF Linear

(* The keys before k, whose number is the rank of k.                       *)
Preds(K, k) == {j \in K : KeyBefore(j, k)}

(* Ranks grow along the order.                                             *)
LEMMA Ranks ==
  ASSUME NEW K, Linear(K), IsFiniteSet(K)
  PROVE  /\ \A k : IsFiniteSet(Preds(K, k)) /\ Cardinality(Preds(K, k)) \in Nat
         /\ \A j, k \in K : KeyBefore(j, k) =>
              Cardinality(Preds(K, j)) < Cardinality(Preds(K, k))
<1>1. \A k : IsFiniteSet(Preds(K, k)) /\ Cardinality(Preds(K, k)) \in Nat
  BY FS_Subset, FS_CardinalityType DEF Preds
<1>2. ASSUME NEW j \in K, NEW k \in K, KeyBefore(j, k)
      PROVE  Cardinality(Preds(K, j)) < Cardinality(Preds(K, k))
  <2>1. Preds(K, j) \subseteq Preds(K, k) /\ Preds(K, j) # Preds(K, k)
    BY <1>2 DEF Linear, Preds
  <2>2. /\ Cardinality(Preds(K, j)) <= Cardinality(Preds(K, k))
        /\ Cardinality(Preds(K, j)) # Cardinality(Preds(K, k))
    BY <1>1, <2>1, FS_Subset
  <2>3. QED BY <1>1, <2>2
<1>3. QED BY <1>1, <1>2

(* Finitely many keys have a first one and a last one.                     *)
LEMMA EndsOf ==
  ASSUME NEW K, Linear(K), IsFiniteSet(K), NEW S \in SUBSET K, S # {}
  PROVE  /\ \E k \in S : \A j \in S : j = k \/ KeyBefore(k, j)
         /\ \E k \in S : \A j \in S : j = k \/ KeyBefore(j, k)
<1> DEFINE rank(k) == Cardinality(Preds(K, k))
           R == {rank(k) : k \in S}
<1>1. /\ \A k \in S : rank(k) \in Nat
      /\ \A j, k \in S : KeyBefore(j, k) => rank(j) < rank(k)
  BY Ranks
<1>2. \A k \in S : rank(k) <= Cardinality(K)
  <2>1. \A k \in S : Preds(K, k) \subseteq K
    BY DEF Preds
  <2>2. QED BY <2>1, FS_Subset
<1>3. \A j, k \in S : rank(j) <= rank(k) => j = k \/ KeyBefore(j, k)
  <2> HIDE DEF rank
  <2>1. QED BY <1>1 DEF Linear
<1>4. R \in SUBSET Nat /\ R # {} /\ Cardinality(K) \in Nat /\ \A r \in R : r <= Cardinality(K)
  <2> HIDE DEF rank
  <2>1. QED BY <1>1, <1>2, FS_CardinalityType
<1>5. (\E r \in R : \A q \in R : r <= q) /\ (\E r \in R : \A q \in R : q <= r)
  <2> HIDE DEF R
  <2>1. QED BY <1>4, LeastProperty, GreatestBelow
<1>6. QED
  <2> HIDE DEF rank
  <2>1. PICK k \in S : \A j \in S : rank(k) <= rank(j)
    BY <1>5
  <2>2. PICK l \in S : \A j \in S : rank(j) <= rank(l)
    BY <1>5
  <2>3. QED BY <1>3, <2>1, <2>2

(* LIMIT n takes all keys there are, or n. *)
LEMMA FirstOf ==
  ASSUME NEW K, Linear(K), IsFiniteSet(K), NEW n \in Nat
  PROVE  /\ FirstKeys(K, n) \subseteq K /\ IsFiniteSet(FirstKeys(K, n))
         /\ \A k \in FirstKeys(K, n) : Preds(K, k) \subseteq FirstKeys(K, n)
         /\ Cardinality(FirstKeys(K, n)) \in 0 .. n
         /\ FirstKeys(K, n) # K => Cardinality(FirstKeys(K, n)) = n
<1> DEFINE F == FirstKeys(K, n)
<1>0. F = {k \in K : Cardinality(Preds(K, k)) < n}
  BY DEF FirstKeys, Preds
<1>1. F \subseteq K /\ IsFiniteSet(F) /\ Cardinality(F) \in Nat
  BY <1>0, FS_Subset, FS_CardinalityType
<1>2. \A k \in F : Preds(K, k) \subseteq F
  <2>1. ASSUME NEW k \in F, NEW j \in Preds(K, k) PROVE j \in F
    <3>1. j \in K /\ k \in K /\ KeyBefore(j, k)
      BY <1>1 DEF Preds
    <3>2. /\ Cardinality(Preds(K, j)) < Cardinality(Preds(K, k))
          /\ Cardinality(Preds(K, j)) \in Nat /\ Cardinality(Preds(K, k)) \in Nat
      BY <3>1, Ranks
    <3>3. QED BY <1>0, <3>1, <3>2
  <2>2. QED BY <2>1
<1> HIDE DEF F
<1>3. Cardinality(F) <= n
  <2>1. CASE F = {}
    BY <2>1, FS_EmptySet
  <2>2. CASE F # {}
    <3>1. PICK g \in F : \A j \in F : j = g \/ KeyBefore(j, g)
      BY <1>1, <2>2, EndsOf
    <3>2. F \ {g} \subseteq Preds(K, g)
      BY <1>1, <3>1 DEF Preds
    <3>3. Cardinality(F \ {g}) = Cardinality(F) - 1
      BY <1>1, FS_RemoveElement
    <3>4. Cardinality(F \ {g}) <= Cardinality(Preds(K, g)) /\ Cardinality(Preds(K, g)) \in Nat
      BY <3>2, Ranks, FS_Subset
    <3>5. Cardinality(Preds(K, g)) < n
      BY <1>0
    <3>6. QED BY <1>1, <3>3, <3>4, <3>5
  <2>3. QED BY <2>1, <2>2
<1>4. ASSUME F # K PROVE n <= Cardinality(F)
  <2> DEFINE S == K \ F
  <2>1. S \in SUBSET K /\ S # {}
    BY <1>1, <1>4
  <2>2. PICK k \in S : \A j \in S : j = k \/ KeyBefore(k, j)
    <3> HIDE DEF S
    <3>1. QED BY <2>1, EndsOf
  <2>3. Preds(K, k) \subseteq F
    BY <2>2 DEF Preds, Linear
  <2>4. Cardinality(Preds(K, k)) <= Cardinality(F) /\ Cardinality(Preds(K, k)) \in Nat
    BY <1>1, <2>3, Ranks, FS_Subset
  <2>5. ~(Cardinality(Preds(K, k)) < n)
    BY <1>0, <2>2
  <2>6. QED BY <1>1, <2>4, <2>5
<1>5. QED BY <1>1, <1>2, <1>3, <1>4 DEF F

(* MemStore counts as SqlStore does.                                       *)
LEMMA MemCounts == \A S : Mem!Cardinality(S) = Cardinality(S)
BY DEF Mem!Cardinality, Cardinality

(* A page of SQL, which fetches one row more than the limit to know        *)
(* whether there is a next page, is the page that a walk of the sorted map *)
(* gives.                                                                  *)
LEMMA SamePage ==
  ASSUME NEW keys, Linear(keys), IsFiniteSet(keys), NEW cursor, NEW limit \in Nat
  PROVE  KeysPage(keys, cursor, limit) = Mem!Page(keys, cursor, limit)
<1> DEFINE K == {k \in keys : cursor # <<>> => KeyBefore(cursor, k)}
           rows == FirstKeys(K, limit + 1)
           page == FirstKeys(K, limit)
<1>1. \A j, k : Mem!Before(j, k) <=> KeyBefore(j, k)
  BY DEF Mem!Before, KeyBefore
<1>2. Linear(K) /\ IsFiniteSet(K) /\ Cardinality(K) \in Nat
  BY FS_Subset, FS_CardinalityType DEF Linear
<1>3. {k \in keys : cursor = <<>> \/ Mem!Before(cursor, k)} = K
  BY <1>1
<1> HIDE DEF K
<1>4. /\ rows \subseteq K /\ IsFiniteSet(rows) /\ Cardinality(rows) \in 0 .. limit + 1
      /\ \A k \in rows : Preds(K, k) \subseteq rows
      /\ rows # K => Cardinality(rows) = limit + 1
  BY <1>2, FirstOf
<1>5. /\ page \subseteq K /\ IsFiniteSet(page) /\ Cardinality(page) \in 0 .. limit
      /\ page # K => Cardinality(page) = limit
  BY <1>2, FirstOf
<1>6. page \subseteq rows
  <2>1. \A k : Cardinality(Preds(K, k)) \in Nat
    BY <1>2, Ranks
  <2>2. QED BY <2>1 DEF FirstKeys, Preds
<1>7. FirstKeys(rows, limit) = page
  <2>1. \A k \in rows : Preds(rows, k) = Preds(K, k)
    BY <1>4 DEF Preds
  <2>2. /\ FirstKeys(rows, limit) = {k \in rows : Cardinality(Preds(rows, k)) < limit}
        /\ page = {k \in K : Cardinality(Preds(K, k)) < limit}
    BY DEF FirstKeys, Preds
  <2> HIDE DEF rows, page
  <2>3. QED BY <1>4, <1>6, <2>1, <2>2
<1>8. Cardinality(rows) > limit <=> page # K
  <2> HIDE DEF rows, page
  <2>1. CASE page = K
    <3>1. rows = page
      BY <1>4, <1>6, <2>1
    <3>2. QED BY <1>5, <2>1, <3>1
  <2>2. CASE page # K /\ rows # K
    BY <1>4, <2>2
  <2>3. CASE page # K /\ rows = K
    <3>1. Cardinality(page) <= Cardinality(K) /\ Cardinality(page) # Cardinality(K)
      BY <1>2, <1>5, <2>3, FS_Subset
    <3>2. QED BY <1>2, <1>5, <2>3, <3>1
  <2>4. QED BY <2>1, <2>2, <2>3
<1>9. KeysPage(keys, cursor, limit)
        = [keys |-> page, next |-> IF Cardinality(rows) > limit THEN LastKey(page) ELSE <<>>]
  BY <1>7 DEF KeysPage, K
<1>10. Mem!Page(keys, cursor, limit)
        = [keys |-> page,
           next |-> IF page = K THEN <<>>
                    ELSE CHOOSE k \in page : \A j \in page : j = k \/ Mem!Before(j, k)]
  <2> DEFINE A == {k \in keys : cursor = <<>> \/ Mem!Before(cursor, k)}
             P == {k \in A : Mem!Cardinality({j \in A : Mem!Before(j, k)}) < limit}
  <2>1. Mem!Page(keys, cursor, limit)
          = [keys |-> P,
             next |-> IF P = A THEN <<>>
                      ELSE CHOOSE k \in P : \A j \in P : j = k \/ Mem!Before(j, k)]
    BY DEF Mem!Page
  <2>2. A = K
    BY <1>3
  <2>3. P = page
    <3> HIDE DEF A
    <3>1. \A k : {j \in A : Mem!Before(j, k)} = {j \in K : KeyBefore(j, k)}
      BY <1>1, <2>2
    <3>2. QED BY <2>2, <3>1, MemCounts DEF FirstKeys
  <2> HIDE DEF A, P, page
  <2>4. QED BY <2>1, <2>2, <2>3
<1>11. (CHOOSE k \in page : \A j \in page : j = k \/ Mem!Before(j, k)) = LastKey(page)
  BY <1>1 DEF LastKey
<1> HIDE DEF rows, page
<1>12. QED BY <1>8, <1>9, <1>10, <1>11

------------------------------------------------------------------------------
(* The image of a finite set is finite.                                    *)
LEMMA ImageFinite ==
  ASSUME NEW S, IsFiniteSet(S), NEW f
  PROVE  IsFiniteSet({f[x] : x \in S})
<1> DEFINE T == {f[x] : x \in S}
           g == [x \in S |-> f[x]]
<1>1. g \in [S -> T] /\ \A t \in T : \E x \in S : g[x] = t
  OBVIOUS
<1>2. g \in Surjection(S, T)
  <2> HIDE DEF g, T
  <2>1. QED BY <1>1 DEF Surjection
<1> HIDE DEF g, T
<1>3. QED BY <1>2, FS_Surjection DEF T

(* The assertions of a map of edges, each with its edge. *)
Asserted(f) == UNION {{<<e, p>> : p \in DOMAIN f[e]} : e \in DOMAIN f}

(* The maps have finitely many keys, and artifacts are of live nodes. *)
Small(A, E, R) == IsFiniteSet(DOMAIN A) /\ IsFiniteSet(Asserted(E)) /\ IsFiniteSet(DOMAIN R)
MapsSmall == Small(NodeAssertionMap(db), EdgeMap(db), ArtifactMap(db))
RowsLive == \A k \in DOMAIN ArtifactMap(db) : k[1] \in LiveNodes
MapsInv == MapsSmall /\ RowsLive

(* Taking keys away, adding one or repointing them at the survivor of a    *)
(* merge leaves finitely many.                                             *)
LEMMA KeptSmall ==
  ASSUME NEW f, NEW K
  PROVE  /\ IsFiniteSet(DOMAIN f) => IsFiniteSet(DOMAIN Mem!Keep(f, K))
         /\ IsFiniteSet(Asserted(f)) => IsFiniteSet(Asserted(Mem!Keep(f, K)))
<1>1. /\ DOMAIN Mem!Keep(f, K) \subseteq DOMAIN f
      /\ \A x \in DOMAIN Mem!Keep(f, K) : Mem!Keep(f, K)[x] = f[x]
  BY DEF Mem!Keep
<1>2. Asserted(Mem!Keep(f, K)) \subseteq Asserted(f)
  BY <1>1 DEF Asserted
<1>3. QED BY <1>1, <1>2, FS_Subset

LEMMA GrownSmall ==
  ASSUME NEW f, NEW k, NEW v
  PROVE  IsFiniteSet(DOMAIN f) => IsFiniteSet(DOMAIN Mem!With(f, k, v))
<1>1. DOMAIN Mem!With(f, k, v) = DOMAIN f \union {k}
  BY DEF Mem!With
<1>2. QED BY <1>1, FS_AddElement

LEMMA PutSmall ==
  ASSUME NEW f, IsFiniteSet(Asserted(f)), NEW e, NEW s, NEW t, NEW old,
         old = IF e \in DOMAIN f THEN f[e] ELSE Mem!Empty
  PROVE  IsFiniteSet(Asserted(Mem!With(f, e, Mem!With(old, s, t))))
<1> DEFINE v == Mem!With(old, s, t)
           g == Mem!With(f, e, v)
<1>1. DOMAIN v = DOMAIN old \union {s}
  BY DEF Mem!With
<1>2. e \notin DOMAIN f => DOMAIN old = {}
  BY DEF Mem!Empty
<1> HIDE DEF v
<1>3. /\ DOMAIN g = DOMAIN f \union {e}
      /\ \A x \in DOMAIN g : g[x] = IF x = e THEN v ELSE f[x]
  BY DEF Mem!With
<1> HIDE DEF g
<1>4. Asserted(g) \subseteq Asserted(f) \union {<<e, s>>}
  <2>1. ASSUME NEW x \in DOMAIN g, NEW p \in DOMAIN g[x], <<x, p>> # <<e, s>>
        PROVE  x \in DOMAIN f /\ p \in DOMAIN f[x]
    <3>1. CASE x = e
      <4>1. p \in DOMAIN old
        BY <1>1, <1>3, <2>1, <3>1
      <4>2. QED BY <1>2, <3>1, <4>1
    <3>2. CASE x # e
      BY <1>3, <3>2
    <3>3. QED BY <3>1, <3>2
  <2>2. QED BY <2>1 DEF Asserted
<1>5. QED BY <1>4, FS_AddElement, FS_Subset DEF g, v

LEMMA MergedSmall ==
  ASSUME MapsSmall, NEW s, NEW l
  PROVE  Small(Mem!AssertionsMerged(s, l), Mem!EdgesMerged(s, l), Mem!ArtifactsMerged(s, l))
<1> DEFINE A == NodeAssertionMap(db)
           E == EdgeMap(db)
           R == ArtifactMap(db)
           pair == [k \in DOMAIN A |-> <<Mem!Repoint(k[1], s, l), k[2]>>]
           role == [k \in DOMAIN R |-> <<Mem!Repoint(k[1], s, l), k[2]>>]
           key(e) == <<Mem!Repoint(e[1], s, l), Mem!Repoint(e[2], s, l), e[3]>>
           row == [x \in Asserted(E) |-> <<key(x[1]), x[2]>>]
<1>1. DOMAIN Mem!AssertionsMerged(s, l) = {pair[k] : k \in DOMAIN A}
  BY DEF Mem!AssertionsMerged
<1>2. DOMAIN Mem!ArtifactsMerged(s, l) = {role[k] : k \in DOMAIN R}
  BY DEF Mem!ArtifactsMerged
<1>3. Asserted(Mem!EdgesMerged(s, l)) \subseteq {row[x] : x \in Asserted(E)}
  <2> DEFINE G == Mem!EdgesMerged(s, l)
  <2>1. /\ DOMAIN G = {key(e) : e \in DOMAIN E}
        /\ \A k \in DOMAIN G : DOMAIN G[k] = UNION {DOMAIN E[e] : e \in {d \in DOMAIN E : key(d) = k}}
    BY DEF Mem!EdgesMerged
  <2> HIDE DEF G, E
  <2>2. ASSUME NEW k \in DOMAIN G, NEW p \in DOMAIN G[k]
        PROVE  \E x \in Asserted(E) : row[x] = <<k, p>>
    <3>1. PICK e \in DOMAIN E : key(e) = k /\ p \in DOMAIN E[e]
      BY <2>1
    <3>2. <<e, p>> \in Asserted(E)
      BY <3>1 DEF Asserted
    <3>3. row[<<e, p>>] = <<k, p>>
      BY <3>1, <3>2
    <3>4. QED BY <3>2, <3>3
  <2> HIDE DEF row
  <2>3. ASSUME NEW z \in Asserted(G) PROVE z \in {row[x] : x \in Asserted(E)}
    <3>1. PICK k \in DOMAIN G : \E p \in DOMAIN G[k] : z = <<k, p>>
      BY <2>3 DEF Asserted
    <3>2. QED BY <2>2, <3>1
  <2>4. QED BY <2>3 DEF G
<1>4. IsFiniteSet(DOMAIN A) /\ IsFiniteSet(Asserted(E)) /\ IsFiniteSet(DOMAIN R)
  BY DEF MapsSmall, Small
<1> HIDE DEF pair, role, row, A, E, R
<1>5. /\ IsFiniteSet({pair[k] : k \in DOMAIN A}) /\ IsFiniteSet({role[k] : k \in DOMAIN R})
      /\ IsFiniteSet({row[x] : x \in Asserted(E)})
  BY <1>4, ImageFinite
<1>6. QED BY <1>1, <1>2, <1>3, <1>5, FS_Subset DEF Small

(* Every operation keeps the maps finite and leaves no artifact with a     *)
(* node that is merged away: a merge repoints them, a delete of a network  *)
(* takes them.                                                             *)
LEMMA OperationKeeps ==
  ASSUME Sound(db), MapsInv, Mem!Operation
  PROVE  MapsInv'
<1> DEFINE A == NodeAssertionMap(db)
           E == EdgeMap(db)
           R == ArtifactMap(db)
<1>0. /\ MapsInv' <=> Small(A', E', R') /\ \A k \in DOMAIN R' : k[1] \in LiveNodes'
      /\ LiveNodes = {n \in DOMAIN db.node : db.node[n].merged_into = NoId}
      /\ LiveNodes' = {n \in DOMAIN db'.node : db'.node[n].merged_into = NoId}
      /\ Mem!LiveNodes = LiveNodes
  BY MemWalks DEF MapsInv, MapsSmall, RowsLive, LiveNodes
<1>1. /\ IsFiniteSet(DOMAIN A) /\ IsFiniteSet(Asserted(E)) /\ IsFiniteSet(DOMAIN R)
      /\ \A k \in DOMAIN R : k[1] \in LiveNodes
  BY DEF MapsInv, MapsSmall, Small, RowsLive
<1>2. /\ DOMAIN db.node \subseteq Ids /\ \A n \in DOMAIN db.node : db.node[n] \in Node
  BY DEF Sound, Tables
<1>3. ASSUME NEW n \in Ids \ DOMAIN db.node, NEW k \in Kinds, Mem!CreateNode(n, k)
      PROVE  MapsInv'
  <2>1. /\ A' = A /\ E' = E /\ R' = R
        /\ db'.node = Mem!With(db.node, n, [kind |-> k, merged_into |-> NoId])
    BY <1>3 DEF Mem!CreateNode
  <2>2. LiveNodes \subseteq LiveNodes'
    BY <1>0, <2>1 DEF Mem!With
  <2> HIDE DEF A, E, R
  <2>3. QED BY <1>0, <1>1, <2>1, <2>2 DEF Small
<1>4. ASSUME NEW n, Mem!ResolveLive(n)
      PROVE  MapsInv'
  <2>1. /\ A' = A /\ E' = E /\ R' = R
        /\ db'.node = [x \in DOMAIN db.node |->
                         [db.node[x] EXCEPT !.merged_into = Compressed(Redirect(db), n)[x]]]
    BY <1>4, MemWalks DEF Mem!ResolveLive
  <2>2. \A x \in LiveNodes : Compressed(Redirect(db), n)[x] = NoId
    BY <1>2 DEF Compressed, Redirect, LiveNodes
  <2>3. LiveNodes \subseteq LiveNodes'
    BY <1>0, <1>2, <2>1, <2>2 DEF Node
  <2> HIDE DEF A, E, R
  <2>4. QED BY <1>0, <1>1, <2>1, <2>3 DEF Small
<1>5. ASSUME NEW n, NEW a, Mem!GetOrCreateAlias(a, n)
      PROVE  MapsInv'
  <2>1. A' = A /\ E' = E /\ R' = R /\ db'.node = db.node
    BY <1>5 DEF Mem!GetOrCreateAlias
  <2> HIDE DEF A, E, R
  <2>2. QED BY <1>0, <1>1, <2>1 DEF Small
<1>6. ASSUME NEW n, NEW p, NEW t, Mem!UpsertNodeAssertion(n, p, t)
      PROVE  MapsInv'
  <2>1. A' = Mem!With(A, <<n, p>>, t) /\ E' = E /\ R' = R /\ db'.node = db.node
    BY <1>6 DEF Mem!UpsertNodeAssertion
  <2> HIDE DEF A, E, R
  <2>2. QED BY <1>0, <1>1, <2>1, GrownSmall DEF Small
<1>7. ASSUME NEW n \in LiveNodes, NEW role, NEW v, Mem!Record(n, role, v)
      PROVE  MapsInv'
  <2>1. /\ A' = A /\ E' = E /\ db'.node = db.node
        /\ \E rows : R' = Mem!With(R, <<n, role>>, rows)
    BY <1>7 DEF Mem!Record
  <2>2. PICK rows : R' = Mem!With(R, <<n, role>>, rows)
    BY <2>1
  <2> HIDE DEF A, E, R
  <2>3. DOMAIN R' = DOMAIN R \union {<<n, role>>}
    BY <2>2 DEF Mem!With
  <2>4. IsFiniteSet(DOMAIN R')
    BY <1>1, <2>3, FS_AddElement
  <2>5. LiveNodes' = LiveNodes
    BY <1>0, <2>1
  <2>6. QED BY <1>0, <1>1, <2>1, <2>3, <2>4, <2>5 DEF Small
<1>8. ASSUME NEW n, Mem!DeleteWorkNetwork(n)
      PROVE  MapsInv'
  <2> DEFINE out == DOMAIN db.node \ Mem!Network(n)
  <2>1. /\ A' = Mem!Keep(A, out \X Sources) /\ E' = Mem!Keep(E, out \X out \X Relations)
        /\ R' = Mem!Keep(R, out \X Roles) /\ db'.node = Mem!Keep(db.node, out)
    BY <1>8 DEF Mem!DeleteWorkNetwork
  <2> HIDE DEF A, E, R, out
  <2>2. Small(A', E', R')
    BY <1>1, <2>1, KeptSmall DEF Small
  <2>3. \A k \in DOMAIN R' : k[1] \in LiveNodes'
    BY <1>0, <1>1, <2>1 DEF Mem!Keep
  <2>4. QED BY <1>0, <2>2, <2>3
<1>9. ASSUME NEW s \in LiveNodes, NEW l \in LiveNodes, s < l, Mem!Merge(s, l)
      PROVE  MapsInv'
  <2>1. /\ A' = Mem!AssertionsMerged(s, l) /\ E' = Mem!EdgesMerged(s, l)
        /\ R' = Mem!ArtifactsMerged(s, l)
        /\ db'.node = [db.node EXCEPT ![l].merged_into = s]
    BY <1>0, <1>9 DEF Mem!Merge
  <2>2. Small(A', E', R')
    BY <2>1, MergedSmall DEF MapsInv
  <2>3. DOMAIN R' = {<<Mem!Repoint(k[1], s, l), k[2]>> : k \in DOMAIN R}
    BY <2>1 DEF Mem!ArtifactsMerged
  <2>4. s # l
    <3>1. s \in Nat /\ l \in Nat
      BY <1>0, <1>2, IdsAssumption
    <3>2. QED BY <1>9, <3>1
  <2>5. LiveNodes' = LiveNodes \ {l}
    <3>1. s # NoId
      BY <1>0, <1>2, IdsAssumption
    <3>2. QED BY <1>0, <1>2, <2>1, <3>1 DEF Node
  <2> HIDE DEF A, E, R
  <2>6. QED BY <1>0, <1>1, <2>2, <2>3, <2>4, <2>5 DEF Mem!Repoint
<1>10. ASSUME NEW x, NEW y, NEW r, NEW p, NEW t, Mem!PutEdge(x, y, r, p, t)
      PROVE  MapsInv'
  <2> DEFINE old == IF <<x, y, r>> \in DOMAIN E THEN E[<<x, y, r>>] ELSE Mem!Empty
  <2>1. /\ A' = A /\ E' = Mem!With(E, <<x, y, r>>, Mem!With(old, p, t)) /\ R' = R
        /\ db'.node = db.node
    BY <1>10 DEF Mem!PutEdge
  <2> HIDE DEF A, E, R
  <2>2. IsFiniteSet(Asserted(E'))
    BY <1>1, <2>1, PutSmall
  <2>3. QED BY <1>0, <1>1, <2>1, <2>2 DEF Small
<1>11. QED
  BY <1>0, <1>3, <1>4, <1>5, <1>6, <1>7, <1>8, <1>9, <1>10 DEF Mem!Operation

LEMMA MapsStart == Init => MapsInv
<1> SUFFICES ASSUME Init PROVE MapsInv
  OBVIOUS
<1>1. db.node_assertion = {} /\ db.edge = {} /\ db.artifacts = {}
  BY DEF Init
<1>2. /\ DOMAIN NodeAssertionMap(db) = {} /\ DOMAIN EdgeMap(db) = {}
      /\ DOMAIN ArtifactMap(db) = {}
  BY <1>1 DEF NodeAssertionMap, EdgeMap, ArtifactMap
<1>3. Asserted(EdgeMap(db)) = {}
  BY <1>2 DEF Asserted
<1>4. QED BY <1>2, <1>3, FS_EmptySet DEF MapsInv, MapsSmall, Small, RowsLive

LEMMA MapsKept == IInv /\ MapsInv /\ [Next]_vars => MapsInv'
<1> SUFFICES ASSUME IInv, MapsInv, [Next]_vars PROVE MapsInv'
  OBVIOUS
<1>1. CASE Commit
  <2>1. Mem!Operation
    BY <1>1, CommitCommits DEF Commits
  <2>2. QED BY <2>1, OperationKeeps DEF IInv
<1>2. CASE db' = db
  <2>1. /\ NodeAssertionMap(db') = NodeAssertionMap(db) /\ EdgeMap(db') = EdgeMap(db)
        /\ ArtifactMap(db') = ArtifactMap(db) /\ LiveNodes' = LiveNodes
    BY <1>2 DEF LiveNodes
  <2>2. QED BY <2>1 DEF MapsInv, MapsSmall, RowsLive
<1>3. CASE Start \/ Execute \/ Rollback \/ Crash \/ Done \/ UNCHANGED vars
  BY <1>2, <1>3 DEF Start, Execute, Rollback, Crash, Done, vars
<1>4. QED BY <1>1, <1>3 DEF Next

LEMMA AlwaysSmall == Spec => [](IInv /\ MapsInv)
BY InitSound, MapsStart, NextKeeps, MapsKept, PTL DEF Spec

------------------------------------------------------------------------------
(* The rows of the maps are those of the table and the lost ones, of which *)
(* none is current.                                                        *)
LEMMA RowsThere ==
  ASSUME Sound(db)
  PROVE  /\ \A a \in db.artifacts \union db.lost : a \in Artifact /\ a.role \in Roles /\ a.node \in Ids
         /\ \A a \in db.lost : ~a.current
         /\ \A n, role : Mem!RowsOf(n, role) = {Shown(a) : a \in RoleRows(db, n, role)}
         /\ \A a : Shown(a).current = a.current /\ Shown(a).key = a.key
  <1>1. \A a \in db.artifacts \union db.lost : a \in Artifact /\ a.role \in Roles /\ a.node \in Ids
    BY DEF Sound, Tables, Artifact
  <1>2. \A n, role : Mem!RowsOf(n, role) = {Shown(a) : a \in RoleRows(db, n, role)}
    BY RowsOfIs DEF Sound
  <1>3. \A a : Shown(a).current = a.current /\ Shown(a).key = a.key
    BY DEF Shown
  <1>4. QED BY <1>1, <1>2, <1>3 DEF Sound, LostAreOld

(* One read after the other: SQL finds in its tables what the maps hold.   *)
LEMMA CurrentAlike ==
  ASSUME Sound(db), NEW n, NEW role
  PROVE  CurrentArtifact(n, role) = Mem!CurrentArtifact(n, role)
<1> DEFINE S == CurrentArtifact(n, role)
           T == Mem!CurrentArtifact(n, role)
<1>1. /\ \A x : x \in S <=> \E a \in db.artifacts :
                              a.node = n /\ a.role = role /\ a.current /\ x = Shown(a)
      /\ \A x : x \in T <=> x \in Mem!RowsOf(n, role) /\ x.current
  BY DEF CurrentArtifact, Mem!CurrentArtifact
<1>2. \A x : x \in Mem!RowsOf(n, role) <=>
               \E a \in db.artifacts \union db.lost : a.node = n /\ a.role = role /\ x = Shown(a)
  BY RowsThere DEF RoleRows
<1> HIDE DEF S, T
<1>3. \A x : x \in S <=> x \in T
  BY <1>1, <1>2, RowsThere
<1>4. S = T
  BY <1>3
<1>5. QED BY <1>4 DEF S, T

LEMMA ListsAlike ==
  ASSUME Sound(db), NEW n
  PROVE  /\ ListArtifacts(n, FALSE) = Mem!ListArtifacts(n, FALSE)
         /\ ListArtifacts(n, TRUE) \union {<<a.role, Shown(a)>> : a \in {b \in db.lost : b.node = n}}
              = Mem!ListArtifacts(n, TRUE)
<1> DEFINE S == ListArtifacts(n, FALSE)
           U == ListArtifacts(n, TRUE) \union {<<a.role, Shown(a)>> : a \in {b \in db.lost : b.node = n}}
           T == Mem!ListArtifacts(n, FALSE)
           V == Mem!ListArtifacts(n, TRUE)
<1>1. /\ \A x : x \in S <=>
                  \E a \in db.artifacts : a.node = n /\ a.current /\ x = <<a.role, Shown(a)>>
      /\ \A x : x \in U <=>
                  \E a \in db.artifacts \union db.lost : a.node = n /\ x = <<a.role, Shown(a)>>
  BY DEF ListArtifacts
<1>2. /\ \A x : x \in T <=>
                  \E role \in Roles : \E y \in Mem!RowsOf(n, role) : y.current /\ x = <<role, y>>
      /\ \A x : x \in V <=>
                  \E role \in Roles : \E y \in Mem!RowsOf(n, role) : x = <<role, y>>
  BY DEF Mem!ListArtifacts
<1>3. \A role, y : y \in Mem!RowsOf(n, role) <=>
               \E a \in db.artifacts \union db.lost : a.node = n /\ a.role = role /\ y = Shown(a)
  BY RowsThere DEF RoleRows
<1> HIDE DEF S, T, U, V
<1>4. \A x : x \in S <=> x \in T
  <2>1. ASSUME NEW x \in S PROVE x \in T
    <3>1. PICK a \in db.artifacts : a.node = n /\ a.current /\ x = <<a.role, Shown(a)>>
      BY <1>1, <2>1
    <3>2. a.role \in Roles /\ Shown(a) \in Mem!RowsOf(n, a.role) /\ Shown(a).current
      BY <1>3, <3>1, RowsThere
    <3>3. QED BY <1>2, <3>1, <3>2
  <2>2. ASSUME NEW x \in T PROVE x \in S
    <3>1. PICK role \in Roles : \E y \in Mem!RowsOf(n, role) : y.current /\ x = <<role, y>>
      BY <1>2, <2>2
    <3>2. PICK a \in db.artifacts \union db.lost :
                 a.node = n /\ a.role = role /\ Shown(a).current /\ x = <<role, Shown(a)>>
      BY <1>3, <3>1
    <3>3. QED BY <1>1, <3>2, RowsThere
  <2>3. QED BY <2>1, <2>2
<1>5. \A x : x \in U <=> x \in V
  <2>1. ASSUME NEW x \in U PROVE x \in V
    <3>1. PICK a \in db.artifacts \union db.lost : a.node = n /\ x = <<a.role, Shown(a)>>
      BY <1>1, <2>1
    <3>2. a.role \in Roles /\ Shown(a) \in Mem!RowsOf(n, a.role)
      BY <1>3, <3>1, RowsThere
    <3>3. QED BY <1>2, <3>1, <3>2
  <2>2. ASSUME NEW x \in V PROVE x \in U
    <3>1. PICK role \in Roles : \E y \in Mem!RowsOf(n, role) : x = <<role, y>>
      BY <1>2, <2>2
    <3>2. PICK a \in db.artifacts \union db.lost : a.node = n /\ a.role = role /\ x = <<role, Shown(a)>>
      BY <1>3, <3>1
    <3>3. QED BY <1>1, <3>2
  <2>3. QED BY <2>1, <2>2
<1>6. S = T /\ U = V
  BY <1>4, <1>5
<1>7. QED BY <1>6 DEF S, T, U, V

LEMMA NodeAlike ==
  ASSUME Sound(db), NEW n
  PROVE  ReadNode(n) = Mem!ReadNode(n)
<1> DEFINE A == NodeAssertionMap(db)
           S == {<<r.source, r.at>> : r \in {q \in db.node_assertion : q.node = n}}
           T == {<<k[2], A[k]>> : k \in {j \in DOMAIN A : j[1] = n}}
<1>1. DOMAIN A = {NodeKey(r) : r \in db.node_assertion} /\ \A r \in db.node_assertion : A[NodeKey(r)] = r.at
  BY NodeAssertionMapIs DEF Sound
<1>2. \A r \in db.node_assertion : NodeKey(r)[1] = r.node /\ NodeKey(r)[2] = r.source
  BY DEF NodeKey
<1>3. S = T
  <2> HIDE DEF A
  <2>1. \A x : x \in S <=> \E r \in db.node_assertion : r.node = n /\ x = <<r.source, r.at>>
    OBVIOUS
  <2>2. \A x : x \in T <=> \E k \in DOMAIN A : k[1] = n /\ x = <<k[2], A[k]>>
    OBVIOUS
  <2> HIDE DEF S, T
  <2>3. \A x : x \in S <=> x \in T
    BY <1>1, <1>2, <2>1, <2>2
  <2>4. QED BY <2>3
<1>4. ReadNode(n) = IF n \in LiveNodes
                    THEN {[kind |-> db.node[n].kind, assertions |-> S,
                           aliases |-> {a \in DOMAIN db.alias : db.alias[a] = n}]}
                    ELSE {}
  BY DEF ReadNode, LiveNodes
<1>5. Mem!ReadNode(n) = IF n \notin Mem!LiveNodes THEN {}
                        ELSE {[kind |-> db.node[n].kind, assertions |-> T,
                               aliases |-> {a \in DOMAIN db.alias : db.alias[a] = n}]}
  BY DEF Mem!ReadNode
<1> HIDE DEF S, T
<1>6. QED BY <1>3, <1>4, <1>5, MemWalks

(* The network of a live node has no other live one. *)
LEMMA LiveAlone ==
  ASSUME Sound(db), NEW n \in LiveNodes, NEW x \in LiveNodes,
         x \in NetworkOf(Redirect(db), DOMAIN db.node, n)
  PROVE  x = n
<1>1. x \in Ids /\ Redirect(db)[x] = NoId
  BY DEF Sound, Tables, LiveNodes, Redirect
<1>2. n \in Chain(Redirect(db), x) => n = x
  <2>1. x \in {x} /\ ClosedUnder(Redirect(db), {x}) /\ {x} \in SUBSET Ids
    BY <1>1 DEF ClosedUnder
  <2>2. QED BY <2>1 DEF Chain
<1>3. QED BY <1>2 DEF NetworkOf

(* A delete is planned alike, but for the bytes of the lost rows.          *)
LEMMA PlansAlike ==
  ASSUME Sound(db), MapsInv, NEW n \in LiveNodes
  PROVE  [PlanDelete(n) EXCEPT !.r2_keys = @ \union {a.key : a \in {b \in db.lost : b.node = n}}]
           = Mem!PlanDelete(n)
<1> DEFINE net == NetworkOf(Redirect(db), DOMAIN db.node, n)
           al == Cardinality({a \in DOMAIN db.alias : db.alias[a] \in net})
           ed == Cardinality({e \in db.edge : Cut(net, e)})
           S == {a.key : a \in {b \in db.artifacts : b.node \in net}}
           L == {a.key : a \in {b \in db.lost : b.node = n}}
           R == ArtifactMap(db)
           K == UNION {{a.key : a \in R[k]} : k \in {j \in DOMAIN R : j[1] \in net}}
<1>1. PlanDelete(n) = [network |-> net, alias_count |-> al, edge_count |-> ed, r2_keys |-> S]
  BY DEF PlanDelete
<1>2. DOMAIN EdgeMap(db) = db.edge
  BY DEF EdgeMap
<1>3. {e \in DOMAIN EdgeMap(db) : e[1] \in net \/ e[2] \in net} = {e \in db.edge : Cut(net, e)}
  <2> HIDE DEF net
  <2>1. QED BY <1>2 DEF Cut
<1>4. Mem!Network(n) = net
  BY MemWalks
<1>5. Mem!PlanDelete(n) = [network |-> net, alias_count |-> al, edge_count |-> ed, r2_keys |-> K]
  <2> DEFINE N == Mem!Network(n)
  <2>1. Mem!PlanDelete(n)
          = [network |-> N,
             alias_count |-> Mem!Cardinality({a \in DOMAIN db.alias : db.alias[a] \in N}),
             edge_count |-> Mem!Cardinality({e \in DOMAIN EdgeMap(db) : e[1] \in N \/ e[2] \in N}),
             r2_keys |-> UNION {{a.key : a \in R[k]} : k \in {j \in DOMAIN R : j[1] \in N}}]
    BY DEF Mem!PlanDelete
  <2> HIDE DEF N, net, R
  <2>2. N = net
    BY <1>4 DEF N
  <2>3. {e \in DOMAIN EdgeMap(db) : e[1] \in N \/ e[2] \in N} = {e \in db.edge : Cut(net, e)}
    BY <1>3, <2>2
  <2>4. QED BY <2>1, <2>2, <2>3, MemCounts
<1>6. S \union L = K
  <2> HIDE DEF net
  <2>1. /\ \A y : y \in S <=> \E a \in db.artifacts : a.node \in net /\ y = a.key
        /\ \A y : y \in L <=> \E a \in db.lost : a.node = n /\ y = a.key
    OBVIOUS
  <2>2. \A k \in DOMAIN R : R[k] = {Shown(a) : a \in RoleRows(db, k[1], k[2])}
    <3>1. \A k \in DOMAIN R : k = <<k[1], k[2]>>
      BY DEF ArtifactMap
    <3>2. QED BY <3>1, RowsOfIs DEF Sound
  <2>3. \A a \in db.artifacts \union db.lost : <<a.node, a.role>> \in DOMAIN R
    <3>1. \A a \in db.lost : \E b \in db.artifacts : b.node = a.node /\ b.role = a.role
      BY DEF Sound, LostAreOld, ArtifactKey
    <3>2. QED BY <3>1 DEF ArtifactMap
  <2>4. \A a \in db.lost : a.node \in net <=> a.node = n
    <3>1. \A a \in db.lost : a.node \in LiveNodes
      <4>1. \A k \in DOMAIN R : k[1] \in LiveNodes
        BY DEF MapsInv, RowsLive
      <4>2. QED
        <5> HIDE DEF R
        <5>1. \A a \in db.lost : <<a.node, a.role>> \in DOMAIN R /\ <<a.node, a.role>>[1] = a.node
          BY <2>3
        <5>2. QED BY <4>1, <5>1
    <3>2. n \in net
      BY DEF net, NetworkOf
    <3>3. QED BY <3>1, <3>2, LiveAlone DEF net
  <2>5. \A y : y \in K <=> \E k \in DOMAIN R : k[1] \in net /\ \E s \in R[k] : y = s.key
    <3> HIDE DEF R
    <3>1. QED OBVIOUS
  <2> HIDE DEF R
  <2>6. \A y : y \in K <=> \E a \in db.artifacts \union db.lost : a.node \in net /\ y = a.key
    <3> HIDE DEF K
    <3>1. ASSUME NEW y \in K PROVE \E a \in db.artifacts \union db.lost : a.node \in net /\ y = a.key
      <4>1. PICK k \in DOMAIN R : k[1] \in net /\ \E s \in R[k] : y = s.key
        BY <2>5, <3>1
      <4>2. PICK a \in RoleRows(db, k[1], k[2]) : y = Shown(a).key
        BY <2>2, <4>1
      <4>3. QED BY <4>1, <4>2, RowsThere DEF RoleRows
    <3>2. ASSUME NEW a \in db.artifacts \union db.lost, a.node \in net PROVE a.key \in K
      <4>1. <<a.node, a.role>> \in DOMAIN R
        BY <2>3
      <4>2. Shown(a) \in R[<<a.node, a.role>>]
        BY <2>2, <4>1 DEF RoleRows
      <4>3. Shown(a).key = a.key
        BY RowsThere
      <4>4. QED BY <2>5, <3>2, <4>1, <4>2, <4>3
    <3>3. QED BY <3>1, <3>2
  <2> HIDE DEF S, L, K
  <2>7. QED BY <2>1, <2>4, <2>6
<1> DEFINE P == PlanDelete(n)
<1>7. [P EXCEPT !.r2_keys = @ \union L]
        = [network |-> net, alias_count |-> al, edge_count |-> ed, r2_keys |-> S \union L]
  <2> HIDE DEF S, L, K, net, al, ed
  <2>1. P = [network |-> net, alias_count |-> al, edge_count |-> ed, r2_keys |-> S]
    BY <1>1
  <2> HIDE DEF P
  <2>2. P.r2_keys \union L = S \union L
    BY <2>1
  <2>3. \A X : [P EXCEPT !.r2_keys = X]
               = [network |-> net, alias_count |-> al, edge_count |-> ed, r2_keys |-> X]
    BY <2>1
  <2>4. QED BY <2>2, <2>3
<1> HIDE DEF S, K, net, al, ed
<1>8. QED BY <1>5, <1>6, <1>7

(* The counts over the tables are those of the walk over the maps.         *)
LEMMA CountsAlike ==
  ASSUME Sound(db), MapsInv
  PROVE  Stats = Mem!Stats
<1> DEFINE A == NodeAssertionMap(db)
           works == {n \in LiveNodes : db.node[n].kind = "work"}
           described == {r.node : r \in db.node_assertion} \intersect works
           mdescribed == {n \in works : \E k \in DOMAIN A : k[1] = n}
           bySource == [p \in {r.source : r \in db.node_assertion} |->
                          Cardinality({r \in db.node_assertion : r.source = p})]
           mBySource == [p \in {k[2] : k \in DOMAIN A} |->
                           Mem!Cardinality({k \in DOMAIN A : k[2] = p})]
<1>1. /\ DOMAIN A = {NodeKey(r) : r \in db.node_assertion}
      /\ \A r \in db.node_assertion : NodeKey(r)[1] = r.node /\ NodeKey(r)[2] = r.source
      /\ \A r, q \in db.node_assertion : NodeKey(r) = NodeKey(q) => r = q
      /\ IsFiniteSet(DOMAIN A)
  BY NodeAssertionMapIs DEF Sound, OneRowPerKey, NodeKey, MapsInv, MapsSmall, Small
<1>2. DOMAIN EdgeMap(db) = db.edge /\ Mem!LiveNodes = LiveNodes
  BY MemWalks DEF EdgeMap
<1>3. described = mdescribed
  <2> HIDE DEF A, works
  <2>1. QED BY <1>1
<1>4. bySource = mBySource
  <2> HIDE DEF A
  <2>1. {r.source : r \in db.node_assertion} = {k[2] : k \in DOMAIN A}
    <3>1. \A r \in db.node_assertion : r.source \in {k[2] : k \in DOMAIN A}
      <4>1. \A r \in db.node_assertion : NodeKey(r) \in DOMAIN A /\ NodeKey(r)[2] = r.source
        BY <1>1
      <4>2. QED BY <4>1
    <3>2. QED BY <1>1, <3>1
  <2>2. ASSUME NEW p
        PROVE  Cardinality({r \in db.node_assertion : r.source = p})
                 = Mem!Cardinality({k \in DOMAIN A : k[2] = p})
    <3> DEFINE S == {r \in db.node_assertion : r.source = p}
               T == {k \in DOMAIN A : k[2] = p}
               f == [k \in T |-> CHOOSE r \in db.node_assertion : NodeKey(r) = k]
    <3>1. IsFiniteSet(T)
      BY <1>1, FS_Subset
    <3>2. ASSUME NEW k \in T PROVE f[k] \in S /\ NodeKey(f[k]) = k
      BY <1>1
    <3>3. f \in Injection(T, S)
      <4> HIDE DEF S, T
      <4>1. DOMAIN f = T /\ f = [k \in T |-> f[k]]
        OBVIOUS
      <4> HIDE DEF f
      <4>2. f \in [T -> S] /\ \A j, k \in T : f[j] = f[k] => j = k
        BY <3>2, <4>1
      <4>3. QED BY <4>2 DEF Injection, IsInjective
    <3>4. \A r \in S : \E k \in T : f[k] = r
      <4>1. ASSUME NEW r \in S PROVE NodeKey(r) \in T /\ f[NodeKey(r)] = r
        <5>1. NodeKey(r) \in T
          BY <1>1
        <5>2. QED BY <1>1, <3>2, <5>1
      <4>2. QED BY <4>1
    <3>5. f \in Surjection(T, S)
      <4> HIDE DEF f, S, T
      <4>1. QED BY <3>3, <3>4 DEF Injection, Surjection
    <3> HIDE DEF f, S, T
    <3>6. Cardinality(S) = Cardinality(T)
      BY <3>1, <3>3, <3>5, FS_Surjection
    <3>7. QED BY <3>6, MemCounts DEF S, T
  <2>3. QED BY <2>1, <2>2
<1>5. DOMAIN db.node \ LiveNodes = {n \in DOMAIN db.node : db.node[n].merged_into # NoId}
  BY DEF LiveNodes
<1>6. Stats =
        [works |-> Cardinality(works), works_described |-> Cardinality(described),
         works_stub |-> Cardinality(works) - Cardinality(described),
         nodes_total |-> Cardinality(LiveNodes),
         merge_redirects |-> Cardinality({n \in DOMAIN db.node : db.node[n].merged_into # NoId}),
         edges_total |-> Cardinality(db.edge),
         nodes_by_kind |-> [k \in {db.node[n].kind : n \in LiveNodes} |->
                              Cardinality({n \in LiveNodes : db.node[n].kind = k})],
         edges_by_relation |-> [r \in {e[3] : e \in db.edge} |->
                                  Cardinality({e \in db.edge : e[3] = r})],
         assertions_by_source |-> bySource]
  BY DEF Stats, CountBy
<1>7. Mem!Stats =
        [works |-> Mem!Cardinality({n \in Mem!LiveNodes : db.node[n].kind = "work"}),
         works_described |-> Mem!Cardinality({n \in {m \in Mem!LiveNodes : db.node[m].kind = "work"} :
                                                \E k \in DOMAIN A : k[1] = n}),
         works_stub |-> Mem!Cardinality({n \in Mem!LiveNodes : db.node[n].kind = "work"})
                          - Mem!Cardinality({n \in {m \in Mem!LiveNodes : db.node[m].kind = "work"} :
                                                \E k \in DOMAIN A : k[1] = n}),
         nodes_total |-> Mem!Cardinality(Mem!LiveNodes),
         merge_redirects |-> Mem!Cardinality(DOMAIN db.node \ Mem!LiveNodes),
         edges_total |-> Mem!Cardinality(DOMAIN EdgeMap(db)),
         nodes_by_kind |-> [k \in {db.node[n].kind : n \in Mem!LiveNodes} |->
                              Mem!Cardinality({n \in Mem!LiveNodes : db.node[n].kind = k})],
         edges_by_relation |-> [r \in {e[3] : e \in DOMAIN EdgeMap(db)} |->
                                  Mem!Cardinality({e \in DOMAIN EdgeMap(db) : e[3] = r})],
         assertions_by_source |-> mBySource]
  BY DEF Mem!Stats
<1> HIDE DEF bySource, mBySource, A
<1>8. /\ {n \in Mem!LiveNodes : db.node[n].kind = "work"} = works
      /\ {n \in {m \in Mem!LiveNodes : db.node[m].kind = "work"} : \E k \in DOMAIN A : k[1] = n}
           = mdescribed
      /\ [k \in {db.node[n].kind : n \in Mem!LiveNodes} |->
            Mem!Cardinality({n \in Mem!LiveNodes : db.node[n].kind = k})]
           = [k \in {db.node[n].kind : n \in LiveNodes} |->
                Cardinality({n \in LiveNodes : db.node[n].kind = k})]
      /\ [r \in {e[3] : e \in DOMAIN EdgeMap(db)} |->
            Mem!Cardinality({e \in DOMAIN EdgeMap(db) : e[3] = r})]
           = [r \in {e[3] : e \in db.edge} |-> Cardinality({e \in db.edge : e[3] = r})]
  BY <1>2, MemCounts
<1> HIDE DEF works, described, mdescribed
<1>9. QED BY <1>2, <1>3, <1>4, <1>5, <1>6, <1>7, <1>8, MemCounts

------------------------------------------------------------------------------
(* The three exports give the same pages, for every cursor and every       *)
(* limit.                                                                  *)
LEMMA NodePagesAlike ==
  ASSUME Sound(db), NEW cursor, NEW limit \in Nat
  PROVE  ExportNodes(cursor, limit) = Mem!ExportNodes(cursor, limit)
<1> DEFINE keys == {<<n>> : n \in LiveNodes}
           one == [n \in LiveNodes |-> <<n>>]
           p == KeysPage(keys, cursor, limit)
           S == {<<k, ReadNode(k[1])>> : k \in p.keys}
           T == {<<k, Mem!ReadNode(k[1])>> : k \in p.keys}
<1>1. LiveNodes \subseteq Ids /\ IsFiniteSet(LiveNodes)
  BY IdsAssumption, FS_Subset DEF Sound, Tables, LiveNodes
<1>2. IsFiniteSet(keys)
  <2>1. IsFiniteSet({one[n] : n \in LiveNodes})
    <3> HIDE DEF one
    <3>1. QED BY <1>1, ImageFinite
  <2>2. {one[n] : n \in LiveNodes} = keys
    OBVIOUS
  <2>3. QED BY <2>1, <2>2
<1>3. Linear(keys)
  <2>1. \A n \in LiveNodes : <<n>> \in [1 .. 1 -> Nat]
    BY <1>1, IdsAssumption
  <2>2. keys \in SUBSET [1 .. 1 -> Nat]
    BY <2>1
  <2> HIDE DEF keys
  <2>3. QED BY <2>2, KeysOrdered
<1>4. p = Mem!Page({<<n>> : n \in Mem!LiveNodes}, cursor, limit)
  <2>1. {<<n>> : n \in Mem!LiveNodes} = keys
    BY MemWalks
  <2> HIDE DEF keys
  <2>2. QED BY <1>2, <1>3, <2>1, SamePage
<1>5. ExportNodes(cursor, limit) = [rows |-> S, next |-> p.next]
  BY DEF ExportNodes
<1>6. Mem!ExportNodes(cursor, limit) = [rows |-> T, next |-> p.next]
  <2> DEFINE q == Mem!Page({<<n>> : n \in Mem!LiveNodes}, cursor, limit)
  <2>1. Mem!ExportNodes(cursor, limit)
          = [rows |-> {<<k, Mem!ReadNode(k[1])>> : k \in q.keys}, next |-> q.next]
    BY DEF Mem!ExportNodes
  <2>2. q = p
    BY <1>4
  <2> HIDE DEF q, p
  <2>3. QED BY <2>1, <2>2
<1>7. S = T
  <2> HIDE DEF p
  <2>1. \A n : ReadNode(n) = Mem!ReadNode(n)
    BY NodeAlike
  <2>2. QED BY <2>1
<1> HIDE DEF S, T, p
<1>8. QED BY <1>5, <1>6, <1>7

(* The key of an edge assertion is its edge and its source.                *)
LEMMA AppendedParts ==
  ASSUME NEW e, e \in Seq(Nat), NEW s, s \in Nat
  PROVE  /\ Append(e, s) \in Seq(Nat) /\ Len(Append(e, s)) = Len(e) + 1
         /\ \A i \in 1 .. Len(e) : Append(e, s)[i] = e[i]
         /\ Append(e, s)[Len(e) + 1] = s
<1>1. Append(e, s) \in Seq(Nat) /\ Len(Append(e, s)) = Len(e) + 1
  BY AppendProperties
<1>2. \A i \in 1 .. Len(e) : Append(e, s)[i] = e[i]
  BY AppendProperties
<1>3. Append(e, s)[Len(e) + 1] = s
  BY AppendProperties
<1>4. QED BY <1>1, <1>2, <1>3

LEMMA AppendedKey ==
  ASSUME NEW e, e \in Seq(Nat), Len(e) = 3, NEW s, s \in Nat
  PROVE  /\ e \o <<s>> = Append(e, s) /\ Append(e, s)[4] = s
         /\ SubSeq(Append(e, s), 1, 3) = e
         /\ Append(e, s) \in [1 .. 4 -> Nat]
<1>1. /\ Append(e, s) \in Seq(Nat) /\ Len(Append(e, s)) = Len(e) + 1
      /\ \A i \in 1 .. Len(e) : Append(e, s)[i] = e[i]
      /\ Append(e, s)[Len(e) + 1] = s
  BY AppendedParts, Zenon
<1> DEFINE k == Append(e, s)
<1>2. /\ k \in Seq(Nat) /\ Len(k) = 4
      /\ \A i \in 1 .. 3 : k[i] = e[i]
      /\ k[4] = s
  <2>1. Len(e) + 1 = 4
    OBVIOUS
  <2>2. QED BY <1>1, <2>1, Zenon
<1>3. e \o <<s>> = k
  BY AppendIsConcat
<1> HIDE DEF k
<1>4. k \in [1 .. 4 -> Nat]
  <2>1. k \in [1 .. Len(k) -> Nat]
    BY <1>2, LenProperties
  <2>2. QED BY <1>2, <2>1
<1>5. SubSeq(k, 1, 3) = e
  <2>1. \A i \in 1 .. 3 : k[i] \in Nat /\ k[i] = e[i] /\ 1 + i - 1 = i
    BY <1>2, <1>4
  <2>2. /\ SubSeq(k, 1, 3) \in Seq(Nat) /\ Len(SubSeq(k, 1, 3)) = IF 1 <= 3 THEN 3 - 1 + 1 ELSE 0
        /\ \A i \in 1 .. 3 - 1 + 1 : SubSeq(k, 1, 3)[i] = k[1 + i - 1]
    BY <2>1, SubSeqProperties
  <2>3. Len(SubSeq(k, 1, 3)) = 3 /\ \A i \in 1 .. 3 : SubSeq(k, 1, 3)[i] = e[i]
    BY <2>1, <2>2
  <2>4. QED BY <2>2, <2>3, SeqEqual
<1>6. /\ e \o <<s>> = k /\ k[4] = s
      /\ SubSeq(k, 1, 3) = e
      /\ k \in [1 .. 4 -> Nat]
  BY <1>2, <1>3, <1>4, <1>5
<1>7. QED BY <1>6, Zenon DEF k

LEMMA EdgeRowKeys ==
  ASSUME NEW e \in Edge, NEW s \in Sources
  PROVE  /\ e \o <<s>> = Append(e, s) /\ Append(e, s)[4] = s
         /\ SubSeq(Append(e, s), 1, 3) = e
         /\ Append(e, s) \in [1 .. 4 -> Nat]
<1>1. e \in Seq(Nat) /\ Len(e) = 3 /\ s \in Nat
  <2>1. PICK x \in Ids, y \in Ids, r \in Relations : e = <<x, y, r>>
    BY DEF Edge
  <2>2. x \in Nat /\ y \in Nat /\ r \in Nat /\ s \in Nat
    BY IdsAssumption, StoreAssumption
  <2>3. QED BY <2>1, <2>2
<1>2. QED BY <1>1, AppendedKey

LEMMA EdgePagesAlike ==
  ASSUME Sound(db), MapsInv, NEW cursor, NEW limit \in Nat
  PROVE  ExportEdges(cursor, limit) = Mem!ExportEdges(cursor, limit)
<1> DEFINE key(r) == Append(r.edge, r.source)
           keys == {key(r) : r \in db.edge_assertion}
           E == EdgeMap(db)
           cat(e, s) == e \o <<s>>
           mkeys == UNION {{cat(e, s) : s \in DOMAIN E[e]} : e \in DOMAIN E}
           row == [x \in Asserted(E) |-> Append(x[1], x[2])]
           p == KeysPage(keys, cursor, limit)
           S == {<<key(r), r.at>> : r \in {q \in db.edge_assertion : key(q) \in p.keys}}
           T == {<<k, E[SubSeq(k, 1, 3)][k[4]]>> : k \in p.keys}
<1>1. \A r \in db.edge_assertion : r.edge \in Edge /\ r.source \in Sources /\ r.edge \in db.edge
  BY DEF Sound, Tables, EdgeAssertion, ForeignKeys
<1>2. /\ DOMAIN E = db.edge
      /\ \A e \in db.edge :
           DOMAIN E[e] = {r.source : r \in {q \in db.edge_assertion : q.edge = e}}
      /\ \A r \in db.edge_assertion : E[r.edge][r.source] = r.at
  <2>1. EdgeMapOf(db)
    BY EdgeMapIs DEF Sound
  <2>2. QED BY <1>1, <2>1, Zenon DEF EdgeMapOf
<1> HIDE DEF E
<1>3. /\ \A e \in DOMAIN E : \A s \in DOMAIN E[e] :
           \E r \in db.edge_assertion : r.edge = e /\ r.source = s
      /\ \A r \in db.edge_assertion : r.edge \in DOMAIN E /\ r.source \in DOMAIN E[r.edge]
  BY <1>1, <1>2
<1>4. mkeys = keys
  <2>1. \A r \in db.edge_assertion : cat(r.edge, r.source) = key(r)
    BY <1>1, EdgeRowKeys
  <2> HIDE DEF E, cat, key
  <2>2. \A e \in DOMAIN E : \A s \in DOMAIN E[e] : cat(e, s) \in keys
    BY <1>3, <2>1
  <2>3. \A r \in db.edge_assertion : key(r) \in mkeys
    BY <1>3, <2>1
  <2>4. QED BY <2>2, <2>3
<1>5. IsFiniteSet(keys)
  <2>1. IsFiniteSet(Asserted(E))
    BY DEF MapsInv, MapsSmall, Small, E
  <2>2. ASSUME NEW r \in db.edge_assertion
        PROVE  <<r.edge, r.source>> \in Asserted(E) /\ row[<<r.edge, r.source>>] = key(r)
    <3>1. <<r.edge, r.source>> \in Asserted(E)
      BY <1>3 DEF Asserted
    <3>2. QED BY <3>1
  <2>3. keys \subseteq {row[x] : x \in Asserted(E)}
    <3> HIDE DEF row
    <3>1. QED BY <2>2
  <2> HIDE DEF row, keys
  <2>4. IsFiniteSet({row[x] : x \in Asserted(E)})
    BY <2>1, ImageFinite
  <2>5. QED BY <2>3, <2>4, FS_Subset
<1>6. Linear(keys)
  <2>1. keys \in SUBSET [1 .. 4 -> Nat]
    <3>1. \A r \in db.edge_assertion : key(r) \in [1 .. 4 -> Nat]
      BY <1>1, EdgeRowKeys
    <3> HIDE DEF key
    <3>2. QED BY <3>1
  <2> HIDE DEF keys
  <2>2. QED BY <2>1, KeysOrdered
<1>7. p = Mem!Page(keys, cursor, limit)
  <2> HIDE DEF keys
  <2>1. QED BY <1>5, <1>6, SamePage
<1>8. p.keys \subseteq keys
  <2> HIDE DEF keys
  <2>1. QED BY DEF KeysPage, FirstKeys
<1>9. ExportEdges(cursor, limit) = [rows |-> S, next |-> p.next]
  BY DEF ExportEdges
<1>10. Mem!ExportEdges(cursor, limit) = [rows |-> T, next |-> p.next]
  <2> DEFINE q == Mem!Page(mkeys, cursor, limit)
  <2>1. Mem!ExportEdges(cursor, limit)
          = [rows |-> {<<k, E[SubSeq(k, 1, 3)][k[4]]>> : k \in q.keys}, next |-> q.next]
    BY DEF Mem!ExportEdges, E
  <2>2. q = p
    BY <1>4, <1>7
  <2> HIDE DEF q, p
  <2>3. QED BY <2>1, <2>2
<1>11. S = T
  <2>1. \A r \in db.edge_assertion : E[SubSeq(key(r), 1, 3)][key(r)[4]] = r.at
    <3>1. ASSUME NEW r \in db.edge_assertion
          PROVE  E[SubSeq(key(r), 1, 3)][key(r)[4]] = r.at
      <4>1. key(r)[4] = r.source /\ SubSeq(key(r), 1, 3) = r.edge
        BY <1>1, EdgeRowKeys
      <4>2. QED BY <1>2, <4>1
    <3>2. QED BY <3>1
  <2>2. \A k \in p.keys : \E r \in db.edge_assertion : k = key(r)
    <3> HIDE DEF p
    <3>1. QED BY <1>8
  <2> HIDE DEF p, key
  <2>3. QED BY <2>1, <2>2
<1> HIDE DEF S, T, p
<1>12. QED BY <1>9, <1>10, <1>11

LEMMA ArtifactPagesAlike ==
  ASSUME Sound(db), MapsInv, NEW cursor, NEW limit \in Nat
  PROVE  ExportArtifacts(cursor, limit) = Mem!ExportArtifacts(cursor, limit)
<1> DEFINE current == {a \in db.artifacts : a.current}
           keys == {<<a.node, a.role>> : a \in current}
           mkeys == {k \in DOMAIN ArtifactMap(db) : Mem!CurrentArtifact(k[1], k[2]) # {}}
           p == KeysPage(keys, cursor, limit)
           S == {<<k, {Shown(a) : a \in {b \in current : <<b.node, b.role>> = k}}>> : k \in p.keys}
           T == {<<k, Mem!CurrentArtifact(k[1], k[2])>> : k \in p.keys}
<1>1. \A n, role : Mem!CurrentArtifact(n, role)
                     = {Shown(a) : a \in {b \in current : b.node = n /\ b.role = role}}
  <2>1. \A n, role : {b \in current : b.node = n /\ b.role = role}
                       = {b \in db.artifacts : b.node = n /\ b.role = role /\ b.current}
    OBVIOUS
  <2>2. QED BY <2>1, CurrentAlike DEF CurrentArtifact
<1>2. /\ \A k \in DOMAIN ArtifactMap(db) : k = <<k[1], k[2]>>
      /\ \A a \in db.artifacts : <<a.node, a.role>> \in DOMAIN ArtifactMap(db)
  BY DEF ArtifactMap
<1>3. mkeys = keys
  <2>1. ASSUME NEW k \in mkeys PROVE k \in keys
    <3>1. PICK x \in Mem!CurrentArtifact(k[1], k[2]) : TRUE
      BY <2>1
    <3>2. \E a \in current : a.node = k[1] /\ a.role = k[2]
      BY <1>1, <3>1
    <3>3. QED BY <1>2, <3>2
  <2>2. ASSUME NEW a \in current PROVE <<a.node, a.role>> \in mkeys
    <3>1. Shown(a) \in Mem!CurrentArtifact(a.node, a.role)
      BY <1>1
    <3>2. QED BY <1>2, <3>1
  <2> HIDE DEF mkeys
  <2>3. QED BY <2>1, <2>2
<1>4. IsFiniteSet(keys)
  <2>1. keys \subseteq DOMAIN ArtifactMap(db)
    BY <1>2
  <2>2. QED BY <2>1, FS_Subset DEF MapsInv, MapsSmall, Small
<1>5. Linear(keys)
  <2>1. \A a \in db.artifacts : a.node \in Nat /\ a.role \in Nat
    BY RowsThere, IdsAssumption, StoreAssumption
  <2>2. keys \in SUBSET [1 .. 2 -> Nat]
    BY <2>1
  <2> HIDE DEF keys
  <2>3. QED BY <2>2, KeysOrdered
<1>6. p = Mem!Page(keys, cursor, limit) /\ p.keys \subseteq keys
  <2> HIDE DEF keys
  <2>1. p.keys \subseteq keys
    BY DEF KeysPage, FirstKeys
  <2>2. QED BY <1>4, <1>5, <2>1, SamePage
<1>7. ExportArtifacts(cursor, limit) = [rows |-> S, next |-> p.next]
  BY DEF ExportArtifacts
<1>8. Mem!ExportArtifacts(cursor, limit) = [rows |-> T, next |-> p.next]
  <2> DEFINE q == Mem!Page(mkeys, cursor, limit)
  <2>1. Mem!ExportArtifacts(cursor, limit)
          = [rows |-> {<<k, Mem!CurrentArtifact(k[1], k[2])>> : k \in q.keys}, next |-> q.next]
    BY DEF Mem!ExportArtifacts
  <2>2. q = p
    BY <1>3, <1>6
  <2> HIDE DEF q, p
  <2>3. QED BY <2>1, <2>2
<1>9. S = T
  <2> DEFINE shown(k) == {Shown(a) : a \in {b \in current : <<b.node, b.role>> = k}}
  <2>1. ASSUME NEW k \in keys
        PROVE  shown(k) = Mem!CurrentArtifact(k[1], k[2])
    <3>1. {b \in current : <<b.node, b.role>> = k}
            = {b \in current : b.node = k[1] /\ b.role = k[2]}
      OBVIOUS
    <3> HIDE DEF current
    <3>2. QED BY <1>1, <3>1
  <2>2. S = {<<k, shown(k)>> : k \in p.keys}
    OBVIOUS
  <2> HIDE DEF p, keys, shown, S
  <2>3. QED BY <1>6, <2>1, <2>2
<1> HIDE DEF S, T, p
<1>10. QED BY <1>7, <1>8, <1>9

(* So wherever tables are sound and maps finite every read is answered     *)
(* alike.                                                                  *)
LEMMA SoundReads ==
  IInv /\ MapsInv => ReadsAlike
<1> SUFFICES ASSUME IInv, MapsInv PROVE ReadsAlike
  OBVIOUS
<1>1. Sound(db) /\ calls \in Nat /\ VersionsBelow(db, calls)
  BY StoreAssumption DEF IInv
<1>2. Stats = Mem!Stats
  BY <1>1, CountsAlike
<1>3. ASSUME NEW n \in Ids
      PROVE  /\ ReadNode(n) = Mem!ReadNode(n)
             /\ ListArtifacts(n, FALSE) = Mem!ListArtifacts(n, FALSE)
             /\ ListArtifacts(n, TRUE) \union {<<a.role, Shown(a)>> : a \in {b \in db.lost : b.node = n}}
                  = Mem!ListArtifacts(n, TRUE)
             /\ \A role \in Roles :
                  /\ CurrentArtifact(n, role) = Mem!CurrentArtifact(n, role)
                  /\ NextVersion(n, role) = Mem!NextVersion(n, role)
  BY <1>1, NodeAlike, ListsAlike, CurrentAlike, NextVersions
<1>4. \A A \in SUBSET Aliases : PresentAliases(A) = Mem!PresentAliases(A)
  BY DEF PresentAliases, Mem!PresentAliases
<1>5. \A cursor : \A limit \in 1 .. 2 :
        /\ ExportNodes(cursor, limit) = Mem!ExportNodes(cursor, limit)
        /\ ExportEdges(cursor, limit) = Mem!ExportEdges(cursor, limit)
        /\ ExportArtifacts(cursor, limit) = Mem!ExportArtifacts(cursor, limit)
  BY <1>1, NodePagesAlike, EdgePagesAlike, ArtifactPagesAlike
<1>6. \A n \in LiveNodes :
        [PlanDelete(n) EXCEPT !.r2_keys = @ \union {a.key : a \in {b \in db.lost : b.node = n}}]
          = Mem!PlanDelete(n)
  BY <1>1, PlansAlike
<1>7. QED BY <1>2, <1>3, <1>4, <1>5, <1>6 DEF ReadsAlike

(* Whichever operations were done, in whatever order and on either engine, *)
(* every read of what is committed (a node, its artifacts and versions,    *)
(* the counts, the plan of a delete, the aliases that are present, a page  *)
(* of each export) is answered by the SQL backends as by the in-memory     *)
(* one, but for the versions only the maps kept.                           *)
THEOREM ReadsAnswerAlike == Spec => [](ReadsAlike /\ ReadsAgree)
<1>1. IInv /\ MapsInv => ReadsAlike /\ ReadsAgree
  BY SoundReads DEF ReadsAgree
<1>2. QED BY <1>1, AlwaysSmall, PTL
=============================================================================
