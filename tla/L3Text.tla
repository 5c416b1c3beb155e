------------------------------- MODULE L3Text -------------------------------
(***************************************************************************)
(* Research documents: how their text is read as a graph, how anchors are  *)
(* assigned, and how the sync's own reading of a document compares.        *)
(*                                                                         *)
(* A document is a sequence of lines.  A line is of a kind, has the pieces *)
(* its bullet text is made of, and the anchors at its end (a heading has   *)
(* at most one; ` ^id` may be appended to any line).  A new anchor is the  *)
(* next of a pool.                                                         *)
(***************************************************************************)
EXTENDS Naturals, FiniteSets, Sequences, SequencesExt

CONSTANTS
  None,      (* no anchor, no document                                     *)
  Real,      (* anchors `r-...`                                            *)
  Temp,      (* temporary anchors `t-...`                                  *)
  Slugs      (* names of documents                                         *)

Line(kind, pieces, ends) == [is |-> kind, text |-> pieces, ends |-> ends]
Piece(p, to) == [p |-> p, to |-> to]
Ref(to) == Piece("ref", to)
Word == Piece("word", None)

Fence(l) == l.is = "fence" /\ l.ends = <<>>
------------------------------------------------------------------------------
(* The parser. *)

(* Frontmatter lines and body; no closing fence, no frontmatter. *)
SplitFrontmatter(c) ==
  LET close == {i \in 2 .. Len(c) : Fence(c[i])}
  IN IF Len(c) > 0 /\ Fence(c[1]) /\ close # {}
     THEN [fm |-> SubSeq(c, 2, Min(close) - 1), body |-> SubSeq(c, Min(close) + 1, Len(c))]
     ELSE [fm |-> <<>>, body |-> c]

(* Lines of the file before the body, as parse_one counts them. *)
BodyOffset(f) == IF f.fm = <<>> THEN 0 ELSE Len(f.fm) + 2

Heading(l) == l.is = "heading"

(* The anchor of a heading is the last token that begins with a caret. *)
SplitAnchor(l) == IF l.ends = <<>> THEN None ELSE Last(l.ends)

(* The heading over line i of a body: 0 before the first. *)
Over(body, i) == Max({0} \union {h \in 1 .. i : Heading(body[h])})

(* A bullet goes on in the indented lines up to the next bullet or heading;*)
(* other lines in between are passed over.                                 *)
BulletEnd(body, i) ==
  Min({Len(body) + 1} \union {j \in i + 1 .. Len(body) : body[j].is \in {"heading", "bullet"}}) - 1
BulletText(body, i) ==
  FlattenSeq([j \in 1 .. BulletEnd(body, i) - i + 1 |->
    IF j = 1 \/ body[i + j - 1].is = "indented" THEN body[i + j - 1].text ELSE <<>>])

Bullets(body) == {i \in 1 .. Len(body) : body[i].is = "bullet" /\ Over(body, i) # 0}

(* `[[src]] kind [[dst]]` or `kind [[dst]]`, then perhaps a flow map; or   *)
(* `key: value`; anything else with brackets in it is neither.             *)
Explicit(t) == Len(t) >= 3 /\ t[1].p = "ref" /\ t[2] = Word /\ t[3].p = "ref"
Implicit(t) == Len(t) >= 2 /\ t[1] = Word /\ t[2].p = "ref"
Keyed(t) == Len(t) >= 1 /\ t[1].p \in {"tags", "key"}

Malformed(t) ==
  \/ Explicit(t) /\ Len(t) = 4 /\ t[4].p = "bad_map"
  \/ ~Explicit(t) /\ Implicit(t) /\ Len(t) = 3 /\ t[3].p = "bad_map"
  \/ Keyed(t) /\ t[1].p = "key" /\ Len(t) = 2 /\ t[2].p = "bad_map"
Neither(t) == ~Explicit(t) /\ ~Implicit(t) /\ ~Keyed(t) /\ \E i \in DOMAIN t : t[i].p = "ref"

(* The document's name for itself, or the one it is stored under. *)
DocOf(slug, fm) ==
  IF \E i \in DOMAIN fm : fm[i].is = "doc"
  THEN fm[Min({i \in DOMAIN fm : fm[i].is = "doc"})].text[1].to ELSE slug

(* The nodes of a document: heading lines in the file, anchors, labels.    *)
NodesIn(slug, f) ==
  {[doc |-> DocOf(slug, f.fm), id |-> SplitAnchor(f.body[h]), line |-> BodyOffset(f) + h,
    labels |-> {i \in Bullets(f.body) :
                  Over(f.body, i) = h /\ Head(BulletText(f.body, i)).p = "tags"}]
     : h \in {i \in 1 .. Len(f.body) : Heading(f.body[i])}}
Nodes(slug, c) == NodesIn(slug, SplitFrontmatter(c))

(* The links of a document, with the node whose body holds each. *)
IsLink(t) == Explicit(t) \/ Implicit(t)
Link(t, owner) ==
  [source |-> IF Explicit(t) THEN t[1].to ELSE owner,
   target |-> IF Explicit(t) THEN t[3].to ELSE t[2].to, recorded_in |-> owner]
LinksIn(body) ==
  {Link(BulletText(body, i), SplitAnchor(body[Over(body, i)])) :
     i \in {j \in Bullets(body) : IsLink(BulletText(body, j))}}
Links(c) == LinksIn(SplitFrontmatter(c).body)

(* Every kind of warning but "heading without anchor". *)
Warned(t) == Malformed(t) \/ Neither(t)
BlockingIn(f) == f.fm = <<>> \/ \E i \in Bullets(f.body) : Warned(BulletText(f.body, i))
Blocking(c) == BlockingIn(SplitFrontmatter(c))

Anchors(c) == {n.id : n \in Nodes(None, c)} \ {None}
AllNodes(ds) == UNION {Nodes(s, ds[s]) : s \in DOMAIN ds}
AllLinks(ds) == UNION {Links(ds[s]) : s \in DOMAIN ds}
CollectAnchors(ds) == UNION {Anchors(ds[s]) : s \in DOMAIN ds}
------------------------------------------------------------------------------
(* The assignment of anchors. *)

(* Mutant: the number of a line in the body is taken for one in the file. *)
AppendAnchorsInBody(c, items) ==
  [i \in DOMAIN c |->
     IF \E x \in items : x.line - BodyOffset(SplitFrontmatter(c)) = i
     THEN [c[i] EXCEPT !.ends =
             Append(@, (CHOOSE x \in items : x.line - BodyOffset(SplitFrontmatter(c)) = i).id)]
     ELSE c[i]]

AppendAnchors(c, items) ==
  [i \in DOMAIN c |-> IF \E x \in items : x.line = i
                      THEN [c[i] EXCEPT !.ends = Append(@, (CHOOSE x \in items : x.line = i).id)]
                      ELSE c[i]]

(* n anchors that are not taken, one after the other. *)
NewIds(taken, n) ==
  FoldLeft(LAMBDA ids, i : Append(ids, CHOOSE a \in Real \ taken : a \notin ToSet(ids)),
           <<>>, [i \in 1 .. n |-> i])

(* One new anchor for every heading that has none. *)
Numbered(lines, ids) == {[line |-> l, id |-> ids[Cardinality({k \in lines : k <= l})]] : l \in lines}
AnchorLines(c, lines, existing) ==
  AppendAnchors(c, Numbered(lines, NewIds(existing, Cardinality(lines))))
AssignIdsSource(c, existing) ==
  AnchorLines(c, {n.line : n \in {m \in Nodes(None, c) : m.id = None}}, existing)

(* normalize_doc: the text to store, or None.  No anchor of drawn is drawn *)
(* again: two requests at once draw theirs apart, out of 36^8.             *)
NormalizeDoc(c, others, drawn, force) ==
  IF Blocking(c) /\ ~force THEN None
  ELSE IF Anchors(c) \intersect CollectAnchors(others) # {} THEN None
  ELSE AssignIdsSource(c, Anchors(c) \union CollectAnchors(others) \union drawn)

Resolved(a, mapping) == IF a \in DOMAIN mapping THEN mapping[a] ELSE a

(* Mutant: only headings are rewritten, not what refers to them. *)
ResolveTempHeadings(c, mapping) ==
  [i \in DOMAIN c |-> [c[i] EXCEPT !.ends = [j \in DOMAIN @ |-> Resolved(@[j], mapping)]]]

(* A temporary anchor is one token in a heading and in a reference.        *)
ResolveTempIds(c, mapping) ==
  [i \in DOMAIN c |->
     [c[i] EXCEPT !.ends = [j \in DOMAIN @ |-> Resolved(@[j], mapping)],
                  !.text = [j \in DOMAIN @ |-> [@[j] EXCEPT !.to = Resolved(@, mapping)]]]]

(* A temporary anchor on two headings stops the whole run. *)
Ambiguous(ds) ==
  \E s, t \in DOMAIN ds : \E n \in Nodes(s, ds[s]), m \in Nodes(t, ds[t]) :
    n.id \in Temp /\ n.id = m.id /\ (s # t \/ n.line # m.line)

(* The run's anchors for the temporary ones that headings define. *)
Mapping(defined, fresh) ==
  [t \in ToSet(defined) |-> fresh[CHOOSE i \in DOMAIN defined : defined[i] = t]]
MappingOf(defined, taken) == Mapping(defined, NewIds(taken, Len(defined)))
TempMapping(ds, drawn) ==
  MappingOf(SetToSeq(CollectAnchors(ds) \intersect Temp), CollectAnchors(ds) \union drawn)

(* Every document with its temporary anchors resolved and its bare headings *)
(* anchored, one document after the other.                                  *)
Written(acc, s, c) == [taken |-> acc.taken \union Anchors(c), out |-> [acc.out EXCEPT ![s] = c]]
AssignAll(ds, mapping, drawn) ==
  FoldLeft(LAMBDA acc, s : Written(acc, s, AssignIdsSource(ResolveTempIds(ds[s], mapping), acc.taken)),
           [taken |-> drawn \union CollectAnchors(ds) \union {mapping[t] : t \in DOMAIN mapping}, out |-> ds],
           SetToSeq(DOMAIN ds)).out
AssignedDocs(ds, drawn) == AssignAll(ds, TempMapping(ds, drawn), drawn)

(* References to temporary anchors that no heading defines. *)
DanglingTempRefs(ds) ==
  UNION {{l.source, l.target} : l \in AllLinks(ds)} \intersect (Temp \ CollectAnchors(ds))
------------------------------------------------------------------------------
(* What the index of the collection lists. *)

(* The documents that a link's node and its ends are in; a slug is a link   *)
(* to that document.  A link in a node without anchor is passed over.       *)
Homes(ds, id) == {n.doc : n \in {m \in AllNodes(ds) : m.id # None /\ m.id = id}}

CrossRefsOf(ds, l) ==
  {p \in Homes(ds, l.recorded_in) \X
           (UNION {Homes(ds, id) \union ({id} \intersect Slugs) : id \in {l.source, l.target}}) :
     p[1] # p[2]}
CrossRefs(ds) == UNION {CrossRefsOf(ds, l) : l \in AllLinks(ds)}

WorkIndex(ds) ==
  UNION {Homes(ds, l.recorded_in) : l \in {k \in AllLinks(ds) : "work" \in {k.source, k.target}}}

(* import: the frontmatter with the key `doc` set, made if there is none.  *)
WithKey(fm, key) ==
  IF \E i \in DOMAIN fm : fm[i].is = "doc"
  THEN [fm EXCEPT ![Min({i \in DOMAIN fm : fm[i].is = "doc"})] = key] ELSE Append(fm, key)
FenceLine == Line("fence", <<>>, <<>>)
Fenced(f, key) == <<FenceLine>> \o WithKey(f.fm, key) \o <<FenceLine>> \o f.body
Upserted(c, slug) == Fenced(SplitFrontmatter(c), Line("doc", <<Piece("key", slug)>>, <<>>))

(* `new`: a title and two headings. *)
Scaffold(slug) ==
  LET bare == Line("heading", <<>>, <<>>)
      tags == Line("bullet", <<Piece("tags", None)>>, <<>>)
  IN Upserted(<<Line("text", <<>>, <<>>), bare, tags, bare, tags>>, slug)
------------------------------------------------------------------------------
(* The sync's reading of a document. *)

(* The node whose heading is line h, with the lines up to the next. *)
NextStart(c, h) == Min({Len(c) + 1} \union {i \in h + 1 .. Len(c) : Heading(c[i])})
NodeAt(c, h) ==
  [anchor |-> SplitAnchor(c[h]), heading |-> c[h], body |-> SubSeq(c, h + 1, NextStart(c, h) - 1)]
NodesFrom(c, top) ==
  FoldLeft(LAMBDA ns, h : IF h > top /\ Heading(c[h]) THEN Append(ns, NodeAt(c, h)) ELSE ns,
           <<>>, [h \in DOMAIN c |-> h])

(* The last line of the frontmatter, 0 if there is none. *)
Top(c) ==
  IF c # <<>> /\ Fence(c[1]) /\ \E i \in 2 .. Len(c) : Fence(c[i])
  THEN Min({i \in 2 .. Len(c) : Fence(c[i])}) ELSE 0

(* Mutant: the lines over the first node belong to no part. *)
SplitAtHeadless(c, top) ==
  [frontmatter |-> SubSeq(c, 1, top), prologue |-> <<>>, nodes |-> NodesFrom(c, top)]

SplitAt(c, top) ==
  [frontmatter |-> SubSeq(c, 1, top), prologue |-> SubSeq(c, top + 1, NextStart(c, top) - 1),
   nodes |-> NodesFrom(c, top)]
SplitDoc(c) == SplitAt(c, Top(c))

RenderDoc(u) ==
  u.frontmatter \o u.prologue \o
  FlattenSeq([k \in DOMAIN u.nodes |-> <<u.nodes[k].heading>> \o u.nodes[k].body])

(* A node's hash is of its heading and of its body up to trailing blanks.  *)
NodeHash(n) ==
  LET full == {i \in DOMAIN n.body : n.body[i].is # "blank"}
  IN <<n.heading, SubSeq(n.body, 1, Max({0} \union full))>>

(* The nodes of a collection by anchor; of two with one anchor the last.   *)
Indexed(ds) ==
  UNION {{[anchor |-> n.anchor, doc |-> s, hash |-> NodeHash(n)] :
            n \in ToSet(SplitDoc(ds[s]).nodes)} : s \in DOMAIN ds}

DiffOf(A, B) ==
  LET ids(N) == {n.anchor : n \in N} \ {None}
      pairs == {p \in A \X B : p[1].anchor = p[2].anchor /\ p[1].anchor # None}
  IN [only_in_a |-> ids(A) \ ids(B), only_in_b |-> ids(B) \ ids(A),
      moved |-> {p[1].anchor : p \in {q \in pairs : q[1].doc # q[2].doc}},
      differing |-> {p[1].anchor : p \in {q \in pairs : q[1].doc = q[2].doc /\ q[1].hash # q[2].hash}},
      unanchored_b |-> {n \in B : n.anchor = None}]
Diff(a, b) == DiffOf(Indexed(a), Indexed(b))
==============================================================================
