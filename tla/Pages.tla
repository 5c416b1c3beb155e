------------------------------- MODULE Pages -------------------------------
(***************************************************************************)
(* The page arithmetic of the library commands: a text cut into pages, the *)
(* printed page numbers (folios) read from pages or counted from anchors,  *)
(* the breaks and runs that are reported, the check of an outline and the  *)
(* resolution of locators.                                                 *)
(*                                                                         *)
(* A token is <<kind, ...>>: <<"arabic", n>>, <<"roman", letters>> with    *)
(* each letter by its value, or <<"word">>.  A line is a sequence of       *)
(* tokens, a page a sequence of lines, a book a sequence of pages, which   *)
(* are counted from 1.  A folio is a token, or <<>> where there is none.   *)
(***************************************************************************)
EXTENDS Integers, FiniteSets, Sequences, SequencesExt

NoValue == -1
------------------------------------------------------------------------------
(* Numerals. *)

Table == <<<<1000, <<1000>>>>, <<900, <<100, 1000>>>>, <<500, <<500>>>>, <<400, <<100, 500>>>>,
           <<100, <<100>>>>, <<90, <<10, 100>>>>, <<50, <<50>>>>, <<40, <<10, 50>>>>,
           <<10, <<10>>>>, <<9, <<1, 10>>>>, <<5, <<5>>>>, <<4, <<1, 5>>>>, <<1, <<1>>>>>>

(* u64_to_roman: the largest sign that fits, then the rest.                *)
Numeral[n \in Nat] ==
  IF n = 0 THEN <<>>
  ELSE LET t == CHOOSE k \in DOMAIN Table : Table[k][1] <= n /\ \A j \in 1 .. k - 1 : Table[j][1] > n
       IN Table[t][2] \o Numeral[n - Table[t][1]]

(* Mutant: a smaller letter is added wherever it stands. *)
LetterAdded(total, here, next) == IF total = NoValue THEN NoValue ELSE total + here

(* A letter before a greater one is taken from what has been summed up: a  *)
(* numeral that begins with such a letter is refused.                      *)
Letter(total, here, next) ==
  IF total = NoValue THEN NoValue
  ELSE IF here >= next THEN total + here
  ELSE IF total < here THEN NoValue
  ELSE total - here

RomanToU64(letters) ==
  LET total == FoldLeft(LAMBDA t, i : Letter(t, letters[i], IF i < Len(letters) THEN letters[i + 1] ELSE 0),
                        0, [i \in 1 .. Len(letters) |-> i])
  IN IF total = 0 THEN NoValue ELSE total

(* folio_kind: the value of a folio, none if it is no numeral.             *)
Value(t) ==
  IF t = <<>> THEN NoValue
  ELSE IF t[1] = "arabic" THEN t[2]
  ELSE IF t[1] = "roman" THEN RomanToU64(Tail(t))
  ELSE NoValue

RenderFolio(kind, value) ==
  IF kind = "arabic" THEN <<"arabic", value>> ELSE <<"roman">> \o Numeral[value]
------------------------------------------------------------------------------
(* A text that has no pages of its own is cut by a rule: after a run of    *)
(* blank lines, before a line that matches.                                *)

Lines(book) == FlattenSeq(book)
Blank(text) == \A i \in DOMAIN text : text[i] = <<>>

(* A page ends before a line that follows n blank ones, if it has any text. *)
AfterBlankLines(acc, line, n) ==
  LET cut == line # <<>> /\ acc.blanks >= n /\ ~Blank(acc.page) IN
  [pages |-> IF cut THEN Append(acc.pages, acc.page) ELSE acc.pages,
   page |-> IF cut THEN <<line>> ELSE Append(acc.page, line),
   blanks |-> IF line = <<>> THEN acc.blanks + 1 ELSE 0]

SplitOnBlankLines(text, n) ==
  LET end == FoldLeft(LAMBDA acc, line : AfterBlankLines(acc, line, n),
                      [pages |-> <<>>, page |-> <<>>, blanks |-> 0], text)
  IN IF Blank(end.page) THEN end.pages ELSE Append(end.pages, end.page)

AtMatchingLine(acc, line, mark) ==
  IF line = mark /\ acc.page # <<>>
  THEN [pages |-> Append(acc.pages, acc.page), page |-> <<line>>]
  ELSE [acc EXCEPT !.page = Append(@, line)]

SplitAtMatchingLine(text, mark) ==
  LET end == FoldLeft(LAMBDA acc, line : AtMatchingLine(acc, line, mark),
                      [pages |-> <<>>, page |-> <<>>], text)
  IN IF end.page = <<>> THEN end.pages ELSE Append(end.pages, end.page)
------------------------------------------------------------------------------
(* detect_folios: the numerals on a page's first and last lines that are   *)
(* not blank are candidates; each votes for the offset from the page's     *)
(* index that it implies.                                                  *)

Candidates(page) ==
  LET lines == SelectSeq(page, LAMBDA l : l # <<>>)
      ends == IF Len(lines) > 1 THEN lines[1] \o Last(lines) ELSE FlattenSeq(lines)
  IN SelectSeq(ends, LAMBDA t : Value(t) # NoValue)

Offset(c, i) == Value(c) - (i - 1)

(* Which pages vote for which offset, by kind. *)
Votes(cands) ==
  UNION {{<<c[1], Offset(c, i), i>> : c \in ToSet(cands[i])} : i \in DOMAIN cands}
For(votes, kind, offset) == Cardinality({v \in votes : v[1] = kind /\ v[2] = offset})

(* Mutant: one page is enough. *)
EnoughOne(n) == n >= 1

Enough(n) == n >= 2

(* The offset with the most pages, of equal ones the smallest.             *)
Accepted(votes) ==
  {<<v[1], v[2]>> : v \in {v \in votes :
     LET n == For(votes, v[1], v[2]) IN
     /\ Enough(n)
     /\ \A w \in votes : w[1] = v[1] =>
          LET m == For(votes, w[1], w[2]) IN m < n \/ (m = n /\ v[2] <= w[2])}}

FoliosBy(cands, accepted) ==
  [i \in DOMAIN cands |->
     LET fit == SelectSeq(cands[i], LAMBDA c : <<c[1], Offset(c, i)>> \in accepted)
     IN IF fit = <<>> THEN <<>> ELSE fit[1]]
DetectFolios(book) ==
  LET cands == [i \in DOMAIN book |-> Candidates(book[i])]
  IN FoliosBy(cands, Accepted(Votes(cands)))

(* anchor_folios: anchors <<page, folio>>; the last one that is not after  *)
(* a page governs it, of several on one page the last given.               *)
AnchorOk(a) == a[1] >= 1 /\ Value(a[2]) # NoValue

Governing(anchors, i) ==
  CHOOSE k \in DOMAIN anchors :
    /\ anchors[k][1] <= i
    /\ \A j \in DOMAIN anchors : anchors[j][1] <= i =>
         anchors[j][1] < anchors[k][1] \/ (anchors[j][1] = anchors[k][1] /\ j <= k)

AnchorFolios(book, anchors) ==
  [i \in DOMAIN book |->
     IF \A k \in DOMAIN anchors : anchors[k][1] > i THEN <<>>
     ELSE LET a == anchors[Governing(anchors, i)]
          IN RenderFolio(a[2][1], Value(a[2]) + (i - a[1]))]
------------------------------------------------------------------------------
(* validate_folios: a page without a folio is part of a gap, or, if there  *)
(* was a candidate on it, a contradiction.                                 *)

Flushed(acc) ==
  IF acc.gap = <<>> THEN acc
  ELSE [breaks |-> Append(acc.breaks, <<"gap">> \o acc.gap), gap |-> <<>>]
NextBreak(acc, i, folio, candidates) ==
  IF folio # <<>> THEN Flushed(acc)
  ELSE IF candidates = <<>> THEN [acc EXCEPT !.gap = Append(@, i)]
  ELSE LET f == Flushed(acc) IN [f EXCEPT !.breaks = Append(@, <<"contradiction", i>>)]

ValidateFolios(book, folios) ==
  Flushed(FoldLeft(LAMBDA acc, i : NextBreak(acc, i, folios[i], Candidates(book[i])),
                   [breaks |-> <<>>, gap |-> <<>>], [i \in DOMAIN book |-> i])).breaks

(* Mutant: a run goes on as long as the number advances. *)
ContinuesUpwards(prev, folio) == prev # <<>> /\ prev[1] = folio[1] /\ Value(prev) < Value(folio)

(* folio_runs: a run goes on where the kind is the same and the value one  *)
(* more than on the page before.                                           *)
Continues(prev, folio) == prev # <<>> /\ prev[1] = folio[1] /\ Value(prev) + 1 = Value(folio)

NextRun(acc, i, folio) ==
  IF Value(folio) = NoValue THEN [acc EXCEPT !.prev = <<>>]
  ELSE [runs |-> IF Continues(acc.prev, folio)
                 THEN [acc.runs EXCEPT ![Len(acc.runs)] = <<@[1], i>>]
                 ELSE Append(acc.runs, <<i, i>>),
        prev |-> folio]

FolioRuns(folios) ==
  FoldLeft(LAMBDA acc, i : NextRun(acc, i, folios[i]), [runs |-> <<>>, prev |-> <<>>],
           [i \in DOMAIN folios |-> i]).runs
------------------------------------------------------------------------------
(* An outline's sections are <<id, start, end>>.  validate compares each   *)
(* with the next by start, and nothing with a section it finds inverted.   *)

Upright(s) == s[2] <= s[3]
ByStart(sections) == SortSeq(sections, LAMBDA s, t : s[2] < t[2])

(* Mutant: sections may share the page where one ends and the next begins. *)
ApartOrTouching(s, t) == ~Upright(s) \/ ~Upright(t) \/ t[2] >= s[3]

Apart(s, t) == ~Upright(s) \/ ~Upright(t) \/ t[2] > s[3]

OutlineValid(sections, count) ==
  /\ \A i \in DOMAIN sections :
       /\ \A j \in 1 .. i - 1 : sections[j][1] # sections[i][1]
       /\ Upright(sections[i]) /\ sections[i][3] <= count
  /\ LET s == ByStart(sections) IN \A i \in 1 .. Len(s) - 1 : Apart(s[i], s[i + 1])

(* Locators are resolved to the pages from one to another, or to an error. *)
Span(lo, hi) == [error |-> "none", pages |-> IF lo <= hi THEN lo .. hi ELSE hi .. lo]
Refused(error) == [error |-> error, pages |-> {}]

FolioPage(folios, f) == SelectInSeq(folios, LAMBDA g : g = f)
ResolvePrinted(folios, a, b) ==
  IF 0 \in {FolioPage(folios, a), FolioPage(folios, b)} THEN Refused("folio not found")
  ELSE Span(FolioPage(folios, a), FolioPage(folios, b))

ResolveArtifactPage(count, a, b) ==
  IF {a, b} \subseteq 1 .. count THEN Span(a, b) ELSE Refused("out of range")

(* head or tail of a section, 0 for all of it. *)
Trim(s, head, tail) ==
  {p \in s[2] .. s[3] : (head > 0 => p < s[2] + head) /\ (head = 0 /\ tail > 0 => p > s[3] - tail)}

ResolveSection(sections, id, head, tail, count) ==
  LET k == SelectInSeq(sections, LAMBDA s : s[1] = id) IN
  IF k = 0 THEN Refused("section not found")
  ELSE IF Trim(sections[k], head, tail) \subseteq 0 .. count
  THEN [error |-> "none", pages |-> Trim(sections[k], head, tail)]
  ELSE Refused("partial range")

ResolveQuote(book, token) ==
  LET found == {i \in DOMAIN book : \E l \in DOMAIN book[i] : token \in ToSet(book[i][l])}
  IN IF found = {} THEN Refused("quote not found") ELSE [error |-> "none", pages |-> found]

(* unfaithful_pages: those with no text layer. *)
UnfaithfulPages(book) == {i \in DOMAIN book : Blank(book[i])}
------------------------------------------------------------------------------
(* A numeral that u64_to_roman writes is read back as its value, or, if it *)
(* begins with a letter that is subtracted, refused: never as another.     *)
RomanReadOrRefused(n) ==
  LET letters == Numeral[n]
      refused == Len(letters) > 1 /\ letters[1] < letters[2]
  IN RomanToU64(letters) = IF refused THEN NoValue ELSE n

(* What is detected stands on its page and another page agrees with it;    *)
(* folios of one kind keep step with the pages, so that no two pages have  *)
(* one folio and a printed page is found again; and where two pages agree, *)
(* something is detected.                                                  *)
FoliosAgree(book) ==
  LET cands == [i \in DOMAIN book |-> Candidates(book[i])]
      folios == DetectFolios(book)
      have == {i \in DOMAIN book : folios[i] # <<>>}
  IN /\ \A i \in have :
          /\ folios[i] \in ToSet(cands[i])
          /\ \E j \in DOMAIN book \ {i} : \E c \in ToSet(cands[j]) :
               c[1] = folios[i][1] /\ Value(c) - Value(folios[i]) = j - i
     /\ \A i, j \in have : folios[i][1] = folios[j][1] => Value(folios[j]) - Value(folios[i]) = j - i
     /\ \A i \in have : ResolvePrinted(folios, folios[i], folios[i]) = Span(i, i)
     /\ have = {} =>
          \A i, j \in DOMAIN book : i < j =>
            ~\E c \in ToSet(cands[i]), d \in ToSet(cands[j]) :
               c[1] = d[1] /\ Value(d) - Value(c) = j - i

(* Every page without a folio is reported in one break, in order: in a gap *)
(* if it has no numeral, gaps being as long as they can be.                *)
BreaksCover(book) ==
  LET folios == DetectFolios(book)
      breaks == ValidateFolios(book, folios)
      pages == FlattenSeq([k \in DOMAIN breaks |-> Tail(breaks[k])])
      gaps == {k \in DOMAIN breaks : breaks[k][1] = "gap"}
  IN /\ ToSet(pages) = {i \in DOMAIN book : folios[i] = <<>>}
     /\ \A k \in 1 .. Len(pages) - 1 : pages[k] < pages[k + 1]
     /\ \A k \in DOMAIN breaks : \A n \in 2 .. Len(breaks[k]) :
          k \in gaps <=> Candidates(book[breaks[k][n]]) = <<>>
     /\ \A k \in gaps \ {Len(breaks)} :
          k + 1 \in gaps => breaks[k + 1][2] > Last(breaks[k]) + 1

(* The runs cover just the pages with a folio that can be read, and two    *)
(* neighbours are in one run if and only if the second is the next folio.  *)
RunsCover(folios) ==
  LET runs == FolioRuns(folios)
      readable == {i \in DOMAIN folios : Value(folios[i]) # NoValue}
      together(i, j) == \E k \in DOMAIN runs : {i, j} \subseteq runs[k][1] .. runs[k][2]
  IN /\ \A i \in DOMAIN folios : together(i, i) <=> i \in readable
     /\ \A i \in 1 .. Len(folios) - 1 :
          together(i, i + 1) <=> /\ {i, i + 1} \subseteq readable
                                 /\ folios[i + 1] = RenderFolio(folios[i][1], Value(folios[i]) + 1)

(* An outline that is accepted gives no page to two sections, and one that *)
(* is refused has a fault.                                                 *)
OutlinesChecked(sections, count) ==
  OutlineValid(sections, count) <=>
    /\ \A i \in DOMAIN sections : Upright(sections[i]) /\ sections[i][3] <= count
    /\ \A i, j \in DOMAIN sections : i < j =>
         /\ sections[i][1] # sections[j][1]
         /\ (sections[i][2] .. sections[i][3]) \intersect (sections[j][2] .. sections[j][3]) = {}

(* Cutting a text into pages loses no line but blank ones at its end.      *)
SplitLosesNothing(text, mark) ==
  /\ FlattenSeq(SplitAtMatchingLine(text, mark)) = text
  /\ \A n \in 1 .. 2 :
       LET pages == SplitOnBlankLines(text, n) IN
       /\ FlattenSeq(pages) = SubSeq(text, 1, Len(FlattenSeq(pages)))
       /\ Blank(SubSeq(text, Len(FlattenSeq(pages)) + 1, Len(text)))
       /\ \A k \in DOMAIN pages : ~Blank(pages[k])
==============================================================================
