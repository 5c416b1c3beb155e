---------------------------- MODULE Derivations ----------------------------
(***************************************************************************)
(* The library commands and the full text fetchers: each reads artifacts   *)
(* of a work over HTTP and puts another one, in several requests, while    *)
(* others put, merge and delete.  A derived artifact records which role    *)
(* and version it was made from.                                           *)
(*                                                                         *)
(* A request is one step here (Library has what goes on inside).  A body   *)
(* is [pdf, leaves, folios, sections]: a text is its leaves, a pages       *)
(* artifact has their folios too, an outline its sections.                 *)
(***************************************************************************)
EXTENDS Integers, FiniteSets, FiniteSetsExt, Sequences, SequencesExt

CONSTANTS
  Clients,     (* command line processes and ticks of the worker           *)
  Works,       (* two that may be merged                                   *)
  Texts,       (* books, as in Pages: what is uploaded and fetched         *)
  Outlines,    (* sequences of sections that users write                   *)
  Regimes      (* bounds: who runs which commands, as <<command, from, to>>, *)
               (* on which works, how many and with how many puts,         *)
               (* merges and deletes                                       *)

VARIABLES
  limits,      (* the regime of this behaviour                             *)
  rows,        (* artifact descriptors, with their contents                *)
  alive,       (* works with a node: neither merged away nor deleted       *)
  into,        (* where a work's alias leads                               *)
  client,      (* the locals of the commands                               *)
  puts, merges, deletes, commands

derivationVars == <<limits, rows, alive, into, client, puts, merges, deletes, commands>>

P == INSTANCE Pages
------------------------------------------------------------------------------
Body(pdf, leaves, folios, sections) ==
  [pdf |-> pdf, leaves |-> leaves, folios |-> folios, sections |-> sections]
NoBody == Body(FALSE, <<>>, <<>>, <<>>)
NoRow == [work |-> 0, role |-> "", version |-> 0, current |-> FALSE, body |-> NoBody, from |-> <<>>,
          id |-> 0, by |-> "", made |-> 0, slip |-> FALSE]

Idle == [cmd |-> "", step |-> "idle", work |-> 0, from |-> "", to |-> "", force |-> FALSE,
         got |-> NoRow, body |-> NoBody, lineage |-> <<>>, outline |-> NoRow, answer |-> P!Refused(""),
         slip |-> FALSE]

Held(w, role) == {r \in rows : r.work = into[w] /\ r.role = role}
Current(w, role) == {r \in Held(w, role) : r.current}

(* Who is under way sees what it watches change under it: history. *)
Watching(c) == IF c.cmd \in {"fetch", "job"} THEN c.to ELSE c.from
Slipped(cs, role) ==
  [c \in Clients |-> IF cs[c].step # "idle" /\ role \in {Watching(cs[c]), "all"}
                     THEN [cs[c] EXCEPT !.slip = TRUE] ELSE cs[c]]

Goes(c, step) == client' = [client EXCEPT ![c].step = step]
Ends(c) == client' = [client EXCEPT ![c] = Idle]
Rest == <<limits, rows, alive, into, puts, merges, deletes, commands>>
------------------------------------------------------------------------------
(* put_content: the next version of the role becomes the current one.      *)
NextVersion(w, role) == Max({0} \union {r.version : r \in Held(w, role)}) + 1
WithPut(w, role, body, from, by, made, slip) ==
  {IF r \in Held(w, role) THEN [r EXCEPT !.current = FALSE] ELSE r : r \in rows}
    \union {[work |-> into[w], role |-> role, version |-> NextVersion(w, role), current |-> TRUE,
             body |-> body, from |-> from, id |-> puts + 1, by |-> by, made |-> made, slip |-> slip]}

Begin(c, cmd, w, from, to, force, step) ==
  /\ client[c].step = "idle" /\ commands < limits.commands
  /\ client' = [client EXCEPT ![c] = [Idle EXCEPT !.cmd = cmd, !.work = w, !.from = from, !.to = to,
                                                  !.force = force, !.step = step]]
  /\ commands' = commands + 1
  /\ UNCHANGED <<limits, rows, alive, into, puts, merges, deletes>>

(* library put, and uploads from elsewhere. *)
PutText ==
  /\ puts < limits.puts
  /\ \E w \in limits.works, t \in Texts, role \in limits.uploads :
       /\ into[w] \in alive
       /\ rows' = WithPut(w, role, Body(role = "fulltext", t, <<>>, <<>>), <<>>, "user", 0, FALSE)
       /\ client' = Slipped(client, role)
  /\ puts' = puts + 1
  /\ UNCHANGED <<limits, alive, into, merges, deletes, commands>>
------------------------------------------------------------------------------
(* Commands that derive.  paginate and outline look first whether there is *)
(* a result already, extract-text and chunk after they have read.          *)

RoleFirst(cmd) == cmd \in {"paginate", "outline"}

BeginDerive(c) ==
  \E w \in limits.works, d \in limits.derivers, force \in limits.forces :
    Begin(c, d[1], w, d[2], d[3], force, IF RoleFirst(d[1]) THEN "check" ELSE "source")

(* Without --force what is there is left alone; a command that gets no     *)
(* answer goes on as if there were nothing, a job fails.                   *)
CheckRole(c) ==
  LET me == client[c]
      present == Current(me.work, me.to) # {}
  IN
  /\ me.step = "check"
  /\ \/ ~me.force /\ (present \/ me.cmd = "job") /\ Ends(c)
     \/ /\ me.cmd # "job" \/ ~present
        /\ Goes(c, IF me.cmd \in {"fetch", "job"} THEN "work"
                   ELSE IF RoleFirst(me.cmd) THEN "source" ELSE "list")
  /\ UNCHANGED Rest

(* What run_paginate, run_outline, run_chunk and extract-text make of what *)
(* they read; {} is an error.  An outline is the user's own, checked.      *)
Paginated(b) == {Body(FALSE, b.leaves, P!DetectFolios(b.leaves), <<>>)}
Outlined(b) == {Body(FALSE, <<>>, <<>>, s) : s \in {s \in Outlines : P!OutlineValid(s, Len(b.leaves))}}
OfPdf(b) == IF b.pdf THEN {Body(FALSE, b.leaves, <<>>, <<>>)} ELSE {}

Derived(cmd, b) ==
  CASE cmd = "paginate" -> Paginated(b)
    [] cmd = "outline"  -> Outlined(b)
    [] cmd \in {"extract", "chunk"} -> OfPdf(b)

(* It ends where there is nothing to read, or no answer, and where it      *)
(* refuses the result: without --allow-no-folios, without --allow-partial. *)
ReadSource(c) ==
  LET me == client[c] IN
  /\ me.step = "source"
  /\ \/ Ends(c)
     \/ \E r \in Current(me.work, me.from) : \E b \in Derived(me.cmd, r.body) :
          client' = [client EXCEPT ![c].got = r, ![c].body = b, ![c].slip = FALSE,
                                   ![c].step = IF RoleFirst(me.cmd) THEN "list" ELSE "check"]
  /\ UNCHANGED Rest

(* Mutant: the first version of the role is taken. *)
ListedOldest(w, role) ==
  {<<role, r.version>> : r \in {r \in Held(w, role) : \A t \in Held(w, role) : r.version <= t.version}}

(* current_artifact_version: of the current artifacts the role's; no answer *)
(* is no lineage.                                                          *)
Listed(w, role) == {<<role, r.version>> : r \in Current(w, role)}

ListVersion(c) ==
  LET me == client[c] IN
  /\ me.step = "list"
  /\ \/ Goes(c, "put")
     \/ \E l \in Listed(me.work, me.from) :
          client' = [client EXCEPT ![c].lineage = l, ![c].step = "put"]
  /\ UNCHANGED Rest

(* put_content of what was made; a work that is gone is not found, and a   *)
(* request may be lost.                                                    *)
PutMade(c) ==
  LET me == client[c] IN
  /\ me.step = "put"
  /\ \/ /\ into[me.work] \in alive
        /\ rows' = WithPut(me.work, me.to, me.body, me.lineage, me.cmd, me.got.id, me.slip)
        /\ client' = Slipped([client EXCEPT ![c] = Idle], me.to)
        /\ puts' = puts + 1
     \/ Ends(c) /\ UNCHANGED <<rows, puts>>
  /\ UNCHANGED <<limits, alive, into, merges, deletes, commands>>
------------------------------------------------------------------------------
(* fetch_content of the command line and the background handler: present   *)
(* already, the work, a URL, the download, the put.                        *)

BeginFetch(c) ==
  \E w \in limits.works, how \in limits.fetches :
    Begin(c, how[1], w, "", "fulltext", how[2], "check")

(* get_work: the URL is in the attributes, or Unpaywall has it, or there   *)
(* is none: the command fails, the job is done.                            *)
GetWork(c) ==
  LET me == client[c] IN
  /\ me.step = "work"
  /\ \/ Ends(c)
     \/ into[me.work] \in alive /\ Goes(c, "download")
  /\ UNCHANGED Rest

(* The command refuses what says it is a PDF and is none; what is stored    *)
(* as a full text need not be one, whoever fetched it.                      *)
Download(c) ==
  LET me == client[c] IN
  /\ me.step = "download"
  /\ \/ Ends(c)
     \/ \E t \in Texts, pdf \in BOOLEAN :
          client' = [client EXCEPT ![c].body = Body(pdf, t, <<>>, <<>>), ![c].step = "put"]
  /\ UNCHANGED Rest
------------------------------------------------------------------------------
(* library read: the pages, then the outline, then the locator.            *)

BeginRead(c) == \E w \in limits.works : Begin(c, "read", w, "pages", "outline", FALSE, "pages")

ReadPages(c) ==
  LET me == client[c] IN
  /\ me.step = "pages"
  /\ \/ Ends(c)
     \/ \E r \in Current(me.work, me.from) :
          client' = [client EXCEPT ![c].got = r, ![c].slip = FALSE, ![c].step = "outline"]
  /\ UNCHANGED Rest

(* No answer is no outline. *)
ReadOutline(c) ==
  LET me == client[c] IN
  /\ me.step = "outline"
  /\ \/ client' = [client EXCEPT ![c].outline = NoRow, ![c].step = "resolve"]
     \/ \E r \in Current(me.work, me.to) :
          client' = [client EXCEPT ![c].outline = r, ![c].step = "resolve"]
  /\ UNCHANGED Rest

(* What may be asked for: every section, whole or its first or last page,  *)
(* and every folio that is printed.                                        *)
Answers(me) ==
  LET book == me.got.body.leaves
      folios == me.got.body.folios
      sections == me.outline.body.sections
      printed == {folios[i] : i \in DOMAIN folios} \ {<<>>}
  IN {P!ResolveSection(sections, sections[k][1], h, t, Len(book)) :
        k \in DOMAIN sections, h \in 0 .. 1, t \in 0 .. 1}
     \union {P!ResolvePrinted(folios, f, g) : f, g \in printed}

ResolveLocator(c) ==
  LET me == client[c] IN
  /\ me.step = "resolve"
  /\ \/ Ends(c)
     \/ \E a \in Answers(me) : client' = [client EXCEPT ![c].answer = a, ![c].step = "answered"]
  /\ UNCHANGED Rest

Answered(c) == client[c].step = "answered" /\ Ends(c) /\ UNCHANGED Rest
------------------------------------------------------------------------------
(* The work l is merged into s: of two rows with one role and version the  *)
(* survivor's stays, and its current ones stay the current ones.           *)
MergedRows(s, l) ==
  LET mine == {r \in rows : r.work = s}
      moved == {[r EXCEPT !.work = s,
                          !.current = @ /\ ~\E t \in mine : t.role = r.role /\ t.current] :
                  r \in {r \in rows : r.work = l
                           /\ ~\E t \in mine : t.role = r.role /\ t.version = r.version}}
  IN {r \in rows : r.work # l} \union moved

Merge ==
  /\ merges < limits.merges
  /\ \E s, l \in alive :
       /\ s < l /\ rows' = MergedRows(s, l)
       /\ alive' = alive \ {l} /\ into' = [w \in Works |-> IF into[w] = l THEN s ELSE into[w]]
  /\ client' = Slipped(client, "all") /\ merges' = merges + 1
  /\ UNCHANGED <<limits, puts, deletes, commands>>

DeleteWork ==
  /\ deletes < limits.deletes
  /\ \E w \in alive :
       /\ rows' = {r \in rows : r.work # w} /\ alive' = alive \ {w}
  /\ client' = Slipped(client, "all") /\ deletes' = deletes + 1
  /\ UNCHANGED <<limits, into, puts, merges, commands>>

(* put_work of aliases that lead nowhere any more makes a new node. *)
PutWork ==
  /\ \E w \in Works :
       /\ w \in limits.works /\ into[w] \notin alive
       /\ alive' = alive \union {w} /\ into' = [into EXCEPT ![w] = w]
  /\ UNCHANGED <<limits, rows, client, puts, merges, deletes, commands>>

Quiet == (\A c \in Clients : client[c].step = "idle") /\ UNCHANGED derivationVars
------------------------------------------------------------------------------
DerivationInit ==
  /\ limits \in Regimes /\ rows = {} /\ alive = limits.works /\ into = [w \in Works |-> w]
  /\ client = [c \in Clients |-> Idle]
  /\ puts = 0 /\ merges = 0 /\ deletes = 0 /\ commands = 0

DerivationNext ==
  \/ PutText \/ Merge \/ DeleteWork \/ PutWork \/ Quiet
  \/ \E c \in limits.clients :
       \/ BeginDerive(c) \/ CheckRole(c) \/ ReadSource(c) \/ ListVersion(c) \/ PutMade(c)
       \/ BeginFetch(c) \/ GetWork(c) \/ Download(c)
       \/ BeginRead(c) \/ ReadPages(c) \/ ReadOutline(c) \/ ResolveLocator(c) \/ Answered(c)

DerivationSpec == DerivationInit /\ [][DerivationNext]_derivationVars
------------------------------------------------------------------------------
(* library list: roots are the rows without a parent in the listing, and   *)
(* each row is followed by what was derived from it.                       *)
Key(r) == <<r.role, r.version>>

(* Mutant: a row is a root only if it has no lineage at all. *)
RootsWithoutLineage(list) == {r \in list : r.from = <<>>}

Roots(list) == {r \in list : ~\E p \in list : Key(p) = r.from}
ArtifactTree(list) ==
  FoldLeft(LAMBDA shown, i : shown \union {r \in list : r.from \in {Key(p) : p \in shown}},
           Roots(list), [i \in 1 .. Cardinality(list) |-> i])
------------------------------------------------------------------------------
DerivationTypeOK ==
  /\ \A r \in rows : r.work \in Works /\ r.version \in Nat /\ r.current \in BOOLEAN
  /\ \A r, t \in rows : r.work = t.work /\ Key(r) = Key(t) => r = t
  /\ \A r, t \in rows : r.work = t.work /\ r.role = t.role /\ r.current /\ t.current => r = t
  /\ alive \subseteq Works /\ into \in [Works -> Works]
  /\ puts \in 0 .. limits.puts + limits.commands /\ merges \in 0 .. limits.merges
  /\ deletes \in 0 .. limits.deletes /\ commands \in 0 .. limits.commands

NamesItsSource(r) ==
  \E p \in rows : p.work = r.work /\ Key(p) = r.from /\ p.id = r.made

(* "An artifact says which other artifact it was derived from": if it says *)
(* one, that is the one it was made of, unless the source was replaced     *)
(* while it was worked on, or a merge kept the survivor's artifact of that *)
(* role and version and dropped the source.                                *)
LineageHolds ==
  \A r \in rows :
    r.from # <<>> /\ ~r.slip =>
      \/ NamesItsSource(r)
      \/ merges > 0 /\ \E p \in rows : p.work = r.work /\ Key(p) = r.from /\ p.id < r.id

(* The listing shows every artifact a work holds, of all versions and of   *)
(* the current ones alike, as long as no work was deleted and begun anew   *)
(* while an artifact was made from it: lineage never runs in a circle.     *)
TreeShowsAll ==
  deletes = 0 =>
    \A w \in alive :
      LET all == {r \in rows : r.work = w}
          current == {r \in all : r.current}
      IN ArtifactTree(all) = all /\ ArtifactTree(current) = current

(* A fetch that is not forced adds a full text only where there is none,   *)
(* unless somebody else puts one while it downloads, and so a job that is  *)
(* run again adds nothing.                                                 *)
FetchesOnce ==
  merges = 0 => \A r \in rows : r.by = "job" /\ ~r.slip => r.version = 1

(* A section is never answered with pages the book does not have, a        *)
(* printed range always with pages that lie between the two folios, and a  *)
(* section of an outline that was checked against these very pages is      *)
(* always found.                                                           *)
ReadsResolve ==
  \A c \in Clients : client[c].step = "answered" =>
    LET me == client[c] IN
    /\ me.answer.pages \subseteq DOMAIN me.got.body.leaves
    /\ me.answer.error = "partial range" => me.outline.made # me.got.id
    /\ me.answer.error \in {"none", "partial range"}
    /\ me.answer.error = "none" => me.answer.pages # {}
==============================================================================
