------------------------------ MODULE Harvest -------------------------------
(***************************************************************************)
(* What the catalog is fed from: the provider commands of the command line *)
(* (OpenAlex, Semantic Scholar, arXiv, Crossref, OpenCitations) and the    *)
(* job that fetches references.  A command reads the pages of a listing,   *)
(* each request tried several times, makes records and edges of what it    *)
(* got, and pushes the records one by one, then all edges.                 *)
(*                                                                         *)
(* Services know papers; the catalog knows aliases <<scheme, paper, form>>: *)
(* the form is how a value is spelt.  A node is its set of aliases here    *)
(* and put_work one step (Catalog has what goes on inside).                *)
(***************************************************************************)
EXTENDS Integers, FiniteSets, FiniteSetsExt, Sequences, SequencesExt

CONSTANTS
  Papers,      (* numbers from 1, in the order they were published         *)
  Worlds,      (* which papers have a DOI, have an S2 id, have a DOI that  *)
               (* is not in lower case, and which cite which, now or later; *)
               (* bounds: the commands that are given, and how many        *)
  PageSize,    (* results on a page, and ids asked for at once             *)
  MaxTries,    (* MAX_RETRIES + 1, scaled down                             *)
  MaxTroubles  (* bound: requests that fail and citations that appear      *)

VARIABLES
  world,       (* the world of this behaviour                              *)
  cites,       (* the citations the services know                          *)
  run,         (* the locals of the command                                *)
  nodes,       (* the catalog's nodes, each the set of its aliases         *)
  edges,       (* its edges, as they were put: [src, dst, by]              *)
  pushed,      (* history: <<provider, paper>> whose record was stored     *)
  runs, troubles

harvestVars == <<world, cites, run, nodes, edges, pushed, runs, troubles>>

Unknown == <<"s2", 0, "unknown">>
Idle == [ask |-> [by |-> "", verb |-> "", named |-> "", all |-> FALSE, paper |-> 0], step |-> "idle",
         tries |-> 0, ids |-> <<>>, got |-> <<>>, todo |-> <<>>, errors |-> FALSE, missed |-> FALSE,
         listed |-> {}, outcome |-> ""]
------------------------------------------------------------------------------
(* Aliases. *)

Spelt(p) == IF p \in world.capitals THEN "capitals" ELSE "lower"

(* extract_aliases of each provider: OpenAlex writes DOIs in lower case,   *)
(* Semantic Scholar and arXiv as the publisher does.                       *)
OpenAlexAliases(p) ==
  {<<"openalex", p, "id">>} \union {<<"doi", q, "lower">> : q \in world.doi \intersect {p}}
S2Aliases(p) ==
  {<<"s2", q, "id">> : q \in world.s2 \intersect {p}}
    \union {<<"doi", q, Spelt(q)>> : q \in world.doi \intersect {p}}
ArxivAliases(p) ==
  {<<"arxiv", p, "id">>} \union {<<"doi", q, Spelt(q)>> : q \in world.doi \intersect {p}}
RecordAliases(by, p) ==
  CASE by = "openalex" -> OpenAlexAliases(p) [] by = "s2" -> S2Aliases(p) [] by = "arxiv" -> ArxivAliases(p)

(* The providers that describe papers; the others only say what they cite. *)
Describers == {"openalex", "s2", "arxiv"}

(* Mutant: the DOI is left as the address it may come as. *)
BestAliasUrl(p) ==
  IF p \in world.doi THEN <<"doi", p, "address">>
  ELSE IF p \in world.s2 THEN <<"s2", p, "id">> ELSE Unknown

(* best_paper_alias *)
BestAlias(p) ==
  IF p \in world.doi THEN <<"doi", p, Spelt(p)>>
  ELSE IF p \in world.s2 THEN <<"s2", p, "id">> ELSE Unknown

(* What stands for a paper that was found, and for the one asked about: to *)
(* OpenAlex it is what the user wrote, to Crossref and OpenCitations its   *)
(* DOI in lower case, to the job the id it was enqueued with.              *)
FoundAlias(by, p) ==
  CASE by = "openalex" -> <<"openalex", p, "id">>
    [] by = "s2"       -> BestAlias(p)
    [] OTHER           -> <<"doi", p, "lower">>

AskedAlias(ask) ==
  CASE ask.by = "openalex" -> <<"openalex", ask.paper, IF ask.named = "own" THEN "id" ELSE "doi">>
    [] ask.by = "s2"       -> BestAlias(ask.paper)
    [] ask.by = "job"      -> <<"doi", ask.paper, Spelt(ask.paper)>>
    [] OTHER               -> <<"doi", ask.paper, "lower">>

(* Mutant: citing papers are put where cited ones belong. *)
EdgesTurned(ask, found) ==
  {[src |-> AskedAlias(ask), dst |-> FoundAlias(ask.by, p), by |-> ask.by] : p \in found}

RefEdges(ask, found) ==
  {[src |-> AskedAlias(ask), dst |-> FoundAlias(ask.by, p), by |-> ask.by] : p \in found}
CitingEdges(ask, found) ==
  {[src |-> FoundAlias(ask.by, p), dst |-> AskedAlias(ask), by |-> ask.by] : p \in found}

(* The edges of what was found; a search or a get has none.                *)
EdgesOf(ask, found) ==
  CASE ask.verb = "refs"     -> RefEdges(ask, found)
    [] ask.verb = "cited_by" -> CitingEdges(ask, found)
    [] OTHER                 -> {}
------------------------------------------------------------------------------
(* The services.  Listings have the newest first; what has no DOI is not  *)
(* taken from Crossref and OpenCitations.                                  *)

WithDoi(cited) == cited \intersect world.doi
Listed(ask) ==
  LET cited == {p \in Papers : <<ask.paper, p>> \in cites}
      citing == {p \in Papers : <<p, ask.paper>> \in cites}
  IN CASE ask.verb = "get"      -> {ask.paper}
       [] ask.verb = "search"   -> IF ask.by = "s2" THEN world.s2 ELSE Papers
       [] ask.verb = "cited_by" -> citing
       [] ask.verb = "refs"     -> IF ask.by \in Describers THEN cited ELSE WithDoi(cited)
Listing(ask) == SetToSortSeq(Listed(ask), LAMBDA p, q : p > q)

After(list, n) == SubSeq(list, n + 1, Len(list))

(* OpenAlex goes on with the next of the ids it was asked for, or behind   *)
(* the last that it showed (a cursor).                                     *)
IdsLeft(me) == After(me.ids, Len(me.got))
BehindCursor(me) ==
  IF me.got = <<>> THEN Listing(me.ask)
  ELSE SelectSeq(Listing(me.ask), LAMBDA p : p < Last(me.got))

(* Semantic Scholar and arXiv go on at an offset; the others have one page. *)
Rest(me) ==
  IF me.ask.by = "openalex"
  THEN IF me.ask.verb = "refs" THEN IdsLeft(me) ELSE BehindCursor(me)
  ELSE IF me.ask.by \in Describers THEN After(Listing(me.ask), Len(me.got))
  ELSE Listing(me.ask)
PageOf(me) ==
  IF me.ask.by \in Describers THEN SubSeq(Rest(me), 1, Min({PageSize, Len(Rest(me))}))
  ELSE Rest(me)

(* Whether another page is asked for: only with --all, but the ids of the  *)
(* references are all asked for.                                           *)
GoesOn(me) ==
  /\ me.ask.by \in Describers
  /\ me.ask.all \/ (me.ask.by = "openalex" /\ me.ask.verb = "refs")
  /\ Len(Rest(me)) > PageSize
------------------------------------------------------------------------------
(* A command. *)

(* Which request comes first: that for the paper itself, the work in the   *)
(* catalog that has the DOI (resolve_doi), or the page.                    *)
FirstStep(ask) ==
  CASE ask.by = "openalex" /\ ask.verb = "refs"       -> "paper"
    [] ask.by = "s2" /\ ask.verb \in {"refs", "cited_by"} -> "paper"
    [] ask.by \notin Describers /\ ask.named = "own"  -> "resolve"
    [] OTHER                                          -> "page"

Begin ==
  /\ run.step = "idle" /\ runs < world.runs
  /\ \E p \in Papers, a \in world.asks :
       LET ask == [by |-> a.by, verb |-> a.verb, named |-> a.named, all |-> a.all, paper |-> p] IN
       /\ ask.verb = "search" => p = 1
       /\ ask.named = "doi" => p \in world.doi
       /\ ask.by = "s2" => p \in world.s2
       /\ run' = [Idle EXCEPT !.ask = ask, !.step = FirstStep(ask), !.listed = Listed(ask)]
  /\ runs' = runs + 1
  /\ UNCHANGED <<world, cites, nodes, edges, pushed, troubles>>

Ends(outcome) == run' = [run EXCEPT !.step = "done", !.outcome = outcome]
Kept == <<world, cites, nodes, edges, pushed, runs>>

(* get_work and its DOI, or an error without one. *)
Resolve ==
  LET work == UNION {n \in nodes : <<"openalex", run.ask.paper, "id">> \in n} IN
  /\ run.step = "resolve"
  /\ IF \E a \in work : a[1] = "doi" THEN run' = [run EXCEPT !.step = "page"] ELSE Ends("failed")
  /\ UNCHANGED <<Kept, troubles>>

Troubled ==
  /\ run.step \in {"paper", "page", "second"} /\ troubles < MaxTroubles
  /\ troubles' = troubles + 1 /\ UNCHANGED Kept

(* send_with_retry: a request that found nobody, or a service that is busy *)
(* or broken, is sent again some times; any other error ends the command.  *)
Retry == Troubled /\ run.ask.by # "job" /\ run.tries + 1 < MaxTries /\ run' = [run EXCEPT !.tries = @ + 1]
GiveUp == Troubled /\ run.ask.by # "job" /\ Ends("failed")

(* The job asks each service once, and does without what one did not say.  *)
Miss ==
  /\ Troubled /\ run.ask.by = "job"
  /\ run' = [run EXCEPT !.missed = TRUE, !.step = IF @ = "page" THEN "second" ELSE "edges"]

(* Works are pushed before edges. *)
Pushing(me) ==
  [me EXCEPT !.step = IF me.ask.by \in Describers THEN "works" ELSE "edges", !.todo = me.got]

(* The paper that was asked about: its own aliases, and to OpenAlex the    *)
(* ids it cites; without any nothing more is asked.                        *)
ReadPaper ==
  LET read == [run EXCEPT !.tries = 0, !.ids = Listing(run.ask)] IN
  /\ run.step = "paper"
  /\ run' = IF run.ask.by = "openalex" /\ read.ids = <<>> THEN Pushing(read)
            ELSE [read EXCEPT !.step = "page"]
  /\ UNCHANGED <<Kept, troubles>>

ReadPage ==
  LET read == [run EXCEPT !.got = @ \o PageOf(run), !.tries = 0] IN
  /\ run.step = "page"
  /\ run' = IF run.ask.by = "job" THEN [read EXCEPT !.step = "second"]
            ELSE IF GoesOn(run) THEN read ELSE Pushing(read)
  /\ UNCHANGED <<Kept, troubles>>

(* OpenCitations, for the job: what Crossref did not have yet.             *)
ReadSecond ==
  /\ run.step = "second"
  /\ run' = [run EXCEPT !.step = "edges",
                        !.got = @ \o SelectSeq(Listing(run.ask), LAMBDA p : ~Contains(run.got, p))]
  /\ UNCHANGED <<Kept, troubles>>
------------------------------------------------------------------------------
(* push_emission, into the catalog. *)

(* Mutant: a bundle joins one of the nodes it is known at. *)
BundledOnce(aliases) ==
  LET known == {n \in nodes : n \intersect aliases # {}} IN
  IF known = {} THEN nodes \union {aliases}
  ELSE LET n == CHOOSE n \in known : TRUE
       IN (nodes \ {n}) \union {n \union (aliases \ UNION (known \ {n}))}

(* put_work: the nodes that the aliases are known at become one.           *)
Bundled(aliases) ==
  LET known == {n \in nodes : n \intersect aliases # {}}
  IN (nodes \ known) \union {aliases \union UNION known}

PushWork ==
  /\ run.step = "works" /\ run.todo # <<>>
  /\ \/ /\ nodes' = Bundled(RecordAliases(run.ask.by, Head(run.todo)))
        /\ \/ /\ run' = [run EXCEPT !.todo = Tail(@)]
              /\ pushed' = pushed \union {<<run.ask.by, Head(run.todo)>>} /\ UNCHANGED troubles
           \/ /\ run' = [run EXCEPT !.todo = Tail(@), !.errors = TRUE]
              /\ troubles < MaxTroubles /\ troubles' = troubles + 1 /\ UNCHANGED pushed
     \/ /\ run' = [run EXCEPT !.todo = Tail(@), !.errors = TRUE]
        /\ troubles < MaxTroubles /\ troubles' = troubles + 1 /\ UNCHANGED <<nodes, pushed>>
  /\ UNCHANGED <<world, cites, edges, runs>>

WorksPushed ==
  /\ run.step = "works" /\ run.todo = <<>>
  /\ run' = [run EXCEPT !.step = "edges"]
  /\ UNCHANGED <<Kept, troubles>>

(* put_edges: an end that is not known becomes a node with that alias.     *)
Joined(new) ==
  LET ends == {e.src : e \in new} \union {e.dst : e \in new}
  IN nodes \union {{a} : a \in ends \ UNION nodes}

(* One request has all edges; without any there is none.  What went wrong  *)
(* on the way makes the command end in an error, and the job be retried.   *)
PushEdges ==
  LET new == EdgesOf(run.ask, ToSet(run.got)) IN
  /\ run.step = "edges"
  /\ \/ /\ nodes' = Joined(new) /\ edges' = edges \union new
        /\ \/ Ends(IF run.errors THEN "failed" ELSE "ok") /\ UNCHANGED troubles
           \/ Ends("failed") /\ new # {} /\ troubles < MaxTroubles /\ troubles' = troubles + 1
     \/ /\ Ends("failed") /\ new # {} /\ troubles < MaxTroubles /\ troubles' = troubles + 1
        /\ UNCHANGED <<nodes, edges>>
  /\ UNCHANGED <<world, cites, pushed, runs>>

End == run.step = "done" /\ run' = Idle /\ UNCHANGED <<Kept, troubles>>

(* A paper that cites others comes to be known to the services.            *)
Publish ==
  /\ troubles < MaxTroubles /\ troubles' = troubles + 1
  /\ \E c \in world.later \ cites : cites' = cites \union {c}
  /\ UNCHANGED <<world, run, nodes, edges, pushed, runs>>

Over == run.step = "idle" /\ runs = world.runs /\ UNCHANGED harvestVars
------------------------------------------------------------------------------
HarvestInit ==
  /\ world \in Worlds /\ cites = world.cites /\ run = Idle
  /\ nodes = {} /\ edges = {} /\ pushed = {} /\ runs = 0 /\ troubles = 0

HarvestNext ==
  \/ Begin \/ Resolve \/ Retry \/ GiveUp \/ Miss \/ ReadPaper \/ ReadPage \/ ReadSecond
  \/ PushWork \/ WorksPushed \/ PushEdges \/ End \/ Publish \/ Over

HarvestSpec == HarvestInit /\ [][HarvestNext]_harvestVars
------------------------------------------------------------------------------
HarvestTypeOK ==
  /\ cites \subseteq Papers \X Papers
  /\ \A n \in nodes : \A a \in n : a[1] \in Describers \union {"doi"} /\ a[2] \in Papers \union {0}
  /\ pushed \subseteq Describers \X Papers
  /\ run.tries \in 0 .. MaxTries - 1 /\ ToSet(run.got) \subseteq Papers

NodeOf(a) == UNION {n \in nodes : a \in n}

(* "src = citing alias, dst = cited alias": every edge says of two papers  *)
(* that the one cites the other as the services do, whichever command      *)
(* asked from which end.                                                   *)
EdgesAreCitations ==
  \A e \in edges : e.src # Unknown /\ e.dst # Unknown => <<e.src[2], e.dst[2]>> \in cites

(* An edge leads to the very node that the record of its paper made, also  *)
(* after other services described that paper; but for papers without any   *)
(* identifier, and for the one that OpenAlex was asked about by its DOI.   *)
EdgesMeetRecords ==
  \A e \in edges : \A a \in {e.src, e.dst} :
    <<e.by, a[2]>> \in pushed /\ ~(a[1] = "openalex" /\ a[3] = "doi") =>
      RecordAliases(e.by, a[2]) \subseteq NodeOf(a)

(* No node holds two papers, and a paper whose DOI all services spell      *)
(* alike is one node however its records and edges arrived.                *)
OnePaperOneNode ==
  /\ \A n \in nodes : Cardinality({a[2] : a \in n}) <= 1
  /\ \A record \in pushed : record[2] \in world.doi \ world.capitals =>
       RecordAliases(record[1], record[2]) \subseteq NodeOf(<<"doi", record[2], "lower">>)

(* A command that ends well has stored every record and every edge of what *)
(* it read, and has read, where it was to read all, everything that was    *)
(* listed when it began; a job may have missed what a service did not say. *)
OkMeansStored ==
  run.outcome = "ok" =>
    /\ run.ask.by \in Describers => {run.ask.by} \X ToSet(run.got) \subseteq pushed
    /\ EdgesOf(run.ask, ToSet(run.got)) \subseteq edges
    /\ run.ask.all /\ ~run.missed => run.listed \subseteq ToSet(run.got)

(* What is promised of what the catalog is fed, whenever a command ends.   *)
HarvestHolds ==
  run.step = "done" => EdgesAreCitations /\ EdgesMeetRecords /\ OnePaperOneNode /\ OkMeansStored
==============================================================================
