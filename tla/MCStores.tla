------------------------------ MODULE MCStores ------------------------------
(***************************************************************************)
(* Small instances of what lies under and beside the use cases: the SQL    *)
(* backends statement by statement (SqlStore), requests on D1 round trip   *)
(* by round trip (D1Requests), the sync of two stores (StoreSync), the     *)
(* commands that make artifacts from artifacts request by request          *)
(* (Derivations), their page arithmetic on growing books (Pages), and the  *)
(* commands that feed the catalog from the providers (Harvest).            *)
(*                                                                         *)
(* A behaviour runs one of them; the others stay as they began.            *)
(***************************************************************************)
EXTENDS SqlStore, StoreSync, D1Requests

CONSTANTS
  Parts,                                          \* what to run
  c1, c2,                                         \* Derivations
  MaxPages,                                       \* bound: pages of a book
  Papers, PageSize, MaxTries, MaxTroubles         \* Harvest

VARIABLES which,
  limits, rows, alive, into, actor, puts, merges, deletes, commands, \* Derivations
  book,                                                      \* Pages
  world, cites, run, nodes, edges, pushed, runs, troubles    \* Harvest

deriveVars == <<limits, rows, alive, into, actor, puts, merges, deletes, commands>>
harvestVars == <<world, cites, run, nodes, edges, pushed, runs, troubles>>

------------------------------------------------------------------------------
(* Books. *)

A(n) == <<"arabic", n>>
I(letters) == <<"roman">> \o letters

(* Texts of two and three pages, of which one page is scanned; outlines    *)
(* for the longer and for either.                                          *)
MCTexts == {<< <<<<A(1)>>>>, <<<<A(2)>>>> >>, << <<<<A(5)>>>>, <<>>, <<<<A(7)>>>> >>}
MCOutlines == {<< <<1, 1, 1>>, <<2, 2, 3>> >>, << <<1, 1, 2>> >>}

(* One command line and a merge; two clients, of which one may be the      *)
(* worker, and a deletion; four commands of one client.                    *)
Paginate == <<"paginate", "fulltext", "pages">>
Bounds(clients, works, derivers, forces, fetches, maxMerges, maxDeletes, maxCommands) ==
  [clients |-> clients, works |-> works, derivers |-> derivers, forces |-> forces,
   fetches |-> fetches, merges |-> maxMerges, deletes |-> maxDeletes, commands |-> maxCommands,
   uploads |-> {"fulltext"}, puts |-> 2]

Extract == <<"extract", "fulltext", "text">>
Chunk == <<"chunk", "fulltext", "chunks">>
Outline == <<"outline", "pages", "outline">>

OneMerge == Bounds({c1}, {1, 2}, {Paginate, Extract}, {FALSE}, {}, 1, 0, 2)
MCRegimes ==
  {OneMerge,
   Bounds({c1, c2}, {1}, {Chunk}, {TRUE}, {<<"job", FALSE>>, <<"fetch", TRUE>>}, 0, 1, 2),
   Bounds({c1}, {1}, {Paginate, Outline}, {TRUE}, {}, 0, 0, 4)}

V == INSTANCE Derivations
     WITH client <- actor, Texts <- MCTexts, Outlines <- MCOutlines, Regimes <- MCRegimes

(* Pages with no numeral, with one or two, on the first line and the last, *)
(* and anchors: none, jumping up and down, out of order, two on one page,  *)
(* and one whose folio is refused.                                         *)
MCLeaves ==
  {<<>>, << <<<<"word">>>> >>, << <<A(1)>> >>, << <<A(2), <<"word">>>>, <<>>, <<>>, <<A(3)>> >>,
   << <<<<"word">>>>, <<A(3), I(<<1, 1>>)>> >>, << <<I(<<1>>)>>, <<A(7)>>, <<<<"word">>>> >>,
   << <<>>, <<I(<<5>>)>>, <<A(1)>> >>}
MCAnchors ==
  {<<>>, << <<1, A(1)>>, <<3, A(9)>> >>, << <<1, I(<<1>>)>>, <<3, A(1)>> >>,
   << <<2, I(<<5, 1, 1>>)>>, <<2, I(<<10, 10>>)>> >>, << <<3, A(1)>>, <<1, I(<<5, 1, 1, 1>>)>> >>,
   << <<2, I(<<1, 5>>)>> >>}

G == INSTANCE Pages

NextPage ==
  /\ \/ Len(book) < MaxPages /\ \E leaf \in MCLeaves : book' = Append(book, leaf)
     \/ Len(book) = MaxPages /\ UNCHANGED book
------------------------------------------------------------------------------
Provider(services, verbs, names, wholes) ==
  [by : services, verb : verbs, named : names, all : wholes]
AnyAsk ==
  Provider({"openalex"}, {"refs", "cited_by"}, {"own", "doi"}, BOOLEAN)
    \union Provider({"s2"}, {"refs"}, {"own"}, BOOLEAN)
    \union Provider({"s2"}, {"cited_by"}, {"doi"}, BOOLEAN)
    \union Provider({"openalex", "s2"}, {"get"}, {"own"}, {TRUE})
    \union Provider({"crossref"}, {"refs"}, {"own", "doi"}, {TRUE})
    \union Provider({"job"}, {"refs"}, {"doi"}, {TRUE})
FewAsks ==
  Provider({"openalex"}, {"refs", "get"}, {"own"}, {TRUE})
    \union Provider({"arxiv"}, {"search"}, {"own"}, {TRUE})
    \union Provider({"opencitations"}, {"refs"}, {"doi"}, {TRUE})

(* The services' papers, newest last: DOIs and S2 ids are missing here and *)
(* there, one DOI has capitals, and a fourth paper comes to cite others.   *)
MCWorlds ==
  {[doi |-> {1, 2, 3}, s2 |-> {1, 2}, capitals |-> {}, asks |-> FewAsks, runs |-> 3,
    cites |-> {<<2, 1>>, <<3, 1>>}, later |-> {}],
   [doi |-> {1, 2, 3}, s2 |-> {1, 2}, capitals |-> {}, asks |-> AnyAsk, runs |-> 2,
    cites |-> {<<2, 1>>, <<3, 1>>, <<3, 2>>, <<4, 1>>}, later |-> {}],
   [doi |-> {1, 3}, s2 |-> {1, 2, 3}, capitals |-> {3}, asks |-> AnyAsk, runs |-> 2,
    cites |-> {<<3, 1>>, <<3, 2>>}, later |-> {<<4, 1>>, <<4, 2>>}]}

H == INSTANCE Harvest WITH Worlds <- MCWorlds
------------------------------------------------------------------------------
MCInit ==
  /\ which \in Parts
  /\ Init /\ D1Init /\ SyncInit /\ V!DerivationInit /\ book = <<>> /\ H!HarvestInit
  /\ which # "sql" => engine = "sqlite"
  /\ which # "sync" => store["src"].node = {}
  /\ which # "derive" => limits = OneMerge
  /\ which # "harvest" => world.runs = 3

MCNext ==
  /\ \/ which = "sql" /\ Next /\ UNCHANGED <<d1Vars, syncVars, deriveVars, book, harvestVars>>
     \/ which = "d1" /\ D1Next /\ UNCHANGED <<vars, syncVars, deriveVars, book, harvestVars>>
     \/ which = "sync" /\ SyncNext /\ UNCHANGED <<vars, d1Vars, deriveVars, book, harvestVars>>
     \/ which = "derive" /\ V!DerivationNext /\ UNCHANGED <<vars, d1Vars, syncVars, book, harvestVars>>
     \/ which = "pages" /\ NextPage /\ UNCHANGED <<vars, d1Vars, syncVars, deriveVars, harvestVars>>
     \/ which = "harvest" /\ H!HarvestNext /\ UNCHANGED <<vars, d1Vars, syncVars, deriveVars, book>>
  /\ UNCHANGED which

MCSpec ==
  MCInit /\ [][MCNext]_<<which, vars, d1Vars, syncVars, deriveVars, book, harvestVars>>
------------------------------------------------------------------------------
(* Every module's tables and locals are of their kinds, rows have one key. *)
TypesOK ==
  /\ which = "sql" => TypeOK
  /\ which = "d1" => D1TypeOK
  /\ which = "sync" => SyncTypeOK
  /\ which = "derive" => V!DerivationTypeOK
  /\ which = "harvest" => H!HarvestTypeOK

(* What Derivations promises of the commands that make artifacts from      *)
(* artifacts, and of the locators that are read from what they made; and   *)
(* Pages of every book, text, numeral and outline that they work on.       *)
CommandsHold ==
  /\ which = "derive" => V!LineageHolds /\ V!TreeShowsAll /\ V!FetchesOnce /\ V!ReadsResolve
  /\ which = "pages" =>
       /\ G!FoliosAgree(book) /\ G!BreaksCover(book) /\ G!RunsCover(G!DetectFolios(book))
       /\ \A a \in MCAnchors :
            (\A k \in DOMAIN a : G!AnchorOk(a[k])) => G!RunsCover(G!AnchorFolios(book, a))
       /\ G!SplitLosesNothing(G!Lines(book), <<<<"word">>>>)
       /\ book = <<>> =>
            /\ \A n \in 1 .. 120 : G!RomanReadOrRefused(n)
            /\ \A s \in UNION {[1 .. n -> {1, 2} \X (1 .. 3) \X (1 .. 3)] : n \in 0 .. 3} :
                 G!OutlinesChecked(s, 2)

(* What Harvest promises of the records and edges that commands push.      *)
HarvestHolds == which = "harvest" => H!HarvestHolds
==============================================================================
