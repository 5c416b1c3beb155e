----------------------------- MODULE MCServices -----------------------------
(***************************************************************************)
(* Small instances of what stands around the catalog: the library, as      *)
(* MCLibrary has it, the research documents as texts (L3Docs) and as files *)
(* that several writers are at (L3Files), the sync of the agents' files    *)
(* between two stores (AgentFiles), the opening of a store (Migrations),   *)
(* the walk over its graph (Reads), and a chat session of the web          *)
(* application (Chat).                                                     *)
(*                                                                         *)
(* A behaviour runs one of them; the others stay as they began.            *)
(***************************************************************************)
EXTENDS MCLibrary, Sequences, L3Files, AgentFiles, Chat

CONSTANTS
  Parts,                                                       \* what to run
  r1, r2, t1, x, y,                                            \* L3Text
  Openers, MaxOpens,                                           \* Migrations
  Vertices, SeedSets, Depths, Caps, Backends, PageSize, MaxWrites  \* Reads

VARIABLES which,
  docs,                                                        \* L3Docs
  schema, recorded, opener, opens, torn,                       \* Migrations
  backend, edges, into, walk, writes, steady, disturbed        \* Reads

libraryVars == <<vars>>
docsVars == <<docs>>
migrationVars == <<schema, recorded, opener, opens, torn>>
readVars == <<backend, edges, into, walk, writes, steady, disturbed>>

------------------------------------------------------------------------------
(* The texts that are edited and sent. *)

DocKey(s) == Line("doc", <<Piece("key", s)>>, <<>>)
Key == Line("key", <<>>, <<>>)
H(ends) == Line("heading", <<>>, ends)
Bullet(pieces) == Line("bullet", pieces, <<>>)
Tags == Bullet(<<Piece("tags", None)>>)
Plain(kind) == Line(kind, <<>>, <<>>)

(* Headings with and without anchors, a temporary one and references to it, *)
(* links of every form, values that are malformed, a fence that is none.   *)
Sections == {
  <<H(<<>>)>>,
  <<H(<<r1>>), Bullet(<<Word, Ref(t1)>>)>>,
  <<H(<<t1>>), Tags, Bullet(<<Word>>), Line("indented", <<Ref(r1)>>, <<>>)>>,
  <<Plain("text"), H(<<>>), Bullet(<<Ref(r1), Word, Ref("work")>>), Plain("blank"), H(<<r1>>)>>,
  <<H(<<r1>>), Bullet(<<Piece("key", None), Piece("bad_map", None)>>)>>,
  <<Bullet(<<Word, Ref(y)>>), H(<<>>), Bullet(<<Word, Ref(y)>>), FenceLine, H(<<r2>>)>>}

(* No frontmatter, an empty one, one that names the document (x for x, or  *)
(* for y), and one that is never closed.                                   *)
Fronts == {<<>>, <<FenceLine, FenceLine>>, <<FenceLine, DocKey(x), FenceLine>>, <<FenceLine, Key>>}

MCBodies ==
  {<<FenceLine, Key, FenceLine>> \o p : p \in Sections}
    \union {f \o <<H(<<>>), Bullet(<<Word, Ref(y)>>), FenceLine, H(<<r2>>)>> : f \in Fronts}

D == INSTANCE L3Docs WITH Bodies <- MCBodies

(* A temporary anchor in one document and a reference to it in another.    *)
MCSent == {<<FenceLine, Key, FenceLine, H(<<t1>>), H(<<>>)>>,
           <<FenceLine, Key, FenceLine, H(<<>>), Bullet(<<Word, Ref(t1)>>)>>}

M == INSTANCE Migrations

(* Two edges between the same works, a way round a work, and a cycle.      *)
MCPool == {<<1, 1, 2>>, <<1, 2, 2>>, <<1, 1, 3>>, <<2, 1, 3>>, <<3, 1, 4>>, <<4, 1, 2>>}

R == INSTANCE Reads WITH Pool <- MCPool
------------------------------------------------------------------------------
SuiteInit ==
  /\ which \in Parts
  /\ Init /\ D!Init /\ FilesInit /\ AgentInit /\ M!MigrationsInit /\ R!ReadInit /\ ChatInit
  /\ which # "library" => ~batched
  /\ which # "files" => backing = "fs" /\ Cardinality(DOMAIN file) = 0
  /\ which # "agents" => shared = {}
  /\ which # "reads" => backend = "sql" /\ edges = {}

SuiteNext ==
  /\ \/ which = "library" /\ MCNext /\ UNCHANGED <<docsVars, filesVars, agentVars, migrationVars, readVars, chatVars>>
     \/ which = "docs" /\ D!Next /\ UNCHANGED <<libraryVars, filesVars, agentVars, migrationVars, readVars, chatVars>>
     \/ which = "files" /\ FilesNext /\ UNCHANGED <<libraryVars, docsVars, agentVars, migrationVars, readVars, chatVars>>
     \/ which = "agents" /\ AgentNext /\ UNCHANGED <<libraryVars, docsVars, filesVars, migrationVars, readVars, chatVars>>
     \/ which = "open" /\ M!MigrationsNext /\ UNCHANGED <<libraryVars, docsVars, filesVars, agentVars, readVars, chatVars>>
     \/ which = "reads" /\ R!ReadNext /\ UNCHANGED <<libraryVars, docsVars, filesVars, agentVars, migrationVars, chatVars>>
     \/ which = "chat" /\ ChatNext /\ UNCHANGED <<libraryVars, docsVars, filesVars, agentVars, migrationVars, readVars>>
  /\ UNCHANGED which

SuiteSpec ==
  SuiteInit /\ [][SuiteNext]_<<which, libraryVars, docsVars, filesVars, agentVars, migrationVars, readVars, chatVars>>
------------------------------------------------------------------------------
(* Rows, locals and files are of their kinds. *)
TypesOK ==
  /\ which = "library" => TypeOK
  /\ which = "files" => FilesTypeOK
  /\ which = "agents" => AgentTypeOK
  /\ which = "open" => M!MigrationsTypeOK
  /\ which = "reads" => R!ReadTypeOK
  /\ which = "chat" => ChatTypeOK

(* What L3Docs promises of every text and of every collection, and L3Files *)
(* of the names that one writer is at at a time.                           *)
DocumentsKept ==
  /\ which = "docs" => D!NormalizeIsFaithful /\ D!SyncReadsAlike /\ D!AssignKeepsGraph
  /\ which = "files" => AnchorsApart /\ TempsResolved

(* "Applied idempotently": what Migrations promises of a store that opens. *)
MigrationsHold == which = "open" => M!MigrationsHold

(* What Reads promises of a neighborhood, and of a work's attributes.      *)
ReadsHold == which = "reads" => R!NeighborhoodHolds /\ R!AttributesAreNewest

==============================================================================
