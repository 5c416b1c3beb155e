# A TLA+ model of braincrawl

braincrawl keeps a personal graph of academic works: what was fetched about them
(the *catalog*, L2), the bytes of their full texts (the *library*, L1) and the
documents a researcher writes about them (the *research collection*, L3). This
directory models the parts of it that are hard to test, checks them with TLC and
proves the central safety properties with TLAPS. Paths below are relative to
`src/`.

## 1. Inventory

| Component | State it keeps | Operations | What makes it correct |
|---|---|---|---|
| **L2 catalog** `crates/core/src/usecases.rs` | `node` (with `merged_into`), `alias`, `node_assertion`, `edge`, `edge_assertion` | `put_work`, `put_edges`, `get_work`, `delete_work` | aliases one record co-asserts lead to one live node, nothing else does; walks along redirects end; no row dangles; the newest assertion of each source survives a merge |
| **L1 library** same file, `crates/backends/blob-fs`, `blob-r2` | `artifacts` rows (versions, current flag, blob key), the blobs | `put_content`, `get_content`, `delete_work`, the artifact part of a merge | a row's bytes are there and match its hash, one current version of each role, versions are never lost, a delete erases |
| **Backends** `crates/backends/store-{sqlite,d1,mem}`, `crates/sql`, `crates/conformance` | the tables | each operation a list of statements (SQLite: transactions, D1: batches, in between round trips) or one function on maps | all three do and answer the same |
| **Migrations** `migrations/`, `store-sqlite` | `_migrations`, the schema | look up, run, record | a store that opens has the whole schema |
| **Reads** neighborhood, merged attributes, stats, export, search | none | bounded breadth-first search; keyset pages | every returned edge joins returned nodes; a page neither skips nor repeats; each field is the newest one asserted |
| **Fetch queue** `crates/core/src/worker.rs`, `fetch_jobs` | rows with state, attempts, `run_after` | `enqueue`, `claim`, `complete`, `retry`, `fail`, driven by `tick` from `apps/server-bin` | one active job per target, the recorded outcome is true, backoff is honoured, every job settles |
| **Fetch handlers** `apps/server/src/handlers/{fulltext,refs}.rs` | none | fetch, then `put_content` or `put_edges` | a repeated job adds nothing; edges lead to the nodes their works have |
| **Store sync** `apps/cli/src/storesync.rs` | none | drain pages, ask what is present, replay | afterwards the destination lacks nothing, and it only gains |
| **L3 documents** `crates/l3`, `apps/cli/src/l3.rs`, `apps/{server,worker}` L3 handlers | files on disk, objects in a bucket | parse, assign anchors, normalise, move, rename, PUT | an anchor names one node of one document; a text is kept whole but for new anchors |
| **L3 sync** `crates/l3-sync`, `apps/cli/src/storesync.rs` | a base hash per anchor, per document header and per agent file, per pair of stores | fetch both sides, plan, PUT, save the base | no edit is lost, deletions stay deleted, both sides converge |
| **L3 watcher and event stream** `apps/server/src/watch.rs`, `handlers/events.rs`, `web/src/graph.tsx` | a debounce timer, a broadcast channel, streams | watch, signal, fetch the graph | a change comes to be shown |
| **Providers** `apps/cli/src/{openalex,semanticscholar,arxiv,crossref,refs_backfill}` | none | page through a listing with retries, map to records and edges, push | success means everything is stored; records and edges of one paper meet in one node |
| **Artifact commands** `apps/cli/src/{main,pages,locator,outline,chunk}.rs` | none | paginate, extract-text, chunk, outline, fetch, read | an artifact records truly what it was made from; folios and locators agree with the pages |
| **Chat** `web/src/plugins/chat` | transcript in the page and in localStorage, a document cache | send, call the model, run tools, stop, resume | every tool call is answered once; acknowledged edits stay |
| **Coordinator** `coord-local`, Durable Object in `apps/worker` | none (local) | `with_lock` | takes nothing, so nothing serialises two use cases |
| **HTTP fronts** `apps/server`, `apps/worker`, and their clients `apps/cli/src/store_client.rs`, `web/src` | the shared connection behind a mutex | route a path to a handler, check it, run one use case (each on a blocking thread), map its result to a status; the client reads the status back | requests overlap at every backend call; both fronts do the same with a request; a call reaches the work it names |
| Authentication | tokens, one-time codes in a key-value store | – | – |

How they interact: every client reaches the catalog and the library through HTTP
requests. `run_blocking` (`apps/server/src/lib.rs:49-64`) runs each on a thread of
its own. A use case is a sequence of backend calls; a call locks the one SQLite
connection, so calls exclude each other and use cases do not. On D1 not even a
call is one step: a walk is a round trip per hop. The worker loop is one more
thread that makes such calls. A merge in the catalog moves artifact rows of the
library in the same transaction; a delete removes them there and their blobs
afterwards. The commands (`store sync`, the providers, the artifact commands) and
the web application are clients of one server or two, with requests of other
clients in between. The files of L3 are written by handlers, by commands and by
the user's editor, with no lock at all, and watched.

What is hard: (a) use cases interleave at every backend call and act on ids they
read several calls ago; (b) a use case cut short leaves what it had done; (c) two
stores, metadata and blobs, with no transaction across them; (d) three backends
that must agree; (e) claims, retries and enqueues of the queue, and ticks that
end early; (f) merges of documents and files against a base that is itself written
last; (g) clients that act on what they read some requests ago; (h) turns of a
chat that are reloaded, stopped and resumed anywhere. `PROJECT.json` lists each
hazard at its line, with the properties that address it.

## 2. Modules

| Module | Models | State ↔ code |
|---|---|---|
| `Redirects` | the `merged_into` forest as operators: chain, root, path compression, redirect network | a function from ids to ids or `NoId` (NULL) |
| `Catalog` | L2, one step per backend call | one variable per table; `req[c]` holds the locals of the use case a caller is in |
| `Library` | L1, one step per backend call | `artifacts` = the table of that name, `blob` = the blob store; a catalog cut down to what L1 reads of it |
| `MemStore` | the in-memory backend: the abstract specification of the storage traits | the maps of `MemStoreInner` |
| `SqlStore` | the SQL backends, one step per statement; *implements `MemStore`* | `db` = the committed tables, `txn` = the operation under way with its working copy, `engine` = SQLite (foreign keys off) or D1 (on) |
| `D1Requests` | requests on D1, one step per round trip or batch | tables as functions; `client[c]` = the locals of a request |
| `StoreSync` | `store sync`, one step per request, with users of both stores | `sync` = the locals of `sync()` |
| `Migrations` | opening a store, one step per statement, several processes | `schema`, `recorded` = `_migrations` |
| `Reads` | `neighborhood`, one step per page of edges, while the graph changes; merging of attributes | `walk` = the locals of the call |
| `JobQueue` | the fetch queue | `jobs` = `fetch_jobs`, `batch`/`hand` = the locals of `tick` |
| `Calendar` | the date arithmetic behind `run_after` and `fetched_at` | `today` = the clock, in days |
| `Fronts` | the server's and the worker's routes, handlers and statuses, and the calls of the CLI and the web application through them | `known`/`has` = what the use cases show of the store |
| `ChangeFeed` | watcher, broadcast, event streams, page | `raw` = file events not yet taken, `inbox` = signals in a stream, `fetch` = a request for the graph |
| `L3Text` | how a document is read and how anchors are assigned, as operators | a document is a sequence of lines |
| `L3Docs` | every command and handler on a collection, one after the other | `docs` = the texts |
| `L3Files` | PUT handlers and `assign-ids`, one step per system call or bucket request | `file` = directory entries, `inode` = contents |
| `L3Sync` | two document collections, their users and `l3_sync` | `node`/`header` = the documents of each side, split as `split_doc` does; `base` = the pair's state file; `sync` = the locals |
| `AgentFiles` | the agents' context files that `l3_sync` carries along, one step per request | `agent` = the files of each side, `pair` = the `agent:` keys of the state file, `pass` = the locals |
| `Derivations` | the artifact commands and the full text job, one step per request | `rows` = artifact descriptors with a body, `client` = the locals |
| `Pages` | folio detection, page breaks, splitting, outline checks, as operators | – |
| `Harvest` | provider commands and the reference job: paging, retries, mapping, push | `run` = the locals of a command, `nodes`/`edges` = the catalog seen from outside |
| `Chat` | a chat session, one step per message, call or storage access | `chat`/`saved` = the session in the page and in localStorage, `loops` = the turns, `cache` = `docCache` |
| `MCCatalog`, `MCLibrary`, `MCServices`, `MCJobs`, `MCStores` | the instances TLC checks | `which` tells the part that a behaviour runs |
| `RedirectsProofs`, `CatalogProofs`, `LibraryProofs`, `SqlStoreProofs`, `D1RequestsProofs`, `JobQueueProofs`, `L3SyncProofs` | theorems (section 4) about the module each is named after | |
| `ClientsProofs` | theorems about `StoreSync`, `AgentFiles`, `Chat` and `L3Files` | |

**Levels.** The same code appears at several grains, each where its hazards are.
A request is one step for a client (`StoreSync`, `Derivations`, `Harvest`,
`AgentFiles`; in `L3Sync` the PUTs are, and a collection is read at once, see section
5); a backend call is one step within a request (`Catalog`, `Library`);
a statement is one step within a backend call (`SqlStore`), a round trip on D1
(`D1Requests`). What one level takes for a step is what the level below shows to
be all or nothing: `merge` and `delete_work_network` are transactions and
`SqlStore` shows that cut short anywhere they leave nothing; where SQLite runs two
statements outside a transaction (`put_edge`, `record`) the upper level has a step
for the process that ends in between (`TornPutEdge`, `TornRecord`).

**Refinement.** `SqlStore!ImplementsMemStore` is `INSTANCE MemStore` under a mapping
from committed tables to maps, checked as a property: whatever statements run,
with or without foreign keys, committed, rolled back or dropped by a crash, a
client sees one step of the in-memory backend or none. `ReadsAgree` adds that
every read (node, artifacts, stats, delete plan, presence, pages of the three exports)
answers alike. The one difference the mapping has to hide is the history `lost`:
where two merged works have a version number in common the maps keep both rows
and SQL the survivor's.

**Suites.** `MCServices`, `MCJobs` and `MCStores` host several modules that do not
share state: a behaviour chooses a part and the others stay as they began, so that
one run checks them at the price of the sum of their states. Their properties
read `which = "..." => ...`. In `MCCatalog` a behaviour has a *regime*: requests of
every kind one at a time, each possibly cut short, or `put_work` and `put_edges` calls
that race. In `MCLibrary` the metadata store decides: on SQLite one caller's requests
come one at a time, of every kind, one cut short; on D1 (`batched`, `record` is one
transaction) the uploads, reads and merges of two callers race.

**What overlapped.** Some properties hold only as long as requests do not overlap, or
no delete overlaps another request. They say so of the behaviour at hand, by
histories: `raced` is set when a request begins while another is under way,
`clashed` when one of the two is a `delete_work`, `solo` holds the caller whose request
nothing has overlapped; in `L3Files`, `crossed` holds the names that two writers were at
at once. So they are invariants of the one specification, whatever
requests come, and what is proved of them is not tied to an instance.

**Data.** Guids are natural numbers, because `put_work` picks the
lexicographically smallest guid as the survivor; `CreateNode` hands out any
unused one, as random UUIDs would. Attribute maps and titles are left out: an
assertion is its key (node, source) and its `fetched_at` (`Reads` alone has
fields). A content and its hash are one value. Keys that SQL orders (roles,
relations, sources) are numbers in that order. A queue row's times are relative
and counted in units of the 30 s backoff base; `Calendar` has the texts. In
`L3Sync` a hash is the content it is taken of, a body is a sequence of lines (the
order matters to the hash), and the rules of `plan_merge` are operators on one
anchor's source content, dest content and base: `Verdict` names the row of the
table at the head of `lib.rs`, `Merged` and `Recorded` what it does. Moving a node
is a removal and an addition, as the server's 409 forces it to be. In `L3Text` a
line has a kind, the pieces its bullet is made of and the anchors at its end. A
printed page number is an arabic number or the values of roman letters. A chat
message is the tool calls it makes or answers; each edit leaves a mark of its own
in the one document.

**Failures.** A use case may end between any two calls (`Fail`), a statement may be
refused by a key, a process may end within a transaction (`Crash`), a migration,
a PUT or assign-ids; `BlobDelete` may fail for a blob and go on, as the code does;
`Lose` ends a tick of the worker; `PutFails` and `PutPlannedFails` refuse a PUT or
lose its answer, `Abort` and `PassEnds` end a sync early, `TornSave` and `PairTorn`
leave a state file that does not parse; listings and pages fail and are retried or
not; a page is reloaded and storage fills up under a chat.

**Mutants.** A definition under a comment "Mutant:" is a plausible mistake in the
definition that follows it. It is used by no specification; `PROJECT.json` names
for each property at least one mistake it must detect.

## 3. What the runs check

| Run | Instance | Shows |
|---|---|---|
| `catalog` | `serial`: 3 aliases, 4 guids, 1 caller, 4 calls of every kind, 1 failure. `race`: 2 callers, 3 calls, from an empty catalog and from one with three separate works | one at a time, the tables stay consistent and every acknowledged bundle has one live node (`SerialBundlesConverge`); under every interleaving of `put_work` and `put_edges` redirects only point at smaller guids and are never undone, no row dangles (`ForeignKeysHold`), no acknowledged alias disappears (`AckedAliasesBound`), nothing is merged that no record links (`NoFalseMerge`), a merge keeps the newest records (`MergeKeepsNewest`), and a `put_work` that runs alone repairs every fork it meets (`SoloPutHeals`) |
| `race_split` | 2 callers, 2 bridging calls on a seeded catalog | **violated**: two merges of one loser; see findings |
| `services` | library: 2 works, 2 contents, 5 calls serial or 4 racing. Documents: 10 texts in 2 documents. Files: 2 PUTs, 1 assign-ids, 1 crash. Agents' files: 1 file, 3 changes, 1 mishap. 2 processes open a store 3 times. A graph of 4 works, 6 edges. A chat of 2 turns, 2 rounds | see the next table |
| `race_record` | 2 callers, 3 calls, `record` as SQLite's two statements | **violated**: a role loses its current version; see findings |
| `jobs` | 3 targets (one without a handler), batch of 2, 3 attempts, 3 rows, 1 lost tick; 2 documents, 1 page, 2 file events under way; 1100 days from each of 1970, 1999, 2023, 2099; fronts: 6 aliases, 2 roles, 2 works at a time, every call through either front | see the next table |
| `l3_sync` | 1 anchor, 2 documents, 2 headings, 2 lines, 2 headers, 3 edits, 1 failure, any number of syncs | base hashes are of content that both sides held (`BaseWasShared`), a sync overwrites only what the source had already seen and deletions stick (`EditsStick`), and when edits stop full syncs in both directions bring every line to both sides (`LinesConverge`) |
| `union_diverges` | 1 document, 1 heading, 2 edits | **violated**: bodies need not converge; see findings |
| `failed_put` | 1 document, 1 failure | **violated**: a header hash is saved for a header that the dest never got |
| `stores` | SQL: 3 works, 3 operations, both engines. D1: 2 clients, 4 requests. Sync: 3 nodes, 2 aliases, 3 writes, 1 error. Commands: three regimes of up to 4 commands. Books of 4 pages. Harvest: 4 papers, 3 worlds | see the next table |
| `d1_merge` | 4 operations with foreign keys enforced | **violated**: a merge of works with edges fails; see findings |
| `torn_put` | as `services`, the files alone | **violated**: a document is seen empty; see findings |
| `unanswered_tool` | as `services`, the chat alone | **violated**: the model is called with an unanswered tool call; see findings |

What the suites' properties say:

| Property | Of | Says |
|---|---|---|
| `CurrentIsNewest`, `SerialRowsMatchBytes`, `VersionsServed`, `HistoryKept` | `Library` | at most one current version, as new as every version uploaded to a live work; one at a time, rows and blobs correspond and a delete erases; where `record` is a batch a role with versions has a current one, and without an overlapping delete `get_content` is never *pending*; versions only go by deletes and merges, bytes keep their key |
| `DocumentsKept` | `L3Docs`, `L3Files` | normalising a document only gives anchors to headings that had none, with its links, and is idempotent; the sync reads every text as the parser does; assign-ids keeps the graph. While no two writers overlap, no two documents share an anchor, and temporary anchors are resolved everywhere |
| `PutsKept` | `L3Files` | a name that one writer is at at a time shows a whole text between any two system calls, and the last acknowledged one when it rests, with its predecessor beside it, whatever happens at other names and where the server crashes |
| `AgentsKept` | `AgentFiles` | a sync of agents' files records only what both sides held, writes only over what the source had already seen, brings no removed file back, and run both ways leaves only conflicts and removals |
| `MigrationsHold` | `Migrations` | a store that opens has the whole schema; only a migration cut short or run twice is ever refused |
| `ReadsHold` | `Reads` | an undisturbed answer is exactly the neighborhood, or `max_nodes` of it and `truncated`; a disturbed one is connected, within the cap, and on SQL lacks no edge that stood still; each attribute is the newest asserted |
| `ChatHolds` | `Chat` | results stand right after the calls they answer, an interrupted turn can be resumed, nothing is run twice but by a reload, a deleted session stays away, an acknowledged edit stays |
| `RowsAreTrue`, `ClaimsAreDue`, `EveryJobSettles` | `JobQueue` | one active job per target and outcomes and attempts as they happened; no success run again, no retry before its time; every job settles unless its tick was lost |
| `CopiesAgree` | `Calendar`, `Fronts` | what the project holds twice comes to the same. Both date algorithms agree, parsing gives the day back, delays end when they should and texts sort as times do. Both fronts change the store alike and answer alike, and through either a caller hears what the use case says of the work the call names, an error never as an absence, but for the exceptions below |
| `ChangesAreShown` | `ChangeFeed` | when the files come to rest, a page whose stream is open shows every change made while it had one |
| `ImplementsMemStore`, `ReadsAgree`, `BatchesSucceed` | `SqlStore` | the refinement above, and that reads answer alike; only a merge ever fails, on D1 alone: no key is taken, no delete or insert meets a foreign key in its way |
| `D1TablesWhole`, `D1RedirectsStay` | `D1Requests` | stale compressions close no cycle and take no redirect away; a delete takes the whole network; rows have their bytes, unless a merge moved rows that another request had in hand |
| `SyncComplete`, `SyncOnlyAdds` | `StoreSync` | paging drains every row that stood still; after an undisturbed sync the destination lacks no alias, edge or content, and the next sync changes nothing there: it finds every record and content, and pushes the edges again to no effect; the destination never loses by a sync |
| `CommandsHold` | `Derivations`, `Pages` | recorded lineage is true while nobody else writes the role; the artifact tree shows everything; a repeated job adds nothing; locators resolve to pages there are. Folios agree with anchors and votes, breaks and runs cover each page once, splitting loses nothing, numerals are read right or refused |
| `HarvestHolds` | `Harvest` | edges say who cites whom whichever end was asked, and meet the node of the paper's record; one paper is one node; success means all of the listing is stored |

**Bounds, and why they are enough.** The interesting cases of the catalog need
two bundles that share an alias (fork), a third that bridges them, and a loser
that a third request still holds: three aliases, four guids and two callers
reach all of them, and the seeded start saves the calls that would build three
works. The race allows no failure because a caller may stop for ever between
two calls, which leaves what a failed one leaves. Two fetch times distinguish
newer from older. Three operations of `SqlStore` on three works give a merge of
works with edges between them, on the same third work, and among themselves, and
a read of it. Three attempts give the queue a first run, a retry and a last one;
a cap of 3 lets the backoff saturate. The rules of the sync look at one anchor at
a time and couple anchors only through the document that is written: one anchor
and two documents give every verdict, moves and the 409; three edits are a base, a
change on each side and a deletion or a move; the number of syncs is not bounded.
The rules for agents' files look at one file at a time. Page sizes and limits of 1
and 2 make every row a boundary. Four pages are enough for two runs of folios
with a gap. The years followed by `Calendar` have a leap year, an ordinary one, a
leap century (2000) and an ordinary one (2100). The aliases of `Fronts` are a DOI, DOIs
that end as each route does, one that a URL has to escape and one that cuts a URL
short; a request concerns one of them, so two works at a time tell a wrong one. Two turns of two rounds give a
chat an interrupted turn and one that talks past it. All bounds stand in the
guards (`MaxCalls`, `MaxFailures`, `MaxJobs`, `MaxLosses`, `MaxChanges`, ...) and
nowhere else.

**Fairness.** `JobQueue`, `ChangeFeed` and `L3Sync` have some. The worker loop polls
every second (`apps/server-bin/src/main.rs:94-119`), so a claim that stays possible is
made; each handler's HTTP client has a timeout, so a handler returns; writing back
is the next statement; the clock moves. Nothing is assumed of `Enqueue` and `Lose`.
In `ChangeFeed` the watcher's thread takes events and its `recv_timeout` returns, a
stream that is open delivers and the page's request is answered; nothing is
assumed of the editor, who may never rest, or of a stream that is lost.
In `L3Sync` a sync that has begun goes on (it is a loop over its plan), and the user
keeps running full syncs in both directions; the latter is an assumption about the
user, not the code, and convergence is only promised under it. The client commands
(`StoreSync`, `Derivations`, `Harvest`, `AgentFiles`) end by themselves; what is said
of them is said of the states in which they have ended.

### Findings

* `race_split` — `MERGE_REDIRECT` overwrites `merged_into` of a guid that `put_work`
  resolved several calls ago. Two bridging records that hold the same loser point
  it at two survivors in turn; the second separates what the first united,
  against `.rhidoc/02-architecture/01-core/02-id-resolution.md:76-77`.
* `race_record` — on SQLite, an upload that lost the race for a version has
  already cleared the current flag when its insert fails: the role has versions and
  no current one until the next upload.
* `union_diverges` — `union_body` appends the source's lines to the dest's, and
  `node_hash` depends on the order of lines. When each side has added a line, the
  union one way and the union back give different orders; the hashes differ for
  ever and no base is recorded, against `crates/l3-sync/src/lib.rs:402-403`. With no base,
  a later one-sided edit or deletion of such a node is not recognised as one.
* `failed_put` — `drop_doc_anchors` forgets the `doc:` key: after a failed PUT the
  source's header is the saved base although the dest never had it, against
  `lib.rs:36-37`; the reverse sync then takes the dest's old header for an edit and
  overwrites the newer one.
* `d1_merge` — the first statement of a merge's edge part inserts assertions of an
  edge the survivor does not have yet. D1 enforces the reference and drops the
  batch: works with edges cannot be merged there.
* `torn_put` — the temp file of a document has one name. Two PUTs at once share it,
  and the first renames what the second has just cut to nothing, against
  `apps/server/src/handlers/l3.rs:135-136`.
* `unanswered_tool` — `pendingToolUses` looks at the last message only. After a
  reload in the middle of a turn's tools, a text sent instead of *Resume* comes
  after the calls; they count as answered, and every later request of the session
  carries them without results.

### Known limits

What the code does that a property has to except, or that no document promises
otherwise; it bounds what may be claimed.

*Catalog and backends.* Two first `put_work` calls of one new alias leave an orphan
node that one of them acknowledged. A `get_work` that resolved before a merge or
delete answers None (`usecases.rs:166`); `neighborhood` answers such a node as an empty
work. A delete beside a `put_work` or `put_edges` that holds the id leaves rows without
a node on SQLite, and fails one of the two on D1. There a merge takes ids it resolved some
round trips ago, and artifacts refer to no node: a loser that was deleted meanwhile may
have left a row of a later upload, which the merge brings to the survivor; an upload
that holds the loser numbers from 1 again, with keys that the survivor's rows now carry;
and a delete that has read its keys removes bytes of rows that a merge moved away
(`InHand`: `D1TablesWhole` excepts the three). Two requests at a time do not show the
first two; the proof did. A slower upload overwrites bytes
under a key that a row already names. A replayed record with an older `fetched_at`
replaces a newer one. A merge drops the loser's versions whose number the survivor
has, and leaves their blobs. An upload that resolved before a merge or a delete puts its
row on a node that is gone or redirects, where it need not be the newest; and a `record`
cut in two on SQLite may let a merge bring in the current version, of the other
work's history (`CurrentIsNewest` excepts both). The in-memory backend's offsets may skip an edge when
edges are inserted between pages. A migration cut short between its statements makes
every later open fail, though `store-sqlite/src/lib.rs:5` says migrations are applied
idempotently. The Durable Object's lock (`apps/worker/src/lib.rs:155-204`) is taken and
released by requests that nothing waits for: it serialises no more than the local
one.

*Fronts.* `apps/worker/src/lib.rs:8` says that it mirrors `apps/server` exactly. It takes
the path as it came (`url.path()`) and does not decode it: the web application's
requests for a work or its chunks, which escape the alias (`ChatView.tsx:106`,
`tools.ts:462`), get 400 from it, and an alias with a character that no URL holds is not
found. It has no DELETE, and 404 is what the CLI takes for "no such work"
(`store_client.rs:213`), so `rm` reports one that is there as absent. Its record of a
work comes without the artifacts. On both fronts an alias that ends in `/edges` or
`/artifacts`, or has `/content/` inside, is not reached by `get_work`; a role named `edges`
or `artifacts` can be put and not read back; a `?` or `#` in an alias ends the path the CLI
writes, so that its request, a delete too, is about what is left of the alias.

*Store sync.* The comment on `sync` says that "re-running pushes nothing that already
arrived" (`storesync.rs:309-310`). That is so of records and contents, which it asks for
first; every edge between addressed nodes is pushed again by every run (`:386-413`). The
nodes and edges stay as they are (`NextSyncChangesNothing`), but the upsert
(`sql/src/lib.rs:289-296`) writes the source's attributes and `fetched_at` over what the
destination has under that edge and provider, an older assertion over a newer one. The
assertions on edges are not in the model. A node all of whose aliases the destination has is skipped with
whatever the source has newly said of it (`storesync.rs:346`), and derived artifacts
arrive without lineage.

*Documents.* With an empty frontmatter a new anchor is appended two lines above
its heading (`parse.rs:108`). A temporary id with an underscore after its first part is
never resolved. A missing newline at the end is added. In the sync: an edit of the
dest between the fetch and the PUT is overwritten (no precondition on PUT, agents'
files alike); after a union that made both sides equal the base is recorded only by the
next run, and a deletion in between is undone; a torn state file brings removed
nodes and files back.

*Watcher.* A directory that never rests for the debounce never signals. What
changes while a page has no stream is not shown until the next change. After a
failed fetch the page shows an error until then.

*Artifact commands.* Versions are listed after the content was read (`main.rs:28`), so
an upload in between records a wrong source; a merge may leave `derived_from` naming
the survivor's other edition (`.rhidoc/01-product/01-glossary.md:54-55`). Roman numerals
that begin with a subtractive pair (iv, ix, xl) are refused. `outline` accepts a section
that begins on page 0, and `read` skips it. The full text job stores a page of HTML as
a full text, and may hide an upload made during its download.

*Providers.* `openalex refs doi:...` names the work `openalex:doi:...` in its edges, a
node that no record ever meets (`verbs.rs:182`); papers of Semantic Scholar without
identifiers are all `s2:unknown`, and their records make unreachable nodes. DOIs of
Semantic Scholar and arXiv keep their capitals, those of the others do not, so one paper
may be two nodes. Without `--all` one page is read whatever the limit, and `truncated`
is never set. Offsets may repeat or skip when a listing shifts; a failure on any page
loses the pages before it. A reference job of which both services fail is done with
nothing.

*Chat.* Leaving and entering the view while a turn runs allows a second, overlapping
turn. Two edits in one message compute from one copy, and the later drops the
earlier, acknowledged one. `docCache` is never refreshed: an edit reverts what others
did since. A tool cut short by a reload runs again. `pushWork` sends aliases as
`{namespace, value}` (`tools.ts:64-67`) where the server wants `scheme`
(`crates/core/src/types.rs:10-13`), and does not look at the answer.

## 4. What is proved

TLC checks small instances; the following holds for every set of callers, ids,
aliases, bundles, works, roles, anchors, documents, operations and every bound, under
assumptions named in the modules: `IdsAssumption` (guids are naturals and finitely
many), `CatalogAssumption` (bundles are non-empty sequences of aliases),
`LibraryAssumption` (a merge's survivor is the smaller guid, callers are finitely many),
`StoreAssumption` (keys that SQL orders are naturals), `L3SyncAssumption` (there are two
sides; anchors and documents have different names), `SyncAssumption` (guids, aliases and
times are naturals, pages and batches not empty), `AgentAssumption` (two sides),
`ChatAssumption` (marks of other people's edits are no tool calls), `FilesAssumption` (threads
and names are finitely many, documents and agent files have different names), `JobQueueAssumption` (bounds are
positive) and `PowersAssumption` (powers of naturals are naturals: an induction the
prover cannot do). Every theorem of the form `Spec => ...` rests on an inductive
invariant that each action keeps, one lemma per action. `PROJECT.json` lists the
theorems by name.

**Redirects** (`RedirectsProofs`). About any redirection that only decreases: from each
id the walk ends in exactly one live id, no greater than its start (`RootProperty`); path
compression keeps it decreasing (`CompressedDecreases`) and changes where no walk ends
(`CompressedRoots`). A chain is defined as a least closed set, so these need no induction
over data: the least element of a chain of naturals is the root.

**Catalog.** `CatalogProofs`: types (`TypeCorrect`), no cycles (`RedirectsAcyclic`, the
comment at `crates/backends/store-sqlite/src/lib.rs:399`), so `resolve_live` ends
(`WalkEnds`), and redirects are never undone (`RedirectsNeverUndone`). The invariant is
`TypeOK`, `RedirectsDecrease` and the `Shape` of every request. `RedirectsDecrease` alone is
not inductive: `Merge` needs that the survivor is smaller than the loser, which holds
because `found` has at least two ids whenever a request is at `merge` (`Shape`), and
`ResolveLive` that a root is no greater than the id it starts from (`RootProperty`).

Under every interleaving, deletes and failures included:

* `NeverMergedTooFar` (`NoFalseMerge`): for each set `S` of aliases that no bundle links to
  the rest, the invariant `SInv` has a set `T` of guids such that no alias, redirect or
  request in flight crosses from one side to the other (`Sides`). `T` grows as guids
  are issued, which is possible as nothing refers to a guid that was not (`Referenced`).
* `MergesKeepNewest` (`MergeKeepsNewest`): a merge loses no source's newest record.

As far as requests do not overlap (`Alone` says what `solo`,
`raced` and `clashed` then mean):

* `ForeignKeysKept` and `AcknowledgedAliasesStay`, while no delete overlaps anything:
  with the tables' references, the invariant `KeysHold` has that every id a request holds
  is still a row (`InHand`) and every alias it has passed is bound (`Attached`).
* `ForksHeal` (`SoloPutHeals`): `Progress` says of a `put_work` that runs alone what each
  lookup has established, through the merges, which move the root of every alias
  found to the survivor, to the last call.
* `SerialConverges` (`SerialBundlesConverge`): while nothing has overlapped, `Tidy`; a live
  node without an alias is the one that the request in flight is about to attach.

**Library** (`LibraryProofs`), on both kinds of metadata store:

* `LibraryTyped`: versions never outnumber the calls. A request that has picked a version
  holds a call of its own that no row has used (`CountedTo`), or two callers that keep
  overtaking each other could count further.
* `NewestIsCurrent` (`CurrentIsNewest`), whatever overlaps or fails. The version that an
  upload picked several calls ago may be stale by the time it is recorded; that the
  insert then fails and never creates an older current row needs that no version of a
  live work is missing (`Gapless`, `NextInLine`): a version that is still free is the
  next one.
* `BytesServed` (`VersionsServed`): every row's bytes are under an id that redirects where
  the row's own does (`RowsBacked`), so a delete that is alone takes both; each step holds
  what the next relies on (`Holds`).
* `SerialRowsMatch`: one at a time, a blob is a row's, or the one about to be recorded or
  deleted, or one that a merge dropped (`Accounted`).
* `HistoryIsKept` (`HistoryKept`).

**Backends** (`SqlStoreProofs`). `RefinesMemStore` (`ImplementsMemStore`): each operation on
SQL, statement by statement, on both engines, cut short by failures and crashes, takes
the tables through one whole operation of the in-memory backend or none; the abstract
specification is the same module TLC uses. For the merge (fifteen statements) and the
delete (seven) the proof lists what the working copy is after each statement
(`MergeWorks`, `DeleteWorks`), and proves the last of the list equal to what `MemStore` does
in one step. The invariant `IInv` says of a transaction under way that its working copy is a
stage of some plan of the committed tables (`Story`), or, of a walk, that its
compressions so far point where the walk ends; of committed tables it has types,
primary and foreign keys and decreasing redirects (`Sound`). From it follow
`KeysHold` (the references hold on SQLite too, which does not enforce them),
`StoreTyped`, and `OnlyMergesFail` (`BatchesSucceed`): on SQLite every statement of every
operation succeeds, and on D1 all but a merge's.

`ReadsAnswerAlike` (`ReadsAgree`): what is written alike is read alike. A second
invariant, `MapsInv`, says that the maps are finite and that no artifact is left with a
node that is merged away: so the versions that only the maps kept of a network are those
of its live node, and two plans of its delete differ in their bytes at most. An export
orders rows by rank: of finitely many keys in a linear order (`KeysOrdered`, `Ranks`)
the first `n` are those with fewer than `n` before them, so the row that SQL fetches
beyond the limit tells what the walk over the maps sees (`SamePage`), for every cursor
and limit (the run has limits 1 and 2).

**D1** (`D1RequestsProofs`), round trip by round trip, for any number of clients and works:

* `D1ForestKept` and `D1KeepsRedirects` (`D1RedirectsStay`): a compression or a merge
  writes ids that were read some round trips ago. No cycle closes because a
  request's walked ids lie above the one it has come to, and a merge's loser above its
  survivor (`Shape`), whatever has happened to them since; a delete takes the network it
  searched only if that is still closed, as the foreign keys of its batch enforce.
* `D1KeepsTables` (`D1TablesWhole`). That every row has its bytes rests on keys: a row's key
  is made of the id and version it was recorded under, and of a work that rows were
  moved away from no upload is in flight, nor will be (`Past`, `KeysKept`); so keys are
  unique, and those a delete has read belong to its network (`KeysRead`). This invariant
  failed to be inductive at merges of works that others have in hand, and each failure
  was a run of the code: see the known limits. The property now excepts them by name.

**Store sync** (`ClientsProofs`), with stores, pages and batches of any size:

* `SyncTypeCorrect`: whatever users put, merge and delete, rows are of nodes that are there.
* `SyncAdds` (`SyncOnlyAdds`): a replayed record unites works and never takes apart what
  was one; survivors inherit edges, records and contents.
* `SyncCompletes` (`SyncComplete`). Draining: a row that stood still is drained already or
  lies after the cursor (`SteadyInv`), and a page takes all rows between its first and last.
  Replaying, undisturbed (`CleanInv`): each alias drained is at the destination or in a
  record still to be pushed (`WorksInv`), each addressed edge is linked there or in a
  batch still to go (`LinksInv`), each content is there or in the loop (`CarriedInv`); and
  uniting works at the destination breaks none of these. The next sync then has no record
  and no content to push, and an edge that is linked already changes nothing when it is
  put again (`LinkedPutsNothing`).

**Agents' files** (`ClientsProofs`): `AgentTypeCorrect` and `AgentsFair` (`AgentsKept`). The
invariant `AgentInv` says of the sync in flight what it may still rely on: what it read,
both sides' histories know (`PassKnown`), what it is about to save was held by both once
the PUT succeeds, and while nobody interferes its copies are current (`PassCurrent`);
after each direction, `CalmDone` says which files can still differ.

**Chat** (`ClientsProofs`): `ChatTypeCorrect` and `ChatKept` (`ChatHolds`). `ChatInv`: every
tool call in hand was asked for in the transcript (`AllAsked`); a turn's copies of documents
hold what it has written (`CopiesCurrent`); what is saved is what is shown
(`SavedAsShown`); while the view was not left, one turn runs at most (`OneTurn`), and only
its last message can hold calls without results (`NothingUnanswered`); each with the
exceptions that the histories record.

**Documents' files** (`ClientsProofs`): `FilesTypeCorrect` and `PutsAreKept` (`PutsKept`), for
any threads, names and texts, on files and on a bucket. The invariant `FilesInv`: no inode is
of two documents (`NoneShared`: what a name leads to, or a writer at it holds open; so a
writer at another name cannot reach it, and an inode is given out again only when neither
is the case, `FreshInode`), and for each name that no two writers were at at once what
its writer may rely on at each step (`Sure`, `Under`): that the copy is of the text read, that
the previous version is complete before the document is replaced, that the temporary
file is empty when it is written and whole when it is renamed. What normalising makes of a
text plays no part: a text is whole if a handler was to store it.

**L3 sync** (`L3SyncProofs`): `SyncTyped`, `BaseStaysShared` (`BaseWasShared`) and
`UserEditsStick` (`EditsStick`). A base is computed before the PUT that makes it true, so
`AfterShared` says of each hash to be saved that both sides have held the content, or
that the document which brings it there is still to be put; a refused PUT takes the
hash out. For the deletions, a node that both sides agreed on has a base (`AgreedKnown`), no
plan brings it back (`NotRevived`), and as long as nobody interferes the plan is of
what the source has (`Undisturbed`).

**Queue** (`JobQueueProofs`): `TypeCorrect`, `RowsTrue` and `ClaimsDue`. The invariant says
of each row how the histories stand to it (`Story`): the job in the worker's hand has
run once more than its row says, every other claimed one exactly as often; a
waiting retry has `due + since >= Backoff`; a row not yet inserted has never run.

**Left to TLC.** Liveness under fairness (`EveryJobSettles`, `ChangesAreShown`,
`LinesConverge`): the prover has no rule for `ENABLED`. What folds and recursion over texts and
lists compute (the texts of documents with their anchors, `DocumentsKept`; dates, folios, numerals, breadth-first search,
merged attributes, artifact trees): the operators are defined by recursion over data, for
which the provers have no induction. Migrations and the fronts are finite lists, of
statements and of routes, that TLC runs through completely. Derivations and harvests remain.

## 5. Not modelled

* Encodings, logging, mime types, provenance, and the printing commands: I/O or data
  that no property here depends on. Of the fronts: bodies that do not parse, limits,
  cursors, tokens and the routes of the documents (whose handlers are in `L3Docs` and
  `L3Files`).
* Authentication: lookups of tokens and codes in an external key-value store.
* Search: one SQL query. The in-memory backend matches titles and authors by other
  means than SQL's `LIKE`, so the two may answer differently; a model of it would be
  one of string matching.
* Filters and output shapes of the provider commands, author and venue records.
* Torn reads of a collection of documents. `fetch_collection` (`storesync.rs:503-521`) is
  a listing and one GET per document; `FetchSource` and `FetchDestAndPlan` read all
  documents in one step. So the model has the edits between the two fetches and between
  a fetch and the PUTs, not those between two GETs: there an anchor that moves to another
  document may be read in both or in neither, and old and new documents of one side side
  by side. By the code (`l3-sync/src/lib.rs:342-411`) an anchor read nowhere is left alone or
  added to a document whose PUT the server refuses with 409 while the anchor stands in
  another one, and of one read twice on the source the copy in the dest's document
  counts, as if it had been read before the move; the other is reported as moved. None
  of this is checked here. `AgentFiles` does read file by file.
* The tools of the chat other than document edits, and two tabs on one session.
* The views of the web application but for the graph's feed.
* On D1 the reads that take several statements are one step in `SqlStore`; their
  interleaving is in `D1Requests` for the walks and the delete, not for `read_node`.

## 6. Plan

Done: the models of every component above; the proofs of the catalog, the library,
the queue, the backends' refinement, the requests on D1, the safety of the L3 sync, and of
the clients: store sync, agents' files, chat and the documents' files.
Left, in this order:

1. The anchors across documents (`AnchorsApart`), with what normalisation does to a text as
   an assumption that `L3Docs` checks.
2. A catalog with one caller as the refinement of a partition of aliases that
   `put_work` coarsens: `SerialConverges` and `NeverMergedTooFar` are its two halves.
