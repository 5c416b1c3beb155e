----------------------------- MODULE StoreSync -----------------------------
(***************************************************************************)
(* `store sync`: one client replays over HTTP what a destination store     *)
(* lacks from a source store, while users write to both.                   *)
(*                                                                         *)
(* A request is one step here (Catalog has the steps within put_work).  A  *)
(* store is its live nodes with their aliases, assertions, edges and       *)
(* current contents; what merges do to them is MERGE_* of the sql crate.   *)
(***************************************************************************)
EXTENDS Naturals, FiniteSets, Sequences, FiniteSetsExt

CONSTANTS
  Guids,       (* canonical ids: naturals, in their order                  *)
  Names,       (* aliases: naturals, choose_alias prefers the lesser       *)
  Times,       (* fetched_at of the records users put                      *)
  NodePage,    (* rows of an export page of nodes ...                      *)
  RowPage,     (* ... and of edges                                         *)
  EdgeBatch,   (* edges of one PUT /edges                                  *)
  MaxErrors,   (* bound: requests of the sync that fail                    *)
  MaxWrites    (* bound: writes of users, and failed requests, together    *)

ASSUME SyncAssumption ==
  /\ Guids \subseteq Nat \ {0} /\ Names \subseteq Nat /\ Times \subseteq Nat
  /\ NodePage > 0 /\ RowPage > 0 /\ EdgeBatch > 0
  /\ {NodePage, RowPage, EdgeBatch, MaxErrors, MaxWrites} \subseteq Nat

VARIABLES
  store,       (* "src" and "dst"                                          *)
  sync,        (* the locals of sync()                                     *)
  writes, errors,
  clean,       (* history: this run met no error and no user's write       *)
  steady       (* history: the rows whose key the drain finds unchanged    *)

syncVars == <<store, sync, writes, errors, clean, steady>>

Sides == {"src", "dst"}
Known(s) == DOMAIN store[s].alias
AliasesOf(s, n) == {a \in Known(s) : store[s].alias[a] = n}
Has(s, a) == \E c \in store[s].content : c.node = store[s].alias[a]
Chosen(A) == Min(A)

MayFail == errors < MaxErrors /\ writes + errors < MaxWrites

Idle == [step |-> "idle", cursor |-> <<0, 0>>, nodes |-> {}, edges |-> {}, contents |-> {},
         present |-> {}, records |-> {}, to_put |-> {}, art |-> {}]
------------------------------------------------------------------------------
(* The use cases, as one request to a store.                               *)

NewestOf(rows) ==
  {r \in rows : \A q \in rows : q.node = r.node /\ q.source = r.source => q.at <= r.at}

(* Mutant: the losers' edges are left where they are. *)
UnitedEdgesLeft(st, G, s) ==
  LET Moved(x) == IF x \in G THEN s ELSE x
  IN [st EXCEPT !.node = (@ \ G) \union {s},
                !.alias = [a \in DOMAIN @ |-> Moved(@[a])],
                !.said = NewestOf({[r EXCEPT !.node = Moved(@)] : r \in @}),
                !.content = {c \in @ : c.node \notin G \ {s}}]

(* Mutant: the losers' edges are dropped. *)
UnitedForgetful(st, G, s) ==
  LET Moved(x) == IF x \in G THEN s ELSE x
  IN [st EXCEPT !.node = (@ \ G) \union {s},
                !.alias = [a \in DOMAIN @ |-> Moved(@[a])],
                !.said = NewestOf({[r EXCEPT !.node = Moved(@)] : r \in @}),
                !.edge = {e \in @ : {e[1], e[2]} \intersect (G \ {s}) = {}},
                !.content = {c \in @ : c.node \notin G \ {s}}]

(* The store st with the nodes G united under s; a survivor's contents win. *)
United(st, G, s) ==
  LET Moved(x) == IF x \in G THEN s ELSE x
      heirs == {c \in st.content : c.node \in G}
      best == {c \in heirs : \A d \in heirs : c.node <= d.node}
  IN [st EXCEPT !.node = (@ \ G) \union {s},
                !.alias = [a \in DOMAIN @ |-> Moved(@[a])],
                !.said = NewestOf({[r EXCEPT !.node = Moved(@)] : r \in @}),
                !.edge = {<<Moved(e[1]), Moved(e[2])>> : e \in @},
                !.content = {c \in @ : c.node \notin G}
                              \union {[c EXCEPT !.node = s] : c \in best}]

(* The store with alias a known: its node, or a stub under the id fresh. *)
WithStub(st, a, fresh) ==
  IF a \in DOMAIN st.alias THEN st
  ELSE [st EXCEPT !.node = @ \union {fresh}, !.used = @ \union {fresh},
                  !.alias = [b \in DOMAIN @ \union {a} |-> IF b = a THEN fresh ELSE @[b]]]

PutWork(st, rec, fresh) ==
  LET found == {st.alias[a] : a \in rec.aliases \intersect DOMAIN st.alias}
      G == IF found = {} THEN {fresh} ELSE found
      one == United(st, G, Min(G))
  IN [one EXCEPT !.used = @ \union G,
        !.alias = [a \in DOMAIN @ \union rec.aliases |-> IF a \in rec.aliases THEN Min(G) ELSE @[a]],
        !.said = {r \in @ : r.node # Min(G) \/ r.source # rec.source}
                   \union {[node |-> Min(G), source |-> rec.source, at |-> rec.at]}]

(* put_edges of one edge, between the aliases of pair. *)
PutEdges(st, pair, fresh) ==
  LET one == WithStub(st, pair[1], fresh[1])
      two == WithStub(one, pair[2], fresh[2])
  IN [two EXCEPT !.edge = @ \union {<<two.alias[pair[1]], two.alias[pair[2]]>>}]

PutContent(st, a) ==
  [st EXCEPT !.content = {c \in @ : c.node # st.alias[a]}
                           \union {[node |-> st.alias[a], bytes |-> TRUE]}]

(* A new guid of the source may fall anywhere in the order of its pages. *)
Fresh(s) == IF s = "src" THEN Guids \ store[s].used ELSE {1 + Max(store[s].used \union {0})}
FreshPairs(s) ==
  IF s = "src" THEN {p \in Fresh(s) \X Fresh(s) : p[1] # p[2] \/ Cardinality(Fresh(s)) = 1} ELSE {<<n, n + 1>> : n \in Fresh(s)}
------------------------------------------------------------------------------
(* Users. *)

Write(s, st) ==
  /\ writes + errors < MaxWrites /\ writes' = writes + 1
  /\ store' = [store EXCEPT ![s] = st]
  /\ clean' = (clean /\ sync.step = "idle")
  /\ steady' = [nodes |-> steady.nodes \intersect
                            (IF s = "src" THEN st.node ELSE store["src"].node),
                edges |-> steady.edges \intersect
                            (IF s = "src" THEN st.edge ELSE store["src"].edge)]
  /\ sync' = IF sync.step = "done" THEN Idle ELSE sync
  /\ UNCHANGED errors

UserPutWork(s) == \E A \in SUBSET Names, t \in Times, n \in Fresh(s) :
  /\ Cardinality(A) \in 1 .. 2
  /\ Write(s, PutWork(store[s], [aliases |-> A, source |-> "provider", at |-> t], n))

UserPutEdge(s) == \E a, b \in Names, fresh \in FreshPairs(s) :
  a # b /\ Write(s, PutEdges(store[s], <<a, b>>, fresh))

UserPutContent == \E a \in Known("src") : Write("src", PutContent(store["src"], a))

(* A blob goes missing: get_content answers Pending. *)
LoseBlob == \E c \in store["src"].content :
  c.bytes /\ Write("src", [store["src"] EXCEPT !.content =
                              (@ \ {c}) \union {[c EXCEPT !.bytes = FALSE]}])
------------------------------------------------------------------------------
(* The drains: a page is the first rows after the cursor, read with one    *)
(* row more to see whether there is a next.                                *)

Before(p, q) == p[1] < q[1] \/ (p[1] = q[1] /\ p[2] < q[2])

Rest(rows, cursor) == {r \in rows : Before(cursor, r)}
Page(rows, limit) == {r \in rows : Cardinality({q \in rows : Before(q, r)}) < limit}
LastOf(rows) == CHOOSE r \in rows : \A q \in rows : q = r \/ Before(q, r)

(* Mutant: the cursor is the extra row, which no page then shows. *)
NextCursorExtra(rest, limit) ==
  IF Cardinality(rest) > limit THEN LastOf(Page(rest, limit + 1)) ELSE <<0, 0>>

NextCursor(rest, limit) ==
  IF Cardinality(rest) > limit THEN LastOf(Page(rest, limit)) ELSE <<0, 0>>

BeginSync ==
  /\ sync.step \in {"idle", "done"}
  /\ sync' = [Idle EXCEPT !.step = "nodes"]
  /\ clean' = TRUE
  /\ steady' = [nodes |-> store["src"].node, edges |-> {}]
  /\ UNCHANGED <<store, writes, errors>>

DrainNodes ==
  LET rest == Rest({<<n, 0>> : n \in store["src"].node}, sync.cursor)
      next == NextCursor(rest, NodePage)
  IN /\ sync.step = "nodes"
     /\ sync' = [sync EXCEPT
          !.nodes = @ \union {[id |-> r[1], aliases |-> AliasesOf("src", r[1]),
                               said |-> {q \in store["src"].said : q.node = r[1]}] :
                                 r \in Page(rest, NodePage)},
          !.cursor = next,
          !.step = IF next = <<0, 0>> THEN "edges" ELSE @]
     /\ steady' = IF next = <<0, 0>> THEN [steady EXCEPT !.edges = store["src"].edge] ELSE steady
     /\ UNCHANGED <<store, writes, errors, clean>>

DrainEdges ==
  LET rest == Rest(store["src"].edge, sync.cursor)
      next == NextCursor(rest, RowPage)
  IN /\ sync.step = "edges"
     /\ sync' = [sync EXCEPT !.edges = @ \union Page(rest, RowPage), !.cursor = next,
                             !.step = IF next = <<0, 0>> THEN "artifacts" ELSE @]
     /\ UNCHANGED <<store, writes, errors, clean, steady>>

DrainArtifacts ==
  /\ sync.step = "artifacts"
  /\ sync' = [sync EXCEPT !.contents = {c.node : c \in store["src"].content}, !.step = "have"]
  /\ UNCHANGED <<store, writes, errors, clean, steady>>

(* A page that cannot be read after six attempts ends the sync. *)
DrainFails ==
  /\ sync.step \in {"nodes", "edges", "artifacts", "have"} /\ MayFail
  /\ errors' = errors + 1 /\ sync' = Idle
  /\ UNCHANGED <<store, writes, clean, steady>>
------------------------------------------------------------------------------
(* The replay. *)

(* One record per assertion; a node with none gets an empty one. *)
Records(n) ==
  IF n.said = {} THEN {[node |-> n.id, aliases |-> n.aliases, source |-> "migration", at |-> 0]}
  ELSE {[node |-> n.id, aliases |-> n.aliases, source |-> r.source, at |-> r.at] : r \in n.said}

(* Mutant: a node is skipped when some alias of it is present. *)
ToPushAny(nodes, present) == {n \in nodes : n.aliases # {} /\ n.aliases \intersect present = {}}

(* Nodes without alias and nodes all of whose aliases are present are skipped. *)
ToPush(nodes, present) == {n \in nodes : n.aliases # {} /\ ~(n.aliases \subseteq present)}

(* `store diff`: the nodes of s with no alias that t knows, and those with  *)
(* none at all, which it cannot compare.                                   *)
DiffSide(s, t) ==
  [only_here |-> {n \in store[s].node : AliasesOf(s, n) # {} /\ AliasesOf(s, n) \intersect Known(t) = {}},
   unaddressable |-> {n \in store[s].node : AliasesOf(s, n) = {}}]

(* The alias that addresses a node of the source, if it has one. *)
AddressOf(nodes, id) == {Chosen(n.aliases) : n \in {m \in nodes : m.id = id /\ m.aliases # {}}}

Have ==
  LET present == Known("dst") \intersect UNION {n.aliases : n \in sync.nodes}
  IN /\ sync.step = "have"
     /\ sync' = [sync EXCEPT !.present = present, !.step = "works",
                             !.records = UNION {Records(n) : n \in ToPush(sync.nodes, present)}]
     /\ UNCHANGED <<store, writes, errors, clean, steady>>

(* A request of the replay: done, refused, or done with its answer lost. *)
Replays(st) ==
  \/ store' = [store EXCEPT !["dst"] = st] /\ UNCHANGED <<errors, clean>>
  \/ MayFail /\ errors' = errors + 1 /\ clean' = FALSE
       /\ (UNCHANGED store \/ store' = [store EXCEPT !["dst"] = st])

ReplayWork ==
  /\ sync.step = "works"
  /\ \E r \in sync.records, n \in Fresh("dst") :
       /\ \A q \in sync.records : r.node <= q.node
       /\ Replays(PutWork(store["dst"], r, n))
       /\ sync' = [sync EXCEPT !.records = @ \ {r}]
  /\ UNCHANGED <<writes, steady>>

(* Edges whose ends have an address among the drained nodes. *)
WorksReplayed ==
  LET pairs == {<<a, b>> : a \in Names, b \in Names}
      at(x, e) == x \in AddressOf(sync.nodes, e)
  IN /\ sync.step = "works" /\ sync.records = {}
     /\ sync' = [sync EXCEPT !.step = "pairs",
          !.to_put = {p \in pairs : \E e \in sync.edges : at(p[1], e[1]) /\ at(p[2], e[2])}]
     /\ UNCHANGED <<store, writes, errors, clean, steady>>

(* The edges of a batch one by one; an error leaves the rest of the batch. *)
ReplayEdges ==
  /\ sync.step = "pairs" /\ sync.to_put # {}
  /\ LET batch == Page(sync.to_put, EdgeBatch)
         p == CHOOSE q \in batch : \A x \in batch : x = q \/ Before(q, x)
     IN \/ /\ \E f \in FreshPairs("dst") :
               store' = [store EXCEPT !["dst"] = PutEdges(@, p, f)]
           /\ sync' = [sync EXCEPT !.to_put = @ \ {p}]
           /\ UNCHANGED <<errors, clean>>
        \/ /\ MayFail /\ errors' = errors + 1 /\ clean' = FALSE
           /\ sync' = [sync EXCEPT !.to_put = @ \ batch]
           /\ UNCHANGED store
  /\ UNCHANGED <<writes, steady>>

EdgesReplayed ==
  /\ sync.step = "pairs" /\ sync.to_put = {}
  /\ sync' = [sync EXCEPT !.step = "check",
       !.to_put = {<<a, a>> : a \in UNION {AddressOf(sync.nodes, id) : id \in sync.contents}}]
  /\ UNCHANGED <<store, writes, errors, clean, steady>>

(* GET of the destination's content: only an absent one goes on. *)
CheckContent ==
  /\ sync.step = "check" /\ sync.to_put # {}
  /\ \E p \in sync.to_put :
       LET absent == p[1] \notin Known("dst") \/ ~Has("dst", p[1])
       IN sync' = [sync EXCEPT !.to_put = @ \ {p},
                     !.art = IF absent /\ p[1] \in Known("dst") THEN {p[1]} ELSE {},
                     !.step = IF absent /\ p[1] \in Known("dst") THEN "read" ELSE @]
  /\ UNCHANGED <<store, writes, errors, clean, steady>>

(* GET of the source's bytes; Pending or Absent cannot be carried over. *)
ReadContent ==
  /\ sync.step = "read"
  /\ LET a == Chosen(sync.art)
         there == \E c \in store["src"].content : c.node = store["src"].alias[a] /\ c.bytes
     IN sync' = [sync EXCEPT !.step = IF there THEN "put" ELSE "check",
                             !.art = IF there THEN @ ELSE {}]
  /\ UNCHANGED <<store, writes, errors, clean, steady>>

ReplayContent ==
  /\ sync.step = "put"
  /\ Replays(PutContent(store["dst"], Chosen(sync.art)))
  /\ sync' = [sync EXCEPT !.step = "check", !.art = {}]
  /\ UNCHANGED <<writes, steady>>

Finish ==
  /\ sync.step = "check" /\ sync.to_put = {}
  /\ sync' = [Idle EXCEPT !.step = "done"]
  /\ UNCHANGED <<store, writes, errors, clean, steady>>
------------------------------------------------------------------------------
NoStore == [node |-> {}, used |-> {}, alias |-> [a \in {} |-> 0], said |-> {}, edge |-> {},
            content |-> {}]

(* The source may hold a node that lost the race for its alias. *)
SyncInit ==
  /\ \E orphan \in {{}, {2}} \intersect SUBSET Guids :
       store = [s \in Sides |-> IF s = "dst" THEN NoStore
                                ELSE [NoStore EXCEPT !.node = orphan, !.used = orphan]]
  /\ sync = Idle /\ writes = 0 /\ errors = 0 /\ clean = FALSE
  /\ steady = [nodes |-> {}, edges |-> {}]

Users ==
  \/ \E s \in Sides : UserPutWork(s) \/ UserPutEdge(s)
  \/ UserPutContent \/ LoseBlob

Client ==
  \/ BeginSync \/ DrainNodes \/ DrainEdges \/ DrainArtifacts \/ DrainFails \/ Have
  \/ ReplayWork \/ WorksReplayed \/ ReplayEdges \/ EdgesReplayed
  \/ CheckContent \/ ReadContent \/ ReplayContent \/ Finish

SyncNext == Users \/ Client

SyncSpec == SyncInit /\ [][SyncNext]_syncVars
------------------------------------------------------------------------------
Rows(st) ==
  /\ st.node \subseteq st.used /\ \A n \in st.used : n \in Nat
  /\ \A a \in DOMAIN st.alias : a \in Names /\ st.alias[a] \in st.node
  /\ \A r, q \in st.said : r.node \in st.node /\ (r.node = q.node /\ r.source = q.source => r = q)
  /\ \A e \in st.edge : e[1] \in st.node /\ e[2] \in st.node
  /\ \A c, d \in st.content : c.node \in st.node /\ (c.node = d.node => c = d)

SyncTypeOK ==
  /\ \A s \in Sides : Rows(store[s])
  /\ writes \in 0 .. MaxWrites /\ errors \in 0 .. MaxErrors /\ clean \in BOOLEAN
  /\ sync.present \subseteq Names /\ \A n \in sync.nodes : n.id \in Guids

(* "A page boundary never skips or repeats a row": whatever is written     *)
(* between the pages, a row that stood under its key all along is drained. *)
SteadyRowsDrained ==
  /\ sync.step \notin {"idle", "done", "nodes"} => steady.nodes \subseteq {n.id : n \in sync.nodes}
  /\ sync.step \notin {"idle", "done", "nodes", "edges"} => steady.edges \subseteq sync.edges

(* A sync that met no error and no other writer leaves the destination     *)
(* with every alias, every edge between nodes that have aliases, and every *)
(* content that has bytes; a diff then shows nothing only at the source.   *)
NothingLacks ==
  sync.step = "done" /\ clean =>
    LET home(a) == store["dst"].alias[a]
        reach(n) == {home(a) : a \in AliasesOf("src", n)}
    IN /\ Known("src") \subseteq Known("dst") /\ DiffSide("src", "dst").only_here = {}
       /\ \A e \in store["src"].edge :
            AliasesOf("src", e[1]) # {} /\ AliasesOf("src", e[2]) # {} =>
              \E x \in reach(e[1]), y \in reach(e[2]) : <<x, y>> \in store["dst"].edge
       /\ \A c \in store["src"].content :
            c.bytes /\ AliasesOf("src", c.node) # {} =>
              \E d \in store["dst"].content : d.node \in reach(c.node)

(* After such a sync the next one changes nothing at the destination.  It  *)
(* asks for records and contents before it pushes them, and finds them     *)
(* all.  It asks for no edge: whatever edges have addressed ends are       *)
(* pushed again, to nodes that are there and over edges that are there.    *)
NextSyncChangesNothing ==
  sync.step = "done" /\ clean =>
    LET address(n) == Chosen(AliasesOf("src", n))
    IN /\ \A n \in store["src"].node : AliasesOf("src", n) # {} =>
            /\ AliasesOf("src", n) \subseteq Known("dst")
            /\ (\E c \in store["src"].content : c.node = n /\ c.bytes) => Has("dst", address(n))
       /\ \A e \in store["src"].edge, fresh \in FreshPairs("dst") :
            AliasesOf("src", e[1]) # {} /\ AliasesOf("src", e[2]) # {} =>
              PutEdges(store["dst"], <<address(e[1]), address(e[2])>>, fresh) = store["dst"]

(* Paging drains every row that stood still, and an undisturbed sync       *)
(* leaves nothing lacking, and nothing for the next one to change.         *)
SyncComplete == SteadyRowsDrained /\ NothingLacks /\ NextSyncChangesNothing

(* What old knew to be one work is one work in new, and keeps what was its. *)
Adds(old, new) ==
  LET now(n) == {new.alias[a] : a \in {b \in DOMAIN old.alias : old.alias[b] = n}}
  IN /\ DOMAIN old.alias \subseteq DOMAIN new.alias
     /\ \A n \in old.node : Cardinality(now(n)) <= 1
     /\ \A e \in old.edge : \A x \in now(e[1]), y \in now(e[2]) : <<x, y>> \in new.edge
     /\ \A r \in old.said : \A x \in now(r.node) :
          \E q \in new.said : q.node = x /\ q.source = r.source
     /\ \A c \in old.content : \A x \in now(c.node) : \E d \in new.content : d.node = x

(* The sync only adds to the destination: what it knew to be one work      *)
(* stays one, with its edges, its sources and its contents.                *)
SyncOnlyAdds == [][Client => Adds(store["dst"], store["dst"]')]_syncVars
==============================================================================
