------------------------------- MODULE Reads -------------------------------
(***************************************************************************)
(* Reading the graph: neighborhood walks it breadth first, page by page,   *)
(* while edges are inserted and works merged; and how a work's attributes  *)
(* are put together from its assertions.                                   *)
(*                                                                         *)
(* The pages of SQLite and D1 begin after a key, those of the in-memory    *)
(* backend at an offset.                                                   *)
(***************************************************************************)
EXTENDS Naturals, FiniteSets, Sequences, SequencesExt

CONSTANTS
  Vertices,    (* guids, as their order: 1 .. n                            *)
  Pool,        (* edges there may be, as <<source, relation, destination>> *)
  SeedSets,    (* what may be asked for: one alias of each work            *)
  Depths, Caps,(* depth and max_nodes that may be asked for                *)
  Backends,    (* "sql", "mem"                                             *)
  PageSize,    (* NEIGHBORHOOD_EDGE_PAGE                                   *)
  MaxWrites    (* bound: edges put and merges                              *)

VARIABLES
  backend,     (* of this behaviour                                        *)
  edges,
  into,        (* where a work has been merged into, or itself             *)
  walk,        (* the locals of the call                                   *)
  writes,
  steady,      (* history: edges that were there all along                 *)
  disturbed    (* history: something was written since the call            *)

readVars == <<backend, edges, into, walk, writes, steady, disturbed>>

Relations == {e[2] : e \in Pool}
Other(e, dir) == IF dir = "forward" THEN e[3] ELSE e[1]
Own(e, dir) == IF dir = "forward" THEN e[1] ELSE e[3]
------------------------------------------------------------------------------
(* read_edges: a node's edges in the order of their other end and relation. *)
Before(dir, e, f) ==
  \/ Other(e, dir) < Other(f, dir)
  \/ Other(e, dir) = Other(f, dir) /\ e[2] < f[2]
Matching(n, dir) == SetToSortSeq({e \in edges : Own(e, dir) = n}, LAMBDA e, f : Before(dir, e, f))

(* The rows from the cursor on: <<>> is no cursor, <<e>> the key of e, <<i>> *)
(* an offset.                                                               *)
From(rows, dir, cursor) ==
  IF cursor = <<>> THEN rows
  ELSE IF backend = "sql" THEN SelectSeq(rows, LAMBDA e : Before(dir, cursor[1], e))
  ELSE SubSeq(rows, cursor[1] + 1, Len(rows))

(* One row more than a page tells whether there is another.                *)
PageOf(rest) == SubSeq(rest, 1, IF Len(rest) < PageSize THEN Len(rest) ELSE PageSize)

(* Mutant: the next page begins after the row that was read to look ahead. *)
CursorAfterPeek(rest, cursor) ==
  IF Len(rest) <= PageSize THEN <<>>
  ELSE IF backend = "sql" THEN <<rest[PageSize + 1]>>
  ELSE <<(IF cursor = <<>> THEN 0 ELSE cursor[1]) + PageSize + 1>>

NextCursor(rest, cursor) ==
  IF Len(rest) <= PageSize THEN <<>>
  ELSE IF backend = "sql" THEN <<rest[PageSize]>>
  ELSE <<(IF cursor = <<>> THEN 0 ELSE cursor[1]) + PageSize>>
------------------------------------------------------------------------------
(* neighborhood. *)

NoWalk == [step |-> "idle", dir |-> "forward", depth |-> 0, cap |-> 0, seeds |-> {}, layer |-> 0,
           visited |-> <<>>, frontier |-> <<>>, next |-> <<>>, cursor |-> <<>>, found |-> {},
           cut |-> FALSE, from |-> {}, gone |-> {}]

Ask ==
  /\ walk.step = "idle"
  /\ \E s \in SeedSets, d \in Depths, m \in Caps, dir \in {"forward", "backward"} :
       walk' = [NoWalk EXCEPT !.step = "seeds", !.dir = dir, !.depth = d, !.cap = m, !.seeds = s,
                              !.visited = [n \in {} |-> 0]]
  /\ steady' = edges
  /\ UNCHANGED <<backend, edges, into, writes, disturbed>>

(* get_alias and resolve_live of one seed, which may have been merged.     *)
ResolveSeed ==
  /\ walk.step = "seeds" /\ walk.seeds # {}
  /\ LET a == Min(walk.seeds) IN
     walk' = [walk EXCEPT !.seeds = @ \ {a}, !.from = @ \union {into[a]},
                          !.visited = [n \in DOMAIN @ \union {into[a]} |-> 0]]
  /\ UNCHANGED <<backend, edges, into, writes, steady, disturbed>>

Smallest(S, n) == {x \in S : Cardinality({y \in S : y < x}) < n}

(* More seeds than max_nodes: the first of them by guid.  The frontier is   *)
(* the seeds in any order (a HashMap's).                                    *)
StartWalk ==
  /\ walk.step = "seeds" /\ walk.seeds = {}
  /\ LET kept == Smallest(DOMAIN walk.visited, walk.cap) IN
     \E order \in {q \in [1 .. Cardinality(kept) -> kept] : ToSet(q) = kept} :
       walk' = [walk EXCEPT !.step = "walk", !.visited = [n \in kept |-> 0], !.frontier = order,
                            !.cut = kept # DOMAIN walk.visited]
  /\ UNCHANGED <<backend, edges, into, writes, steady, disturbed>>

(* An edge is noted, and its other end visited if there is room.           *)
Seen(w, e) ==
  LET n == Other(e, w.dir)
      v == [w EXCEPT !.found = @ \union {e}]
  IN IF n \in DOMAIN w.visited THEN v
     ELSE IF Cardinality(DOMAIN w.visited) < w.cap
     THEN [v EXCEPT !.visited = [m \in DOMAIN @ \union {n} |-> IF m = n THEN w.layer + 1 ELSE @[m]],
                    !.next = Append(@, n)]
     ELSE [v EXCEPT !.cut = TRUE]

AfterPage(w, page, cursor) ==
  LET v == FoldLeft(Seen, w, page)
  IN IF cursor # <<>> THEN [v EXCEPT !.cursor = cursor]
     ELSE IF Len(v.frontier) > 1 THEN [v EXCEPT !.cursor = <<>>, !.frontier = Tail(@)]
     ELSE [v EXCEPT !.cursor = <<>>, !.frontier = v.next, !.next = <<>>, !.layer = @ + 1]

More == walk.step = "walk" /\ walk.layer < walk.depth /\ walk.frontier # <<>>

ReadPage ==
  /\ More
  /\ LET rest == From(Matching(Head(walk.frontier), walk.dir), walk.dir, walk.cursor) IN
     walk' = AfterPage(walk, PageOf(rest), NextCursor(rest, walk.cursor))
  /\ UNCHANGED <<backend, edges, into, writes, steady, disturbed>>

(* The nodes are read; one merged since has no attributes and is a Work.   *)
Answer ==
  /\ walk.step = "walk" /\ ~More
  /\ walk' = [walk EXCEPT !.step = "answered", !.gone = {n \in DOMAIN walk.visited : into[n] # n}]
  /\ UNCHANGED <<backend, edges, into, writes, steady, disturbed>>

Closed == {e \in walk.found : e[1] \in DOMAIN walk.visited /\ e[3] \in DOMAIN walk.visited}
------------------------------------------------------------------------------
(* merge_assertions: rows are <<source, time, attributes>>; the newest row *)
(* that has a field gives it, of equally new ones the first by source.     *)

(* Mutant: of rows of one time, the last by source comes first. *)
NewerLastSource(r, t) == r[2] > t[2] \/ (r[2] = t[2] /\ r[1] > t[1])

Newer(r, t) == r[2] > t[2] \/ (r[2] = t[2] /\ r[1] < t[1])
Sorted(rows) == SetToSortSeq(rows, Newer)
MergeAssertions(rows) ==
  FoldLeft(LAMBDA attrs, r :
             [f \in DOMAIN attrs \union DOMAIN r[3] |->
                IF f \in DOMAIN attrs THEN attrs[f] ELSE [value |-> r[3][f], source |-> r[1]]],
           [f \in {} |-> 0], Sorted(rows))
------------------------------------------------------------------------------
Write == writes < MaxWrites /\ writes' = writes + 1 /\ disturbed' = TRUE

PutEdge ==
  /\ Write /\ walk.step \in {"seeds", "walk"}
  /\ \E e \in Pool \ edges :
       into[e[1]] = e[1] /\ into[e[3]] = e[3] /\ edges' = edges \union {e}
  /\ UNCHANGED <<backend, into, walk, steady>>

(* A merge repoints the loser's edges. *)
Merge ==
  /\ Write /\ walk.step \in {"seeds", "walk"}
  /\ \E s, l \in Vertices :
       LET moved(n) == IF n = l THEN s ELSE n IN
       /\ s < l /\ into[s] = s /\ into[l] = l
       /\ edges' = {<<moved(e[1]), e[2], moved(e[3])>> : e \in edges}
       /\ into' = [n \in Vertices |-> moved(into[n])]
       /\ steady' = {e \in steady : l \notin {e[1], e[3]}}
  /\ UNCHANGED <<backend, walk>>

Done == walk.step = "answered" /\ UNCHANGED readVars

ReadInit ==
  /\ backend \in Backends
  /\ edges \in SUBSET Pool
  /\ into = [n \in Vertices |-> n] /\ walk = NoWalk
  /\ writes = 0 /\ steady = {} /\ disturbed = FALSE

ReadNext ==
  \/ Ask \/ ResolveSeed \/ StartWalk \/ ReadPage \/ Answer
  \/ PutEdge \/ Merge \/ Done

ReadSpec == ReadInit /\ [][ReadNext]_readVars
------------------------------------------------------------------------------
(* The nodes within k steps of a set.                                      *)
Ball[k \in Nat] ==
  IF k = 0 THEN walk.from
  ELSE Ball[k - 1] \union {Other(e, walk.dir) : e \in {f \in edges : Own(f, walk.dir) \in Ball[k - 1]}}

ReadTypeOK ==
  /\ edges \subseteq Vertices \X Relations \X Vertices /\ into \in [Vertices -> Vertices]
  /\ DOMAIN walk.visited \subseteq Vertices /\ walk.found \subseteq Vertices \X Relations \X Vertices
  /\ writes \in 0 .. MaxWrites

(* An answer that nothing was written during is the neighborhood: all of   *)
(* the nodes within the depth at their distance, or max_nodes of them and  *)
(* `truncated`.  Whatever was written: no more than max_nodes; each node   *)
(* that is no seed was reached over an edge from a node one step nearer;   *)
(* and on SQL, each edge of an expanded node into the answer that was      *)
(* there all along is in it, so that in-degrees count it.                  *)
NeighborhoodHolds ==
  walk.step = "answered" =>
    LET reached == DOMAIN walk.visited
        ball == Ball[walk.depth]
        nearer(n) == {m \in reached : walk.visited[m] = walk.visited[n] - 1}
        expanded == {n \in reached : walk.visited[n] < walk.depth}
    IN /\ Cardinality(reached) <= walk.cap
       /\ \A n \in reached : walk.visited[n] > 0 =>
            \E e \in Closed : Other(e, walk.dir) = n /\ Own(e, walk.dir) \in nearer(n)
       /\ backend = "sql" =>
            \A e \in steady : Own(e, walk.dir) \in expanded /\ Other(e, walk.dir) \in reached => e \in Closed
       /\ ~disturbed =>
            /\ reached \subseteq ball /\ walk.gone = {}
            /\ walk.cut <=> Cardinality(ball) > walk.cap
            /\ ~walk.cut => reached = ball /\ \A n \in reached : n \in Ball[walk.visited[n]]
                  /\ (walk.visited[n] > 0 => n \notin Ball[walk.visited[n] - 1])
            /\ Closed = {e \in edges : Own(e, walk.dir) \in expanded /\ Other(e, walk.dir) \in reached}

(* Every field any source has asserted has one value, that of the newest   *)
(* row, whatever the order and however many sources.                       *)
AttributesAreNewest ==
  walk.step = "idle" /\ edges = {} =>
    \A times, fields \in [{1, 2, 3} -> 0 .. 2] :
      LET rows == {<<s, times[s], [f \in 1 .. fields[s] |-> s]>> : s \in {1, 2, 3}}
          attrs == MergeAssertions(rows)
      IN \A f \in 1 .. 2 :
           LET having == {s \in {1, 2, 3} : fields[s] >= f}
               newest == {s \in having : \A t \in having : times[t] <= times[s]}
           IN IF having = {} THEN f \notin DOMAIN attrs ELSE attrs[f].source = Min(newest)
=============================================================================
