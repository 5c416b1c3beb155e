------------------------------- MODULE Library -------------------------------
(***************************************************************************)
(* The L1 library: artifact rows in the metadata store, blobs in the blob  *)
(* store, and the use cases put_content, get_content and delete_work that  *)
(* keep the two in step without a transaction that spans both.             *)
(*                                                                         *)
(* The catalog is cut down to what the library depends on: works that exist*)
(* from the start, an alias for each, and merges of two live works.  Each  *)
(* step is one call of a backend, as in module Catalog.                    *)
(***************************************************************************)
EXTENDS Redirects, FiniteSetsExt

CONSTANTS
  Callers,
  Works,        (* works that exist from the start; also names their aliases *)
  Roles,        (* artifact roles                                          *)
  Bodies,       (* contents; a content and its hash are one                *)
  NoBody,       (* no blob under a key                                     *)
  Bridges,      (* the <<survivor, loser>> pairs put_work may merge        *)
  Uploads, Reads, Doomed,  (* the works that each use case is called with  *)
  MaxCalls, MaxFailures    (* bounds                                       *)

ASSUME LibraryAssumption ==
  /\ Works \subseteq Ids /\ Works # {}
  /\ Uploads \subseteq Works /\ Reads \subseteq Works /\ Doomed \subseteq Works
  /\ Bridges \subseteq Works \X Works /\ \A b \in Bridges : b[1] < b[2]
  /\ NoBody \notin Bodies /\ Bodies # {} /\ Roles # {}
  /\ IsFiniteSet(Callers) /\ MaxCalls \in Nat /\ MaxFailures \in Nat

VARIABLES
  nodes, merged_into, alias,   (* as in Catalog; alias of each work        *)
  artifacts,                   (* rows [node, role, version, key, hash, current] *)
  blob,                        (* the content under each key               *)
  batched,                     (* record is one transaction: D1's batch, not SQLite *)
  req,                         (* what each caller's use case has got to   *)
  calls, failures,             (* counters of the two bounds               *)
  raced,                       (* history: some request has overlapped another *)
  clashed                      (* history: one of two that overlapped was a delete_work *)

catalog == <<nodes, merged_into, alias>>
history == <<raced, clashed>>
vars == <<nodes, merged_into, alias, artifacts, blob, batched, req, calls, failures, raced, clashed>>

Versions == 1 .. MaxCalls + 1

(* {canonical_id}/{role}/v{version} *)
Keys == [node : Ids, role : Roles, version : Versions]

Rows == [node : Ids, role : Roles, version : Versions, key : Keys,
         hash : Bodies, current : BOOLEAN]

Steps == {"idle", "get_alias", "resolve_live", "next_version", "blob_put", "record",
          "current_artifact", "blob_get", "delete_network", "blob_delete"}

Requests ==
  [op : {"put_content", "get_content", "delete_work"}, step : Steps,
   work : Works, role : Roles, body : Bodies, cur : Ids \union {NoId},
   version : Versions, keys : SUBSET Keys]
------------------------------------------------------------------------------
RowsOf(n, role) == {r \in artifacts : r.node = n /\ r.role = role}

(* Mutant: the last version, not the one after it. *)
LastVersion(n, role) == Max({0} \union {r.version : r \in RowsOf(n, role)})

(* artifact::NEXT_VERSION *)
NextVersion(n, role) == 1 + Max({0} \union {r.version : r \in RowsOf(n, role)})

(* Mutant: the flip is forgotten. *)
Unflipped(n, role) == artifacts

(* artifact::FLIP_CURRENT_OFF *)
Flipped(n, role) ==
  (artifacts \ RowsOf(n, role)) \union {[r EXCEPT !.current = FALSE] : r \in RowsOf(n, role)}

(* Mutant: a merge that keeps the current flag of both works. *)
ArtifactsMoved(survivor, loser) ==
  LET taken(r) == \E q \in RowsOf(survivor, r.role) : q.version = r.version
  IN {r \in artifacts : r.node # loser}
       \union {[r EXCEPT !.node = survivor] : r \in {q \in artifacts : q.node = loser /\ ~taken(q)}}

(* MERGE_DEMOTE_LOSER_CURRENT, MERGE_REPOINT and MERGE_DELETE_LOSER: the   *)
(* loser's rows move over, demoted where the survivor has a current one,   *)
(* dropped where the survivor has that version.                            *)
ArtifactsFolded(survivor, loser) ==
  LET demoted(role) == \E q \in RowsOf(survivor, role) : q.current
      taken(r) == \E q \in RowsOf(survivor, r.role) : q.version = r.version
  IN {r \in artifacts : r.node # loser}
       \union {[r EXCEPT !.node = survivor, !.current = @ /\ ~demoted(r.role)] :
                 r \in {q \in artifacts : q.node = loser /\ ~taken(q)}}

(* Mutant: a key without the version. *)
KeyUnversioned(r) == [node |-> r.cur, role |-> r.role, version |-> 1]

KeyOf(r) == [node |-> r.cur, role |-> r.role, version |-> r.version]
------------------------------------------------------------------------------
Idle == [op |-> "put_content", step |-> "idle", work |-> CHOOSE w \in Works : TRUE,
         role |-> CHOOSE k \in Roles : TRUE, body |-> CHOOSE b \in Bodies : TRUE,
         cur |-> NoId, version |-> 1, keys |-> {}]

Return(c) == req' = [req EXCEPT ![c] = Idle]

Goto(c, step) == req' = [req EXCEPT ![c] = [@ EXCEPT !.step = step]]

(* A request arrives; what it overlaps is remembered. *)
Begins(c, op) ==
  LET others == {d \in Callers \ {c} : req[d].step # "idle"}
      deletes == op = "delete_work" \/ \E d \in others : req[d].op = "delete_work"
  IN /\ req[c].step = "idle" /\ calls < MaxCalls
     /\ calls' = calls + 1
     /\ raced' = (raced \/ others # {})
     /\ clashed' = (clashed \/ (others # {} /\ deletes))

Call(c, op, w, role, body) ==
  /\ Begins(c, op)
  /\ req' = [req EXCEPT ![c] = [Idle EXCEPT !.op = op, !.step = "get_alias", !.work = w,
                                            !.role = role, !.body = body]]
  /\ UNCHANGED <<catalog, artifacts, blob, batched, failures>>

CallPutContent(c) ==
  \E w \in Uploads, role \in Roles, body \in Bodies : Call(c, "put_content", w, role, body)
CallGetContent(c) == \E w \in Reads, role \in Roles : Call(c, "get_content", w, role, Idle.body)
CallDeleteWork(c) == \E w \in Doomed : Call(c, "delete_work", w, Idle.role, Idle.body)

(* put_work's merge of two works that are live (see Catalog for the rest). *)
Merge(c) ==
  /\ Begins(c, "put_work")
  /\ \E b \in Bridges :
       LET survivor == b[1]  loser == b[2] IN
       /\ {survivor, loser} \subseteq nodes
       /\ merged_into[survivor] = NoId /\ merged_into[loser] = NoId
       /\ merged_into' = [merged_into EXCEPT ![loser] = survivor]
       /\ alias' = [w \in Works |-> IF alias[w] = loser THEN survivor ELSE alias[w]]
       /\ artifacts' = ArtifactsFolded(survivor, loser)
  /\ UNCHANGED <<nodes, blob, batched, req, failures>>

(* An unknown alias ends the call: NotFound, or Absent for get_content. *)
GetAlias(c) ==
  LET raw == alias[req[c].work] IN
  /\ req[c].step = "get_alias"
  /\ IF raw = NoId THEN Return(c)
     ELSE req' = [req EXCEPT ![c] = [@ EXCEPT !.step = "resolve_live", !.cur = raw]]
  /\ UNCHANGED <<catalog, artifacts, blob, batched, calls, failures, history>>

ResolveLive(c) ==
  LET r == req[c]
      next == CASE r.op = "put_content" -> "next_version"
                [] r.op = "get_content" -> "current_artifact"
                [] OTHER -> "delete_network"
  IN /\ r.step = "resolve_live"
     /\ IF Chain(merged_into, r.cur) \subseteq nodes
        THEN /\ merged_into' = Compressed(merged_into, r.cur)
             /\ req' = [req EXCEPT ![c] =
                          [r EXCEPT !.step = next, !.cur = Root(merged_into, r.cur)]]
        ELSE Return(c) /\ UNCHANGED merged_into
     /\ UNCHANGED <<nodes, alias, artifacts, blob, batched, calls, failures, history>>

(* Mutant: the descriptor is recorded before its bytes are put. *)
PickVersionEarly(c) ==
  LET r == req[c] IN
  /\ r.step = "next_version"
  /\ req' = [req EXCEPT ![c] = [r EXCEPT !.step = "record",
                                         !.version = NextVersion(r.cur, r.role)]]
  /\ UNCHANGED <<catalog, artifacts, blob, batched, calls, failures, history>>

PickVersion(c) ==
  LET r == req[c] IN
  /\ r.step = "next_version"
  /\ req' = [req EXCEPT ![c] = [r EXCEPT !.step = "blob_put",
                                         !.version = NextVersion(r.cur, r.role)]]
  /\ UNCHANGED <<catalog, artifacts, blob, batched, calls, failures, history>>

BlobPut(c) ==
  /\ req[c].step = "blob_put"
  /\ blob' = [blob EXCEPT ![KeyOf(req[c])] = req[c].body]
  /\ Goto(c, "record")
  /\ UNCHANGED <<catalog, artifacts, batched, calls, failures, history>>

(* Mutant: the new row replaces the old ones. *)
RecordReplacing(c) ==
  LET r == req[c]
      row == [node |-> r.cur, role |-> r.role, version |-> r.version,
              key |-> KeyOf(r), hash |-> r.body, current |-> TRUE]
  IN /\ r.step = "record"
     /\ artifacts' = (artifacts \ RowsOf(r.cur, r.role)) \union {row}
     /\ Return(c)
     /\ UNCHANGED <<catalog, blob, batched, calls, failures, history>>

(* FLIP_CURRENT_OFF, then INSERT.  The primary key (canonical_id, role,    *)
(* version) may be taken by now: the INSERT fails, and in SQLite, where    *)
(* the two are separate statements, the flip stays.                        *)
Record(c) ==
  LET r == req[c]
      row == [node |-> r.cur, role |-> r.role, version |-> r.version,
              key |-> KeyOf(r), hash |-> r.body, current |-> TRUE]
  IN /\ r.step = "record"
     /\ artifacts' = IF \A q \in RowsOf(r.cur, r.role) : q.version # r.version
                     THEN Flipped(r.cur, r.role) \union {row}
                     ELSE IF batched THEN artifacts ELSE Flipped(r.cur, r.role)
     /\ Return(c)
     /\ UNCHANGED <<catalog, blob, batched, calls, failures, history>>

(* The process stops between the two statements. *)
TornRecord(c) ==
  LET r == req[c] IN
  /\ r.step = "record" /\ ~batched /\ failures < MaxFailures
  /\ failures' = failures + 1
  /\ artifacts' = Flipped(r.cur, r.role)
  /\ Return(c)
  /\ UNCHANGED <<catalog, blob, batched, calls, history>>

CurrentArtifact(c) ==
  LET r == req[c]
      current == {q \in RowsOf(r.cur, r.role) : q.current}
  IN /\ r.step = "current_artifact"
     /\ \/ current = {} /\ Return(c)
        \/ \E q \in current :
             req' = [req EXCEPT ![c] = [r EXCEPT !.step = "blob_get", !.keys = {q.key}]]
     /\ UNCHANGED <<catalog, artifacts, blob, batched, calls, failures, history>>

(* Bytes if the blob is there, else Pending. *)
BlobGet(c) ==
  /\ req[c].step = "blob_get"
  /\ Return(c)
  /\ UNCHANGED <<catalog, artifacts, blob, batched, calls, failures, history>>

(* The metadata transaction of delete_work; the keys it returns are still  *)
(* to be deleted from the blob store.                                      *)
DeleteNetwork(c) ==
  LET net == NetworkOf(merged_into, nodes, req[c].cur)
      keys == {r.key : r \in {q \in artifacts : q.node \in net}}
  IN /\ req[c].step = "delete_network"
     /\ nodes' = nodes \ net
     /\ merged_into' = [n \in Ids |-> IF n \in net THEN NoId ELSE merged_into[n]]
     /\ alias' = [w \in Works |-> IF alias[w] \in net THEN NoId ELSE alias[w]]
     /\ artifacts' = {r \in artifacts : r.node \notin net}
     /\ IF keys = {} THEN Return(c)
        ELSE req' = [req EXCEPT ![c] = [@ EXCEPT !.step = "blob_delete", !.keys = keys]]
     /\ UNCHANGED <<blob, batched, calls, failures, history>>

(* Mutant: only the first blob of the list is deleted. *)
BlobDeleteFirst(c) ==
  /\ req[c].step = "blob_delete"
  /\ \E k \in req[c].keys : blob' = [blob EXCEPT ![k] = NoBody]
  /\ Return(c)
  /\ UNCHANGED <<catalog, artifacts, batched, calls, failures, history>>

(* One blob of the list; a failure is reported as an orphan and skipped. *)
BlobDelete(c) ==
  LET r == req[c] IN
  /\ r.step = "blob_delete"
  /\ \E k \in r.keys :
       /\ \/ blob' = [blob EXCEPT ![k] = NoBody] /\ UNCHANGED failures
          \/ failures < MaxFailures /\ failures' = failures + 1 /\ UNCHANGED blob
       /\ IF r.keys = {k} THEN Return(c)
          ELSE req' = [req EXCEPT ![c] = [r EXCEPT !.keys = @ \ {k}]]
  /\ UNCHANGED <<catalog, artifacts, batched, calls, history>>

(* A backend error, or the end of the process, between two backend calls. *)
Fail(c) ==
  /\ req[c].step # "idle" /\ failures < MaxFailures
  /\ failures' = failures + 1
  /\ Return(c)
  /\ UNCHANGED <<catalog, artifacts, blob, batched, calls, history>>

Quiet ==
  /\ calls = MaxCalls /\ \A c \in Callers : req[c].step = "idle"
  /\ UNCHANGED vars
------------------------------------------------------------------------------
Init ==
  /\ nodes = Works
  /\ merged_into = [n \in Ids |-> NoId]
  /\ alias = [w \in Works |-> w]
  /\ artifacts = {}
  /\ blob = [k \in Keys |-> NoBody]
  /\ req = [c \in Callers |-> Idle]
  /\ batched \in BOOLEAN
  /\ calls = 0 /\ failures = 0 /\ raced = FALSE /\ clashed = FALSE

Next ==
  \/ \E c \in Callers :
       \/ CallPutContent(c) \/ CallGetContent(c) \/ CallDeleteWork(c) \/ Merge(c)
       \/ GetAlias(c) \/ ResolveLive(c) \/ PickVersion(c) \/ BlobPut(c)
       \/ Record(c) \/ TornRecord(c) \/ CurrentArtifact(c) \/ BlobGet(c)
       \/ DeleteNetwork(c) \/ BlobDelete(c) \/ Fail(c)
  \/ Quiet

Spec == Init /\ [][Next]_vars
------------------------------------------------------------------------------
TypeOK ==
  /\ nodes \subseteq Ids /\ merged_into \in Redirection
  /\ alias \in [Works -> Ids \union {NoId}]
  /\ artifacts \subseteq Rows
  /\ blob \in [Keys -> Bodies \union {NoBody}]
  /\ req \in [Callers -> Requests]
  /\ batched \in BOOLEAN /\ raced \in BOOLEAN /\ clashed \in BOOLEAN
  /\ calls \in 0 .. MaxCalls /\ failures \in 0 .. MaxFailures

AllIdle == \A c \in Callers : req[c].step = "idle"

(* A role never loses its current version: every one that has versions has *)
(* one current, so get_content finds what put_content stored.              *)
OneCurrent ==
  \A r \in artifacts : \E q \in RowsOf(r.node, r.role) :
    q.current /\ \A p \in RowsOf(r.node, r.role) : p.current => p = q

(* The descriptor is recorded after its bytes, and removed before them:    *)
(* get_content, once it has a descriptor, never answers Pending.           *)
ReadsFindBytes ==
  \A c \in Callers : req[c].step = "blob_get" =>
    \A k \in req[c].keys : blob[k] # NoBody

(* Every descriptor's hash is that of the bytes under its key. *)
RowsMatchBytes == \A r \in artifacts : blob[r.key] = r.hash

(* "One row per stored blob": with every request answered and none cut     *)
(* short, each blob of a live work is some row's, and no two rows share    *)
(* one.  (A merge may drop a row of its loser, not the loser's blob.)      *)
OneRowPerBlob ==
  AllIdle /\ failures = 0 =>
    \A k \in Keys :
      /\ blob[k] # NoBody /\ k.node \in nodes /\ merged_into[k.node] = NoId
           => \E r \in artifacts : r.key = k
      /\ \A r, q \in artifacts : r.key = k /\ q.key = k => r = q

(* A delete erases the work's bytes: with every request answered and none  *)
(* cut short, no blob is left of a work that is gone, unless it was one    *)
(* that a merge may have absorbed.                                         *)
DeleteErases ==
  AllIdle /\ failures = 0 =>
    \A k \in Keys : blob[k] # NoBody =>
      k.node \in nodes \/ \E b \in Bridges : k.node = b[2]

(* With requests one at a time rows and blobs correspond: each row's hash  *)
(* is that of its bytes, every blob of a live work has one row, and a      *)
(* delete erases the work's bytes.                                         *)
SerialRowsMatchBytes == ~raced => RowsMatchBytes /\ OneRowPerBlob /\ DeleteErases

(* Where record is a transaction, nothing that overlaps or fails costs a   *)
(* role its current version; and unless a delete overlaps another request, *)
(* a get_content that has a descriptor finds its bytes.                    *)
VersionsServed ==
  /\ batched => OneCurrent
  /\ ~clashed => ReadsFindBytes

Live(n) == n \in nodes /\ merged_into[n] = NoId

(* Whatever overlaps, a role never has two current versions (SELECT_CURRENT *)
(* answers with one row).  That of a live work is as new as every version  *)
(* uploaded to the work itself: a merge may add newer ones, demoted, and   *)
(* may bring the current one itself if record was cut in two before.       *)
CurrentIsNewest ==
  \A r, q \in artifacts :
    r.current /\ q.node = r.node /\ q.role = r.role
    => /\ q.current => q = r
       /\ Live(r.node) /\ q.key.node = q.node /\ (batched \/ r.key.node = r.node)
            => q.version <= r.version

(* Full history: only the delete of a work, or a merge that brings two     *)
(* histories together, ever removes a version.                             *)
HistoryRetained ==
  \A r \in artifacts : r.node \in nodes' =>
    \/ \E q \in artifacts' : q.key = r.key
    \/ \E n \in nodes : merged_into[n] = NoId /\ merged_into'[n] # NoId

(* While a row names a key, the bytes there do not change. *)
BytesKept ==
  \A r \in artifacts : (\E q \in artifacts' : q.key = r.key) => blob'[r.key] = blob[r.key]

(* Full history, in any order of steps; and with requests one at a time    *)
(* "old bytes keep their key".                                             *)
HistoryKept == [][HistoryRetained /\ (~raced => BytesKept)]_vars
==============================================================================
