------------------------------ MODULE L3Files ------------------------------
(***************************************************************************)
(* The research documents as files, with the PUT handlers of the server    *)
(* (documents and agent files) and `assign-ids` at work on them, system    *)
(* call by system call, and as the objects of an R2 bucket, request by     *)
(* request.  No lock is taken anywhere.                                    *)
(*                                                                         *)
(* A name leads to an inode: a rename moves an inode that another handler  *)
(* may hold open.  A write goes over what the inode has from its start.    *)
(***************************************************************************)
EXTENDS L3Text

CONSTANTS
  Clients,     (* threads that serve PUTs                                  *)
  Backings,    (* what to run on: "fs", "r2"                               *)
  Agents,      (* names of agent files                                     *)
  Sent,        (* bodies that clients send                                 *)
  MaxPuts,     (* bound: PUTs                                              *)
  MaxAssigns,  (* bound: runs of assign-ids                                *)
  MaxCrashes   (* bound: crashes of the server or of the command           *)

ASSUME FilesAssumption ==
  /\ IsFiniteSet(Clients) /\ IsFiniteSet(Agents) /\ IsFiniteSet(Slugs) /\ Slugs # {}
  /\ Slugs \intersect Agents = {} /\ None \notin Slugs \union Agents
  /\ MaxPuts \in Nat /\ MaxAssigns \in Nat /\ MaxCrashes \in Nat

VARIABLES
  backing,     (* of this behaviour                                        *)
  file,        (* the inode of each name there is                          *)
  inode,       (* what each inode holds                                    *)
  put,         (* the locals of each PUT                                   *)
  assign,      (* the locals of assign-ids                                 *)
  puts, assigns, crashes,
  drawn,       (* history: anchors handed out                              *)
  whole,       (* history: the texts that were to be stored                *)
  kept,        (* history: what the last answered PUT of a name promised   *)
  crossed,     (* history: names two writers were at at once               *)
  met          (* history: two writers were at work at once, or one crashed *)

filesVars == <<backing, file, inode, put, assign, puts, assigns, crashes, drawn, whole, kept, crossed, met>>

Doc(s) == <<"doc", s>>
Prev(s) == <<"prev", s>>
Tmp(s) == <<"tmp", s>>

Exists(n) == n \in DOMAIN file
Read(n) == inode[file[n]]
Texts == [s \in {t \in Slugs : Exists(Doc(t))} |-> Read(Doc(s))]

(* What an inode holds after data is written from its start. *)
Overwritten(old, data) ==
  IF old = <<>> THEN data ELSE data \o SubSeq(old, Len(data) + 1, Len(old))

(* One for each name, two for each PUT, and two more: there is always one. *)
Inodes == 1 .. 3 * (Cardinality(Slugs) + Cardinality(Agents)) + 2 * Cardinality(Clients) + 2
NewInode == Min({i \in DOMAIN inode : i \notin {file[n] : n \in DOMAIN file}
                   \union {put[c].fd : c \in Clients} \union {put[c].src : c \in Clients}
                   \union {assign.fd}})
Bind(n, i) == file' = [m \in DOMAIN file \union {n} |-> IF m = n THEN i ELSE file[m]]

(* open for writing, with the file created or cut to nothing *)
Opened(n) ==
  LET i == IF Exists(n) THEN file[n] ELSE NewInode
  IN Bind(n, i) /\ inode' = [inode EXCEPT ![i] = <<>>]

NoPut == [step |-> "idle", s |-> None, body |-> <<>>, force |-> FALSE, fd |-> 0, src |-> 0,
         data |-> <<>>, alone |-> FALSE, old |-> None]
NoAssign == [step |-> "idle", todo |-> <<>>, fd |-> 0, temps |-> {}]

At(c, step) == put[c].step = step
Answered(c) == put' = [put EXCEPT ![c] = NoPut]
Goes(c, r) == put' = [put EXCEPT ![c] = r]
------------------------------------------------------------------------------
(* A PUT begins; two at one name, or with assign-ids, are not alone there. *)
Request(c) ==
  /\ At(c, "idle") /\ c = CHOOSE d \in Clients : At(d, "idle")   \* threads are alike
  /\ puts < MaxPuts /\ puts' = puts + 1
  /\ \E s \in Slugs \union Agents, b \in Sent : \E f \in IF Blocking(b) THEN BOOLEAN ELSE {FALSE} :
       LET others == {d \in Clients : ~At(d, "idle")}
           alone == assign.step = "idle" /\ \A d \in others : put[d].s # s
       IN /\ put' = [d \in Clients |->
               IF d = c THEN [NoPut EXCEPT !.step = IF s \in Agents THEN "tmp" ELSE "others",
                                          !.s = s, !.body = b, !.force = f, !.alone = alone,
                                          !.data = IF s \in Agents THEN b ELSE <<>>,
                                          !.old = IF Exists(Doc(s)) THEN Read(Doc(s)) ELSE None]
               ELSE [put[d] EXCEPT !.alone = @ /\ put[d].s # s]]
          /\ crossed' = IF alone THEN crossed
                      ELSE crossed \union {s} \union (IF assign.step = "idle" THEN {} ELSE Slugs)
          /\ met' = (met \/ others # {} \/ assign.step # "idle")
          /\ kept' = [kept EXCEPT ![s] = None]
          /\ whole' = IF s \in Agents THEN whole \union {b} ELSE whole
  /\ UNCHANGED <<backing, file, inode, assign, assigns, crashes, drawn>>

(* The other documents are read and the text is normalised.                *)
Normalized(r) ==
  NormalizeDoc(r.body, [t \in DOMAIN Texts \ {r.s} |-> Texts[t]], drawn, r.force)
ReadOthers(c) ==
  /\ At(c, "others")
  /\ \E d \in {Normalized(put[c])} :
       IF d = None THEN Answered(c) /\ UNCHANGED <<drawn, whole>>
       ELSE /\ Goes(c, [put[c] EXCEPT !.data = d, !.step = "copy"])
            /\ drawn' = drawn \union Anchors(d) /\ whole' = whole \union {d}
  /\ UNCHANGED <<backing, file, inode, assign, puts, assigns, crashes, kept, crossed, met>>

(* fs::copy opens the document and cuts the old copy to nothing ... *)
OpenCopy(c) ==
  /\ backing = "fs" /\ At(c, "copy")
  /\ IF Exists(Doc(put[c].s))
     THEN /\ Goes(c, [put[c] EXCEPT !.src = file[Doc(put[c].s)], !.step = "copy_data"])
          /\ Opened(Prev(put[c].s))
     ELSE Goes(c, [put[c] EXCEPT !.step = "tmp"]) /\ UNCHANGED <<file, inode>>
  /\ UNCHANGED <<backing, assign, puts, assigns, crashes, drawn, whole, kept, crossed, met>>

(* ... and then writes what the document's inode holds. *)
CopyData(c) ==
  /\ At(c, "copy_data") /\ Exists(Prev(put[c].s))
  /\ inode' = [inode EXCEPT ![file[Prev(put[c].s)]] = Overwritten(@, inode[put[c].src])]
  /\ Goes(c, [put[c] EXCEPT !.src = 0, !.step = "tmp"])
  /\ UNCHANGED <<backing, file, assign, puts, assigns, crashes, drawn, whole, kept, crossed, met>>

(* Mutant: a document is not renamed over but written in place. *)
OpenInPlace(c) ==
  /\ backing = "fs" /\ At(c, "tmp")
  /\ Opened(Doc(put[c].s))
  /\ LET n == Doc(put[c].s) IN
     Goes(c, [put[c] EXCEPT !.fd = IF Exists(n) THEN file[n] ELSE NewInode, !.step = "write"])
  /\ UNCHANGED <<backing, assign, puts, assigns, crashes, drawn, whole, kept, crossed, met>>

(* write_atomic: the temp file has one name for all PUTs of a document. *)
OpenTmp(c) ==
  /\ backing = "fs" /\ At(c, "tmp")
  /\ Opened(Tmp(put[c].s))
  /\ LET n == Tmp(put[c].s) IN
     Goes(c, [put[c] EXCEPT !.fd = IF Exists(n) THEN file[n] ELSE NewInode, !.step = "write"])
  /\ UNCHANGED <<backing, assign, puts, assigns, crashes, drawn, whole, kept, crossed, met>>

WriteTmp(c) ==
  /\ At(c, "write")
  /\ inode' = [inode EXCEPT ![put[c].fd] = Overwritten(@, put[c].data)]
  /\ Goes(c, [put[c] EXCEPT !.fd = 0, !.step = "rename"])
  /\ UNCHANGED <<backing, file, assign, puts, assigns, crashes, drawn, whole, kept, crossed, met>>

Promised(r) == [now |-> r.data, before |-> IF r.s \in Agents THEN None ELSE r.old]

(* 200, or 500 when another PUT has moved the temp file away. *)
Rename(c) ==
  LET r == put[c] IN
  /\ At(c, "rename")
  /\ IF Exists(Tmp(r.s))
     THEN /\ file' = [n \in (DOMAIN file \union {Doc(r.s)}) \ {Tmp(r.s)} |->
                        IF n = Doc(r.s) THEN file[Tmp(r.s)] ELSE file[n]]
          /\ kept' = IF r.alone THEN [kept EXCEPT ![r.s] = Promised(r)] ELSE kept
     ELSE UNCHANGED <<file, kept>>
  /\ Answered(c)
  /\ UNCHANGED <<backing, inode, assign, puts, assigns, crashes, drawn, whole, crossed, met>>
------------------------------------------------------------------------------
(* The same handlers over a bucket: an object is replaced whole.           *)

Replaced(n, data) ==
  LET i == NewInode IN Bind(n, i) /\ inode' = [inode EXCEPT ![i] = data]

GetPrevious(c) ==
  /\ backing = "r2" /\ At(c, "copy")
  /\ Goes(c, IF Exists(Doc(put[c].s))
             THEN [put[c] EXCEPT !.src = file[Doc(put[c].s)], !.step = "put_prev"]
             ELSE [put[c] EXCEPT !.step = "tmp"])
  /\ UNCHANGED <<backing, file, inode, assign, puts, assigns, crashes, drawn, whole, kept, crossed, met>>

PutPrevious(c) ==
  /\ At(c, "put_prev")
  /\ Replaced(Prev(put[c].s), inode[put[c].src])
  /\ Goes(c, [put[c] EXCEPT !.src = 0, !.step = "tmp"])
  /\ UNCHANGED <<backing, assign, puts, assigns, crashes, drawn, whole, kept, crossed, met>>

PutObject(c) ==
  LET r == put[c] IN
  /\ backing = "r2" /\ At(c, "tmp")
  /\ Replaced(Doc(r.s), r.data)
  /\ kept' = IF r.alone THEN [kept EXCEPT ![r.s] = Promised(r)] ELSE kept
  /\ Answered(c)
  /\ UNCHANGED <<backing, assign, puts, assigns, crashes, drawn, whole, crossed, met>>
------------------------------------------------------------------------------
(* assign-ids reads all documents, then writes the changed ones in place.  *)

Temps(ds) == CollectAnchors(ds) \intersect Temp

AssignStarts(new, changed, busy) ==
  /\ assign' = [NoAssign EXCEPT !.step = "open", !.temps = Temps(Texts),
                  !.todo = [i \in DOMAIN SetToSeq(changed) |->
                              [s |-> SetToSeq(changed)[i], data |-> new[SetToSeq(changed)[i]]]]]
  /\ drawn' = drawn \union CollectAnchors(new)
  /\ whole' = whole \union {new[s] : s \in changed}
  /\ kept' = [s \in DOMAIN kept |-> IF s \in changed THEN None ELSE kept[s]]
  /\ put' = [c \in Clients |-> [put[c] EXCEPT !.alone = FALSE]]
  /\ crossed' = (IF busy THEN crossed \union Slugs ELSE crossed) /\ met' = (met \/ busy)
AssignReads ==
  /\ backing = "fs" /\ assign.step = "idle" /\ assigns < MaxAssigns /\ assigns' = assigns + 1
  /\ ~Ambiguous(Texts)
  /\ \E new \in {AssignedDocs(Texts, drawn)} :
       AssignStarts(new, {s \in DOMAIN Texts : new[s] # Texts[s]}, \E c \in Clients : ~At(c, "idle"))
  /\ UNCHANGED <<backing, file, inode, puts, crashes>>

AssignOpens ==
  /\ assign.step = "open" /\ assign.todo # <<>>
  /\ LET n == Doc(Head(assign.todo).s) IN
     /\ Opened(n)
     /\ assign' = [assign EXCEPT !.step = "write", !.fd = IF Exists(n) THEN file[n] ELSE NewInode]
  /\ UNCHANGED <<backing, put, puts, assigns, crashes, drawn, whole, kept, crossed, met>>

AssignWrites ==
  /\ assign.step = "write"
  /\ inode' = [inode EXCEPT ![assign.fd] = Overwritten(@, Head(assign.todo).data)]
  /\ assign' = [assign EXCEPT !.step = "open", !.fd = 0, !.todo = Tail(@)]
  /\ UNCHANGED <<backing, file, put, puts, assigns, crashes, drawn, whole, kept, crossed, met>>

AssignEnds ==
  /\ assign.step = "open" /\ assign.todo = <<>>
  /\ assign' = NoAssign
  /\ UNCHANGED <<backing, file, inode, put, puts, assigns, crashes, drawn, whole, kept, crossed, met>>
------------------------------------------------------------------------------
(* The server goes down: its PUTs stop where they are. *)
ServerCrashes ==
  /\ crashes < MaxCrashes /\ crashes' = crashes + 1
  /\ \E c \in Clients : ~At(c, "idle")
  /\ put' = [c \in Clients |-> NoPut]
  /\ UNCHANGED <<backing, file, inode, assign, puts, assigns, drawn, whole, kept, crossed, met>>

(* The command is stopped between two of its calls. *)
AssignDies ==
  /\ assign.step # "idle" /\ crashes < MaxCrashes /\ crashes' = crashes + 1
  /\ assign' = NoAssign /\ crossed' = crossed \union Slugs /\ met' = TRUE
  /\ UNCHANGED <<backing, file, inode, put, puts, assigns, drawn, whole, kept>>

(* No more requests: the bounds are used up. *)
FilesQuiet ==
  /\ puts = MaxPuts /\ assign.step = "idle" /\ \A c \in Clients : At(c, "idle")
  /\ UNCHANGED filesVars

(* No file, or one document of an earlier PUT. *)
FilesInit ==
  /\ backing \in Backings
  /\ \E old \in {None} \union {NormalizeDoc(b, <<>>, {}, TRUE) : b \in Sent} :
       /\ file = [n \in IF old = None THEN {} ELSE {Doc(CHOOSE s \in Slugs : TRUE)} |-> 1]
       /\ inode = [i \in Inodes |->
                     IF i = 1 /\ old # None THEN old ELSE <<>>]
       /\ drawn = (IF old = None THEN {} ELSE Anchors(old))
       /\ whole = {old} \ {None}
  /\ put = [c \in Clients |-> NoPut] /\ assign = NoAssign
  /\ puts = 0 /\ assigns = 0 /\ crashes = 0
  /\ crossed = {} /\ met = FALSE
  /\ kept = [s \in Slugs \union Agents |-> None]

FilesNext ==
  \/ \E c \in Clients :
       \/ Request(c) \/ ReadOthers(c) \/ OpenCopy(c) \/ CopyData(c)
       \/ OpenTmp(c) \/ WriteTmp(c) \/ Rename(c)
       \/ GetPrevious(c) \/ PutPrevious(c) \/ PutObject(c)
  \/ AssignReads \/ AssignOpens \/ AssignWrites \/ AssignEnds
  \/ ServerCrashes \/ AssignDies \/ FilesQuiet

FilesSpec == FilesInit /\ [][FilesNext]_filesVars
------------------------------------------------------------------------------
FilesTypeOK ==
  /\ \A n \in DOMAIN file : file[n] \in DOMAIN inode
  /\ \A c \in Clients : put[c].fd \in {0} \union DOMAIN inode /\ put[c].src \in {0} \union DOMAIN inode
  /\ \A n, m \in DOMAIN file : file[n] = file[m] => n = m
  /\ puts \in 0 .. MaxPuts /\ assigns \in 0 .. MaxAssigns /\ crashes \in 0 .. MaxCrashes
  /\ crossed \subseteq Slugs \union Agents

(* "The fs watcher never observes a partial write": a name shows a text    *)
(* that was to be stored, whole.                                           *)
NoPartialWrites ==
  \A s \in Slugs \union Agents : Exists(Doc(s)) => Read(Doc(s)) \in whole

(* A name that one writer was at at a time (and no assign-ids is at work   *)
(* or was stopped) shows a whole text, whatever else ran or crashed; an    *)
(* answered PUT's text is there, with its predecessor beside it.           *)
PutsKept ==
  LET calm == {s \in Slugs \union Agents : s \notin crossed /\ assign.step = "idle"}
      resting == {s \in calm : \A c \in Clients : put[c].s # s}
  IN /\ \A s \in calm : Exists(Doc(s)) => Read(Doc(s)) \in whole
     /\ \A s \in resting : kept[s] # None =>
          /\ Exists(Doc(s)) /\ Read(Doc(s)) = kept[s].now
          /\ kept[s].before # None => Exists(Prev(s)) /\ Read(Prev(s)) = kept[s].before

(* If no two writers ever met, no two documents have an anchor in common.  *)
AnchorsApart ==
  ~met => \A s, t \in DOMAIN Texts : s # t => Anchors(Texts[s]) \intersect Anchors(Texts[t]) = {}

(* A run of assign-ids that is not disturbed resolves every temporary      *)
(* anchor that a heading had, in every document.                           *)
TempsResolved ==
  assign.step = "open" /\ assign.todo = <<>> /\ ~met =>
    /\ Temps(Texts) = {}
    /\ DanglingTempRefs(Texts) \intersect assign.temps = {}
==============================================================================
