----------------------------- MODULE ChangeFeed -----------------------------
(***************************************************************************)
(* From an edit of a research document to the page that shows the graph:   *)
(* the watcher's thread with its debounce, the broadcast channel, the      *)
(* event stream of each page, and the page's fetches.                      *)
(*                                                                         *)
(* What a page shows is told by the documents that have changed since they *)
(* were read for it.                                                       *)
(***************************************************************************)
EXTENDS Naturals, Sequences

CONSTANTS
  Documents,   (* research documents                                       *)
  Pages,       (* pages that are open                                      *)
  Capacity,    (* of the broadcast channel                                 *)
  MaxEvents    (* bound: file events the watcher has not taken             *)

VARIABLES
  editing,     (* a user or an agent is at work on the files               *)
  raw,         (* file events not taken yet: of a document or not          *)
  pending,     (* the watcher's local                                      *)
  link,        (* each page's event stream                                 *)
  inbox,       (* signals in each page's stream                            *)
  fetch,       (* each page's last request for the graph, if not answered  *)
  stale,       (* documents changed since the graph that is shown          *)
  missed       (* history: those changed while the page had no stream      *)

feedVars == <<editing, raw, pending, link, inbox, fetch, stale, missed>>

NoFetch == [on |-> FALSE, todo |-> {}, stale |-> {}]
Asked == [on |-> TRUE, todo |-> Documents, stale |-> {}]
Linked(p) == link[p] = "open"
------------------------------------------------------------------------------
StartOrStop ==
  /\ editing' = ~editing
  /\ UNCHANGED <<raw, pending, link, inbox, fetch, stale, missed>>

Change(d) ==
  /\ editing /\ Len(raw) < MaxEvents
  /\ raw' = Append(raw, TRUE)
  /\ stale' = [p \in Pages |-> stale[p] \union {d}]
  /\ fetch' = [p \in Pages |->
       IF fetch[p].on /\ d \notin fetch[p].todo THEN [fetch[p] EXCEPT !.stale = @ \union {d}]
       ELSE fetch[p]]
  /\ missed' = [p \in Pages |-> IF Linked(p) THEN missed[p] ELSE missed[p] \union {d}]
  /\ UNCHANGED <<editing, pending, link, inbox>>

(* A file that is no document: `.tmp`, `.prev`, an agent's file.           *)
OtherChange ==
  /\ editing /\ Len(raw) < MaxEvents
  /\ raw' = Append(raw, FALSE)
  /\ UNCHANGED <<editing, pending, link, inbox, fetch, stale, missed>>
------------------------------------------------------------------------------
(* The watcher. *)

(* Mutant: the last event alone says whether a signal is due. *)
TakeEventForgetting ==
  /\ raw # <<>>
  /\ raw' = Tail(raw) /\ pending' = Head(raw)
  /\ UNCHANGED <<editing, link, inbox, fetch, stale, missed>>

TakeEvent ==
  /\ raw # <<>>
  /\ raw' = Tail(raw) /\ pending' = (pending \/ Head(raw))
  /\ UNCHANGED <<editing, link, inbox, fetch, stale, missed>>

(* No event for the debounce time: every stream gets a signal, and one that *)
(* has fallen behind loses its oldest.                                      *)
Timeout ==
  /\ raw = <<>> /\ pending /\ pending' = FALSE
  /\ inbox' = [p \in Pages |->
       IF Linked(p) /\ inbox[p] < Capacity THEN inbox[p] + 1 ELSE inbox[p]]
  /\ UNCHANGED <<editing, raw, link, fetch, stale, missed>>
------------------------------------------------------------------------------
(* A page asks for the graph as it is created, and for the stream when it  *)
(* is mounted.                                                             *)
Load(p) ==
  /\ link[p] = "none"
  /\ link' = [link EXCEPT ![p] = "first"] /\ fetch' = [fetch EXCEPT ![p] = Asked]
  /\ UNCHANGED <<editing, raw, pending, inbox, stale, missed>>

Subscribe(p) ==
  /\ link[p] \in {"first", "lost"}
  /\ link' = [link EXCEPT ![p] = "open"] /\ inbox' = [inbox EXCEPT ![p] = 0]
  /\ UNCHANGED <<editing, raw, pending, fetch, stale, missed>>

(* A stream that was never open is given up; one that was is retried, and  *)
(* what it held is gone.                                                   *)
Refused(p) ==
  /\ link[p] = "first" /\ link' = [link EXCEPT ![p] = "given_up"]
  /\ UNCHANGED <<editing, raw, pending, inbox, fetch, stale, missed>>

Lost(p) ==
  /\ Linked(p) /\ link' = [link EXCEPT ![p] = "lost"] /\ inbox' = [inbox EXCEPT ![p] = 0]
  /\ missed' = [missed EXCEPT ![p] = @ \union stale[p] \union fetch[p].stale]
  /\ UNCHANGED <<editing, raw, pending, fetch, stale>>

(* Every signal begins a request; the answer of an older one is not used.  *)
Receive(p) ==
  /\ Linked(p) /\ inbox[p] > 0
  /\ inbox' = [inbox EXCEPT ![p] = @ - 1] /\ fetch' = [fetch EXCEPT ![p] = Asked]
  /\ UNCHANGED <<editing, raw, pending, link, stale, missed>>

(* The server parses one document after the other. *)
ReadDocument(p) ==
  /\ \E d \in fetch[p].todo : fetch' = [fetch EXCEPT ![p].todo = @ \ {d}]
  /\ UNCHANGED <<editing, raw, pending, link, inbox, stale, missed>>

Show(p) ==
  /\ fetch[p].on /\ fetch[p].todo = {}
  /\ stale' = [stale EXCEPT ![p] = fetch[p].stale]
  /\ missed' = [missed EXCEPT ![p] = @ \intersect fetch[p].stale]
  /\ fetch' = [fetch EXCEPT ![p] = NoFetch]
  /\ UNCHANGED <<editing, raw, pending, link, inbox>>

(* Until it has loaded, a page shows nothing: nothing of it is stale. *)
FeedInit ==
  /\ editing = FALSE /\ raw = <<>> /\ pending = FALSE
  /\ link = [p \in Pages |-> "none"] /\ inbox = [p \in Pages |-> 0]
  /\ fetch = [p \in Pages |-> NoFetch]
  /\ stale = [p \in Pages |-> {}] /\ missed = [p \in Pages |-> {}]

FeedNext ==
  \/ StartOrStop \/ OtherChange \/ TakeEvent \/ Timeout
  \/ \E d \in Documents : Change(d)
  \/ \E p \in Pages : \/ Load(p) \/ Subscribe(p) \/ Refused(p) \/ Lost(p)
                      \/ Receive(p) \/ ReadDocument(p) \/ Show(p)

(* The watcher's thread runs, and answers arrive. *)
FeedFairness ==
  /\ WF_feedVars(TakeEvent) /\ WF_feedVars(Timeout)
  /\ \A p \in Pages : WF_feedVars(Receive(p)) /\ WF_feedVars(ReadDocument(p)) /\ WF_feedVars(Show(p))

FeedSpec == FeedInit /\ [][FeedNext]_feedVars /\ FeedFairness
------------------------------------------------------------------------------
FeedTypeOK ==
  /\ raw \in Seq(BOOLEAN) /\ Len(raw) <= MaxEvents
  /\ link \in [Pages -> {"none", "first", "open", "lost", "given_up"}]
  /\ inbox \in [Pages -> 0 .. Capacity]
  /\ fetch \in [Pages -> [on : BOOLEAN, todo : SUBSET Documents, stale : SUBSET Documents]]
  /\ stale \in [Pages -> SUBSET Documents] /\ missed \in [Pages -> SUBSET Documents]

(* When the files come to rest, a page whose stream stays open comes to    *)
(* show every change that was made while it had one.                       *)
ChangesAreShown ==
  \A p \in Pages : <>[](~editing /\ Linked(p)) => <>[](stale[p] \subseteq missed[p])
==============================================================================
