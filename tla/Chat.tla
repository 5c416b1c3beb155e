-------------------------------- MODULE Chat --------------------------------
(***************************************************************************)
(* One chat session of the web application: its transcript in the page and *)
(* in localStorage, the loop that alternates model calls and tool calls,   *)
(* the view that starts and resumes turns, and the tool that edits a       *)
(* research document through a cache, while the page is left and entered,  *)
(* reloaded, storage fills up, and others edit the document.               *)
(*                                                                         *)
(* A message is [role, uses, results, done]: the ids of the tools it calls *)
(* or answers, and whether it is as the model ended it or still streamed.  *)
(* Text is left out.  Every tool call appends its own mark to the one      *)
(* document; a document is the set of marks in it.                         *)
(***************************************************************************)
EXTENDS Integers, FiniteSets, FiniteSetsExt, Sequences, SequencesExt

CONSTANTS
  Marks,       (* what other people add to the document                    *)
  MaxTurns,    (* bound: turns begun or resumed                            *)
  MaxRounds,   (* MAX_ITERATIONS, scaled down                              *)
  MaxUses,     (* bound: tool calls asked for                              *)
  MaxTroubles  (* bound: reloads, full storage, views left, others' edits  *)

ASSUME ChatAssumption ==
  /\ MaxTurns \in Nat /\ MaxRounds \in Nat \ {0} /\ MaxUses \in Nat /\ MaxTroubles \in Nat
  /\ Marks \intersect (0 .. MaxUses) = {}

VARIABLES
  chat,        (* the session in the page: [messages, pending]             *)
  saved,       (* the session in localStorage                              *)
  full,        (* localStorage takes no more                               *)
  open,        (* the view is on the screen, left or not                   *)
  sending,     (* the loop that this view waits for, or 0                  *)
  loops,       (* the turns that have begun, with their locals             *)
  doc, cache,  (* the document in the store, and docCache                  *)
  past         (* history: what the properties make exceptions for         *)

chatVars == <<chat, saved, full, open, sending, loops, doc, cache, past>>

Uses == 1 .. MaxUses
Unread == {0}
Gone == [messages |-> <<>>, pending |-> FALSE, deleted |-> TRUE]

Message(role, uses, results, done) ==
  [role |-> role, uses |-> uses, results |-> results, done |-> done]
UserText == Message("user", {}, {}, TRUE)
Note == Message("assistant", {}, {}, TRUE)
Results(uses) == Message("user", {}, uses, TRUE)

NoLoop == [step |-> "none", round |-> 0, uses |-> {}, base |-> <<>>]
------------------------------------------------------------------------------
(* The store of sessions: a change of a session that is deleted is none,   *)
(* and every change is written to localStorage, or logged as a failure.    *)

Becomes(session) ==
  IF chat.deleted THEN UNCHANGED <<chat, saved>>
  ELSE chat' = session /\ saved' = IF full THEN saved ELSE session

Appended(session, message) == [session EXCEPT !.messages = Append(@, message)]
Pending(session, pending) == [session EXCEPT !.pending = pending]

EndsWithAssistant(session) ==
  session.messages # <<>> /\ Last(session.messages).role = "assistant"

(* updateLastAssistantText: a text begins a message of its own, unless the *)
(* last one is the assistant's.                                            *)
Streamed(session) ==
  IF EndsWithAssistant(session) THEN session
  ELSE Appended(session, Message("assistant", {}, {}, FALSE))

(* finalizeAssistantMessage *)
Finalized(session, uses) ==
  LET message == Message("assistant", uses, {}, TRUE) IN
  IF EndsWithAssistant(session)
  THEN [session EXCEPT !.messages = Append(Front(@), message)]
  ELSE Appended(session, message)

(* A message that the model had ended is written over.                     *)
Clobbers(session) == EndsWithAssistant(session) /\ Last(session.messages).done

(* Mutant: the tool calls of an interrupted turn are passed over.          *)
PendingNone(session) == {}

(* pendingToolUses *)
PendingUses(session) ==
  IF EndsWithAssistant(session) THEN Last(session.messages).uses ELSE {}

NeedsResume == chat.pending /\ PendingUses(chat) # {}
------------------------------------------------------------------------------
(* The loop. *)

Troubled(history) == [history EXCEPT !.troubles = @ + 1]

Running == {l \in DOMAIN loops : loops[l].step # "none"}
Asked == IF past.asked = {} THEN 0 ELSE Max(past.asked)

(* The tool calls of one message all begin at once: each that finds the    *)
(* document in the cache computes its edit from that.                      *)
ToolsBegin(loop, uses) ==
  [loop EXCEPT !.step = "tools", !.uses = uses, !.base = [u \in uses |-> cache]]

(* setSending(false) of the view that waits for the loop. *)
Finished(l) ==
  /\ loops' = [loops EXCEPT ![l] = NoLoop]
  /\ sending' = IF sending = l THEN 0 ELSE sending

(* Every round begins with the session, which may have been deleted.       *)
NextRound(l, loop) ==
  IF chat.deleted THEN Finished(l)
  ELSE loops' = [loops EXCEPT ![l] = [loop EXCEPT !.step = "call", !.round = @ + 1]]
       /\ UNCHANGED sending

(* runLoop up to its first await: the tool calls that an interrupted turn  *)
(* left are answered, then the first round begins.                         *)
LoopBegins(session) ==
  LET l == Len(loops) + 1
      fresh == [NoLoop EXCEPT !.step = "call", !.round = 1]
      loop == IF PendingUses(session) = {} THEN fresh
              ELSE ToolsBegin([fresh EXCEPT !.round = 0], PendingUses(session))
  IN /\ Len(loops) < MaxTurns
     /\ Becomes(Pending(session, TRUE))
     /\ loops' = Append(loops, loop) /\ sending' = l

(* The user sends a text.  The model may be set to one that is not known:  *)
(* then that is the answer.                                                *)
Send ==
  /\ open /\ sending = 0 /\ ~chat.deleted
  /\ past' = [past EXCEPT !.overlapped = @ \/ Running # {}, !.spurned = @ \/ NeedsResume]
  /\ \/ LoopBegins(Appended(chat, UserText))
     \/ /\ Len(loops) < MaxTurns
        /\ Becomes(Appended(Appended(chat, UserText), Note))
        /\ loops' = Append(loops, NoLoop) /\ UNCHANGED sending
  /\ UNCHANGED <<full, open, doc, cache>>

Resume ==
  /\ open /\ sending = 0 /\ ~chat.deleted /\ NeedsResume
  /\ \/ /\ LoopBegins(chat)
        /\ past' = [past EXCEPT !.overlapped = @ \/ Running # {}]
     \/ /\ Len(loops) < MaxTurns
        /\ Becomes(Appended(chat, Note))
        /\ loops' = Append(loops, NoLoop) /\ UNCHANGED sending
        /\ past' = [past EXCEPT !.overlapped = @ \/ Running # {}, !.spurned = TRUE]
  /\ UNCHANGED <<full, open, doc, cache>>

StreamText(l) ==
  /\ loops[l].step = "call" /\ ~chat.deleted
  /\ Becomes(Streamed(chat))
  /\ past' = [past EXCEPT !.clobbered = @ \/ Clobbers(chat)]
  /\ UNCHANGED <<full, open, sending, loops, doc, cache>>

CallFails(l) ==
  /\ loops[l].step = "call"
  /\ Becomes(Pending(Appended(chat, Note), FALSE))
  /\ Finished(l)
  /\ UNCHANGED <<full, open, doc, cache, past>>

(* The answer is final.  Its tool calls are run if the model stopped for   *)
(* them; that it ran out of tokens, or declined, is noted.                 *)
Answer(l) ==
  \E uses \in {{}} \union {(Asked + 1) .. n : n \in Asked + 1 .. MaxUses},
     stop \in {"tool_use", "end_turn", "max_tokens"} :
    LET session == Finalized(chat, uses) IN
    /\ loops[l].step = "call"
    /\ past' = [past EXCEPT !.clobbered = @ \/ (~chat.deleted /\ Clobbers(chat)),
                            !.asked = @ \union uses,
                            !.odd = @ \/ (uses # {} <=> stop # "tool_use")]
    /\ \/ /\ stop = "tool_use"
          /\ Becomes(session)
          /\ loops' = [loops EXCEPT ![l] = ToolsBegin(@, uses)] /\ UNCHANGED sending
       \/ /\ stop # "tool_use"
          /\ Becomes(Pending(IF stop = "max_tokens" THEN Appended(session, Note) ELSE session, FALSE))
          /\ Finished(l)
    /\ UNCHANGED <<full, open, doc, cache>>

(* All tools have answered: the answers are appended, and the next round   *)
(* begins, unless the turn has had its number of them.                     *)
ToolsDone(l) ==
  /\ loops[l].step = "tools" /\ DOMAIN loops[l].base = {}
  /\ LET session == Appended(chat, Results(loops[l].uses)) IN
     IF loops[l].round = MaxRounds
     THEN Becomes(Pending(Appended(session, Note), FALSE)) /\ Finished(l)
     ELSE Becomes(session) /\ NextRound(l, loops[l])
  /\ UNCHANGED <<full, open, doc, cache, past>>
------------------------------------------------------------------------------
(* l3_edit_doc: fetch what is not in the cache, compute, PUT the whole.    *)

FetchDoc(l, u) ==
  /\ loops[l].step = "tools" /\ u \in DOMAIN loops[l].base /\ loops[l].base[u] = Unread
  /\ loops' = [loops EXCEPT ![l].base[u] = doc]
  /\ cache' = doc
  /\ UNCHANGED <<chat, saved, full, open, sending, doc, past>>

(* Mutant: the cache stays as it was read. *)
CachedAsRead(stored) == cache

(* What was stored is cached. *)
Cached(stored) == stored

Others(l, u) ==
  {other \in (DOMAIN loops) \X Uses :
     other # <<l, u>> /\ other[2] \in DOMAIN loops[other[1]].base}

(* The PUT is stored and answered, or stored with its answer lost, or      *)
(* refused; the last two are errors to the tool.                           *)
PutDoc(l, u) ==
  LET ran == [past EXCEPT !.ran[u] = @ + 1, !.crossed = @ \/ Others(l, u) # {}] IN
  /\ loops[l].step = "tools" /\ u \in DOMAIN loops[l].base /\ loops[l].base[u] # Unread
  /\ \/ /\ doc' = loops[l].base[u] \union {u}
        /\ \/ cache' = Cached(doc') /\ past' = [ran EXCEPT !.acked = @ \union {u}]
           \/ UNCHANGED cache /\ past' = ran
     \/ UNCHANGED <<doc, cache, past>>
  /\ loops' = [loops EXCEPT ![l].base =
                 [v \in DOMAIN @ \ {u} |-> @[v]]]
  /\ UNCHANGED <<chat, saved, full, open, sending>>

(* Someone else adds to the document.  What is in the page does not know.  *)
EditElsewhere ==
  \E m \in Marks \ past.made :
    /\ past.troubles < MaxTroubles
    /\ doc' = doc \union {m}
    /\ past' = [Troubled(past) EXCEPT !.made = @ \union {m},
                  !.unseen = IF cache = Unread THEN @ ELSE @ \union {m}]
    /\ UNCHANGED <<chat, saved, full, open, sending, loops, cache>>
------------------------------------------------------------------------------
(* The view is left while its turn runs on, and entered anew. *)
Leave ==
  /\ past.troubles < MaxTroubles
  /\ open /\ open' = FALSE /\ sending' = 0
  /\ past' = Troubled(past)
  /\ UNCHANGED <<chat, saved, full, loops, doc, cache>>

Enter ==
  /\ ~open /\ open' = TRUE
  /\ UNCHANGED <<chat, saved, full, sending, loops, doc, cache, past>>

(* deleteSession, in the list of sessions. *)
Delete ==
  /\ ~open /\ ~chat.deleted
  /\ chat' = Gone /\ saved' = Gone
  /\ UNCHANGED <<full, open, sending, loops, doc, cache, past>>

(* The page is reloaded: what runs in it ends, the session is read again.  *)
Reload ==
  /\ past.troubles < MaxTroubles
  /\ chat' = saved /\ cache' = Unread /\ sending' = 0
  /\ loops' = [l \in DOMAIN loops |-> NoLoop]
  /\ past' = [Troubled(past) EXCEPT !.reloads = @ + 1]
  /\ UNCHANGED <<saved, full, open, doc>>

StorageFull ==
  /\ past.troubles < MaxTroubles
  /\ ~full /\ full' = TRUE /\ past' = Troubled(past)
  /\ UNCHANGED <<chat, saved, open, sending, loops, doc, cache>>

(* Nothing runs, and the turns are spent or the session is. *)
Done ==
  /\ Running = {} /\ (Len(loops) = MaxTurns \/ chat.deleted)
  /\ UNCHANGED chatVars
------------------------------------------------------------------------------
ChatInit ==
  /\ chat = [messages |-> <<>>, pending |-> FALSE, deleted |-> FALSE]
  /\ saved = chat /\ full = FALSE /\ open = TRUE /\ sending = 0
  /\ loops = <<>> /\ doc = {} /\ cache = Unread
  /\ past = [overlapped |-> FALSE, spurned |-> FALSE, odd |-> FALSE, clobbered |-> FALSE,
             crossed |-> FALSE, asked |-> {}, acked |-> {}, made |-> {}, unseen |-> {},
             ran |-> [u \in Uses |-> 0], reloads |-> 0, troubles |-> 0]

ChatNext ==
  \/ Send \/ Resume \/ EditElsewhere \/ Leave \/ Enter \/ Delete \/ Reload \/ StorageFull \/ Done
  \/ \E l \in DOMAIN loops :
       \/ StreamText(l) \/ CallFails(l) \/ Answer(l) \/ ToolsDone(l)
       \/ \E u \in Uses : FetchDoc(l, u) \/ PutDoc(l, u)

ChatSpec == ChatInit /\ [][ChatNext]_chatVars
------------------------------------------------------------------------------
(* Sessions, loops and documents are of their kinds. *)
ChatTypeOK ==
  /\ \A s \in {chat, saved} : \A i \in DOMAIN s.messages :
       LET m == s.messages[i] IN
       /\ m.role \in {"user", "assistant"} /\ m.uses \union m.results \subseteq Uses
       /\ m.role = "user" => m.uses = {}
       /\ m.role = "assistant" => m.results = {}
  /\ full \in BOOLEAN /\ open \in BOOLEAN /\ sending \in 0 .. Len(loops)
  /\ \A l \in DOMAIN loops :
       /\ loops[l].step \in {"none", "call", "tools"}
       /\ loops[l].round \in 0 .. MaxRounds /\ DOMAIN loops[l].base \subseteq loops[l].uses
  /\ doc \subseteq Uses \union Marks /\ (cache = Unread \/ cache \subseteq Uses \union Marks)

AnsweredAt(i) == i < Len(chat.messages) /\ chat.messages[i + 1].results = chat.messages[i].uses

(* As long as no two turns of the session run at once: tool results stand  *)
(* right after the calls they answer and answer all of them, also those of *)
(* a turn that was interrupted and resumed; a message that the model has   *)
(* ended is never written over; a tool runs once, or once more for every   *)
(* time the page was reloaded.                                             *)
TurnsKeepOrder ==
  ~past.overlapped =>
    /\ \A i \in DOMAIN chat.messages :
         chat.messages[i].results # {} =>
           i > 1 /\ chat.messages[i - 1].uses = chat.messages[i].results
    /\ ~past.clobbered
    /\ \A u \in Uses : past.ran[u] <= 1 + past.reloads

(* "An interrupted turn's partial state is durable": calls that have no    *)
(* answer are being answered or can be resumed, but where the user sends a *)
(* text instead or resumes with a model that is not known, the model stops *)
(* at its calls for another reason than to make them, storage is full, or  *)
(* turns run at once.                                                      *)
InterruptedTurnsResume ==
  ~past.overlapped /\ ~past.spurned /\ ~past.odd /\ ~full =>
    \A i \in DOMAIN chat.messages :
      chat.messages[i].uses # {} =>
        \/ AnsweredAt(i)
        \/ i = Len(chat.messages) /\ (NeedsResume \/ \E l \in Running : loops[l].step = "tools")

(* A session that was deleted while its turn ran does not come back, and   *)
(* nothing else than full storage keeps the page from what is saved.       *)
SavedAsShown == (full \/ saved = chat) /\ (chat.deleted => saved.deleted)

(* An edit the tool has reported stays in the document, unless two edits   *)
(* were under way at once; what others add stays, unless it was added      *)
(* while the page had a copy.                                              *)
EditsStay ==
  /\ past.acked \subseteq doc \/ past.crossed
  /\ past.made \ past.unseen \subseteq doc \/ past.crossed

(* What is promised of a chat session. *)
ChatHolds == TurnsKeepOrder /\ InterruptedTurnsResume /\ SavedAsShown /\ EditsStay

(* "A tool_use message with no matching tool_result yet - the loop must    *)
(* answer it before continuing": no call is made with one.                 *)
UsesAnswered ==
  \A l \in DOMAIN loops : loops[l].step = "call" /\ ~past.overlapped =>
    \A i \in 1 .. Len(chat.messages) - 1 : chat.messages[i].uses # {} => AnsweredAt(i)
==============================================================================
