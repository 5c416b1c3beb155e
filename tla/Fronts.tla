------------------------------- MODULE Fronts -------------------------------
(***************************************************************************)
(* The two fronts of a store, the native server and the Cloudflare worker, *)
(* and the clients that talk to them, the CLI and the web application: how *)
(* a call becomes a request, which handler it reaches and with which       *)
(* alias, what is answered, and what the client makes of the answer.       *)
(*                                                                         *)
(* A text with slashes is the sequence of its segments, so an alias is one *)
(* too: a DOI has a slash, and may end as a route does.  The store is what *)
(* the use cases show of it: which aliases it knows, and which roles each  *)
(* work holds.  Tokens, limits and cursors, the edges, bodies that are no  *)
(* JSON, and the routes of the documents are left out.                     *)
(***************************************************************************)
EXTENDS Naturals, FiniteSets, Sequences, SequencesExt

CONSTANTS
  Works,     (* the aliases in play, each of a work of its own             *)
  Roles,     (* roles of artifacts; "edges" and "artifacts" may be some    *)
  Schemed,   (* the segments that hold a colon                             *)
  Escape,    (* segments with characters that no URL holds -> as escaped   *)
  Cut,       (* segments with a ? or a # -> what is before it              *)
  Whole,     (* aliases -> their one segment by encodeURIComponent         *)
  MaxWorks   (* bound: works in the store                                  *)

VARIABLES
  known,     (* aliases of works                                           *)
  has        (* [Works \X Roles]: nothing, bytes, or a row without bytes   *)

frontVars == <<known, has>>
Store == [known |-> known, has |-> has]
------------------------------------------------------------------------------
(* What the use cases answer: a kind of result, what it is about, and the  *)
(* store after it.  An alias that nothing has is unknown.                  *)

Done(is, facts, S) == [is |-> is, facts |-> facts, next |-> S]
Rows(S, a, role) == {<<a, r>> : r \in {q \in Roles : S.has[a, q] # "nothing" /\ role \in {q, ""}}}
IfKnown(S, a, result, otherwise) == IF a \in S.known THEN result ELSE Done(otherwise, {}, S)

GetWork(S, a) == IfKnown(S, a, Done("ok", {<<a, "">>}, S), "none")
ListArtifacts(S, a, role) == IfKnown(S, a, Done("ok", Rows(S, a, role), S), "not_found")
GetEdges(S, a) == Done("ok", {a} \intersect S.known, S)
GetContent(S, a, role) ==
  IfKnown(S, a, CASE S.has[a, role] = "nothing" -> Done("absent", {}, S)
                  [] S.has[a, role] = "lost"    -> Done("pending", {}, S)
                  [] S.has[a, role] = "kept"    -> Done("ok", {<<a, role>>}, S), "absent")
PutContent(S, a, role) ==
  IfKnown(S, a, Done("ok", {}, [S EXCEPT !.has[a, role] = "kept"]), "not_found")
DeleteWork(S, a, dry) ==
  IfKnown(S, a, Done("ok", {<<a, "">>} \union Rows(S, a, ""),
                     IF dry THEN S
                     ELSE [known |-> S.known \ {a},
                           has |-> [p \in DOMAIN S.has |-> IF p[1] = a THEN "nothing" ELSE S.has[p]]]),
          "not_found")
PutAliases(S, ids) == Done("ok", ids, [S EXCEPT !.known = @ \union ids])
------------------------------------------------------------------------------
(* Requests and answers.                                                   *)

Request(method, path, params, role, ids) ==
  [method |-> method, path |-> path, params |-> params, role |-> role, ids |-> ids]
Answer(status, body, facts, S) == [status |-> status, body |-> body, facts |-> facts, next |-> S]

ParseAlias(text) == \E i \in DOMAIN text : text[i] \in Schemed
EndsIn(text, word) == Len(text) > 1 /\ Last(text) = word

(* rfind("/content/"): the last one that something precedes and follows.   *)
ContentAt(text) == {i \in 2 .. Len(text) - 1 : text[i] = "content" /\ \A j \in i + 1 .. Len(text) - 1 : text[j] # "content"}

(* parse_derived_from: both or none. *)
DerivedFromOk(params) == "derived_from_role" \in params <=> "derived_from_version" \in params

DomainStatus(is) ==
  CASE is \in {"not_found", "none", "absent"} -> 404
    [] is = "pending" -> 202
    [] is = "backend" -> 500

(* Unless a check fails, the store is asked, which may fail.               *)
Reply(checks, fails, result, body, S) ==
  IF ~checks THEN Answer(400, "text", {}, S)
  ELSE IF fails THEN Answer(DomainStatus("backend"), "text", {}, S)
  ELSE IF result.is = "ok" THEN Answer(200, body, result.facts, result.next)
  ELSE Answer(DomainStatus(result.is), "text", {}, S)
------------------------------------------------------------------------------
(* The native server: the router takes a fixed path before the wildcard,   *)
(* answers 405 to a method it has no handler for, and decodes what the     *)
(* wildcard took before it is looked at.                                   *)

Decode(segment) ==
  IF \E w \in Works : Whole[w] = segment THEN CHOOSE w \in Works : Whole[w] = segment
  ELSE IF \E s \in DOMAIN Escape : Escape[s] = segment THEN <<CHOOSE s \in DOMAIN Escape : Escape[s] = segment>>
  ELSE <<segment>>
Decoded(path) == FlattenSeq([i \in DOMAIN path |-> Decode(path[i])])

(* Mutant: the sub-resources are looked for in another order. *)
HandlerWorksGetContentFirst(rest, req, S, fails) ==
  IF ContentAt(rest) # {}
  THEN LET i == CHOOSE i \in ContentAt(rest) : TRUE
           role == SubSeq(rest, i + 1, Len(rest))
       IN Reply(ParseAlias(SubSeq(rest, 1, i - 1)) /\ Len(role) = 1 /\ role[1] \in Roles,
                fails, GetContent(S, SubSeq(rest, 1, i - 1), role[1]), "bytes", S)
  ELSE Reply(ParseAlias(rest), fails, GetWork(S, rest), "json", S)

HandlerWorksGet(rest, req, S, fails) ==
  IF EndsIn(rest, "edges")
  THEN Reply(ParseAlias(Front(rest)) /\ "dir" \in req.params, fails, GetEdges(S, Front(rest)), "json", S)
  ELSE IF EndsIn(rest, "artifacts")
  THEN Reply(ParseAlias(Front(rest)) /\ req.role \in Roles \union {""},
             fails, ListArtifacts(S, Front(rest), req.role), "json", S)
  ELSE IF ContentAt(rest) # {}
  THEN LET i == CHOOSE i \in ContentAt(rest) : TRUE
           role == SubSeq(rest, i + 1, Len(rest))
       IN Reply(ParseAlias(SubSeq(rest, 1, i - 1)) /\ Len(role) = 1 /\ role[1] \in Roles,
                fails, GetContent(S, SubSeq(rest, 1, i - 1), role[1]), "bytes", S)
  ELSE LET found == GetWork(S, rest)
       IN Reply(ParseAlias(rest), fails,
                IF found.is = "ok" THEN [found EXCEPT !.facts = @ \union Rows(S, rest, "")] ELSE found, "json", S)

HandlerWorksPut(rest, req, S, fails) ==
  IF ContentAt(rest) = {} THEN Answer(404, "text", {}, S)
  ELSE LET i == CHOOSE i \in ContentAt(rest) : TRUE
           role == SubSeq(rest, i + 1, Len(rest))
       IN Reply(/\ ParseAlias(SubSeq(rest, 1, i - 1)) /\ Len(role) = 1 /\ role[1] \in Roles
                /\ "mime" \in req.params /\ DerivedFromOk(req.params),
                fails, PutContent(S, SubSeq(rest, 1, i - 1), role[1]), "empty", S)

HandlerWorksDelete(rest, req, S, fails) ==
  Reply(ParseAlias(rest), fails, DeleteWork(S, rest, "dry_run" \in req.params), "json", S)

Routes ==
  {<<"POST", <<"works", "have">>, "have">>, <<"PUT", <<"works">>, "put_work">>,
   <<"GET", <<"works">>, "search">>, <<"PUT", <<"edges">>, "put_edges">>,
   <<"POST", <<"jobs">>, "post_job">>, <<"POST", <<"graph", "neighborhood">>, "neighborhood">>,
   <<"GET", <<"stats">>, "stats">>, <<"GET", <<"export", "nodes">>, "export_nodes">>,
   <<"GET", <<"export", "edges">>, "export_edges">>,
   <<"GET", <<"export", "artifacts">>, "export_artifacts">>, <<"GET", <<"health">>, "health">>}

(* Handlers that take aliases from the body: of a list of texts, those     *)
(* that do not parse are passed over.                                      *)
HandlerBodies(handler, req, S, fails) ==
  LET ids == {a \in req.ids : ParseAlias(a)}
  IN CASE handler = "have" -> Reply(TRUE, fails, Done("ok", ids \intersect S.known, S), "json", S)
       [] handler = "neighborhood" ->
            Reply("dir" \in req.params, fails, Done("ok", ids \intersect S.known, S), "json", S)
       [] handler \in {"put_work", "put_edges"} -> Reply(TRUE, fails, PutAliases(S, req.ids), "json", S)

(* A search needs a filter, or a role that the works are to hold.          *)
HandlerSearchWorks(req, S, fails) ==
  Reply(req.role \in Roles \/ (req.role = "" /\ "filter" \in req.params), fails,
        Done("ok", {a \in S.known : req.role # "" => S.has[a, req.role] # "nothing"}, S), "json", S)

HandlerListings(handler, S, fails) ==
  CASE handler \in {"stats", "export_nodes"} -> Reply(TRUE, fails, Done("ok", S.known, S), "json", S)
    [] handler = "export_artifacts" ->
         Reply(TRUE, fails, Done("ok", UNION {Rows(S, a, "") : a \in S.known}, S), "json", S)
    [] handler = "export_edges" -> Reply(TRUE, fails, Done("ok", {}, S), "json", S)
    [] handler = "health" -> Answer(200, "json", {}, S)
    [] handler = "post_job" ->
         IF fails THEN Answer(500, "text", {}, S) ELSE Answer(202, "json", {}, S)

HandlerFixed(handler, req, S, fails) ==
  CASE handler \in {"have", "neighborhood", "put_work", "put_edges"} -> HandlerBodies(handler, req, S, fails)
    [] handler = "search" -> HandlerSearchWorks(req, S, fails)
    [] OTHER -> HandlerListings(handler, S, fails)

Server(req, S, fails) ==
  LET fixed == {r \in Routes : r[2] = req.path}
      rest == Decoded(Tail(req.path))
  IN CASE fixed # {} ->
            IF \E r \in fixed : r[1] = req.method
            THEN HandlerFixed((CHOOSE r \in fixed : r[1] = req.method)[3], req, S, fails)
            ELSE Answer(405, "text", {}, S)
       [] fixed = {} /\ req.path[1] = "works" ->
            CASE req.method = "GET"    -> HandlerWorksGet(rest, req, S, fails)
              [] req.method = "PUT"    -> HandlerWorksPut(rest, req, S, fails)
              [] req.method = "DELETE" -> HandlerWorksDelete(rest, req, S, fails)
              [] req.method = "POST"   -> Answer(405, "text", {}, S)
       [] fixed = {} /\ req.path[1] # "works" -> Answer(404, "text", {}, S)
------------------------------------------------------------------------------
(* The worker: one function looks at method and path in turn and falls     *)
(* through to 404.  It takes the path from the URL as it came, escapes     *)
(* and all.  It has no job queue, deletes nothing, and the record of a     *)
(* work comes without its artifacts.                                       *)

HandleGet(rest, req, S, fails) ==
  IF EndsIn(rest, "edges")
  THEN Reply(ParseAlias(Front(rest)) /\ "dir" \in req.params, fails, GetEdges(S, Front(rest)), "json", S)
  ELSE IF EndsIn(rest, "artifacts")
  THEN Reply(ParseAlias(Front(rest)) /\ req.role \in Roles \union {""},
             fails, ListArtifacts(S, Front(rest), req.role), "json", S)
  ELSE IF ContentAt(rest) # {}
  THEN LET i == CHOOSE i \in ContentAt(rest) : TRUE
           role == SubSeq(rest, i + 1, Len(rest))
       IN Reply(ParseAlias(SubSeq(rest, 1, i - 1)) /\ Len(role) = 1 /\ role[1] \in Roles,
                fails, GetContent(S, SubSeq(rest, 1, i - 1), role[1]), "bytes", S)
  ELSE Reply(ParseAlias(rest), fails, GetWork(S, rest), "json", S)

HandlePut(rest, req, S, fails) ==
  IF ContentAt(rest) = {} THEN Answer(404, "text", {}, S)
  ELSE LET i == CHOOSE i \in ContentAt(rest) : TRUE
           role == SubSeq(rest, i + 1, Len(rest))
       IN Reply(/\ ParseAlias(SubSeq(rest, 1, i - 1)) /\ Len(role) = 1 /\ role[1] \in Roles
                /\ "mime" \in req.params /\ DerivedFromOk(req.params),
                fails, PutContent(S, SubSeq(rest, 1, i - 1), role[1]), "empty", S)

HandleFixed(req, S, fails) ==
  LET ids == {a \in req.ids : ParseAlias(a)}
      is(method, path) == req.method = method /\ req.path = path
      reply(checks, result) == Reply(checks, fails, result, "json", S)
  IN CASE is("GET", <<"health">>) -> Answer(200, "json", {}, S)
       [] is("POST", <<"works", "have">>) -> reply(TRUE, Done("ok", ids \intersect S.known, S))
       [] is("PUT", <<"works">>) \/ is("PUT", <<"edges">>) -> reply(TRUE, PutAliases(S, req.ids))
       [] is("GET", <<"works">>) ->
            reply(req.role \in Roles \/ (req.role = "" /\ "filter" \in req.params),
                  Done("ok", {a \in S.known : req.role # "" => S.has[a, req.role] # "nothing"}, S))
       [] is("POST", <<"graph", "neighborhood">>) ->
            reply("dir" \in req.params, Done("ok", ids \intersect S.known, S))
       [] is("GET", <<"stats">>) \/ is("GET", <<"export", "nodes">>) -> reply(TRUE, Done("ok", S.known, S))
       [] is("GET", <<"export", "edges">>) -> reply(TRUE, Done("ok", {}, S))
       [] is("GET", <<"export", "artifacts">>) ->
            reply(TRUE, Done("ok", UNION {Rows(S, a, "") : a \in S.known}, S))
       [] OTHER -> Answer(404, "text", {}, S)

Worker(req, S, fails) ==
  LET fixed == HandleFixed(req, S, fails)
      rest == Tail(req.path)
  IN IF fixed.status # 404 \/ req.path[1] # "works" \/ rest = <<>> THEN fixed
     ELSE IF req.method = "GET" THEN HandleGet(rest, req, S, fails)
     ELSE IF req.method = "PUT" THEN HandlePut(rest, req, S, fails)
     ELSE fixed

Answered(end, req, S, fails) == IF end = "server" THEN Server(req, S, fails) ELSE Worker(req, S, fails)
------------------------------------------------------------------------------
(* The clients.  The CLI writes an alias into the path as it is, and the   *)
(* URL library escapes what a URL cannot hold; what follows a ? or a # is  *)
(* no longer path.  The web application escapes all of it.                 *)

Calls ==
  [by : {"cli", "web"}, op : {"get_work"}, work : Works, role : {""}, dry : {FALSE}]
    \union [by : {"cli"}, op : {"list_artifacts"}, work : Works, role : Roles \union {""}, dry : {FALSE}]
    \union [by : {"cli"}, op : {"get_content", "put_content"}, work : Works, role : Roles, dry : {FALSE}]
    \union [by : {"web"}, op : {"get_content"}, work : Works, role : Roles, dry : {FALSE}]
    \union [by : {"cli"}, op : {"delete_work"}, work : Works, role : {""}, dry : BOOLEAN]
    \union [by : {"cli"}, op : {"search_works"}, work : Works, role : Roles, dry : {FALSE}]
    \union [by : {"cli"}, op : {"have", "put_work", "put_edges", "neighborhood", "stats"}, work : Works, role : {""}, dry : {FALSE}]

Cuts(w) == {i \in DOMAIN w : w[i] \in DOMAIN Cut /\ \A j \in 1 .. i - 1 : w[j] \notin DOMAIN Cut}
Escaped(w) == [i \in DOMAIN w |-> IF w[i] \in DOMAIN Escape THEN Escape[w[i]] ELSE w[i]]

Path(by, w, resource) ==
  IF by = "web" THEN <<"works", Whole[w]>> \o resource
  ELSE IF Cuts(w) = {} THEN <<"works">> \o Escaped(w) \o resource
  ELSE LET i == CHOOSE i \in Cuts(w) : TRUE
       IN <<"works">> \o Escaped(SubSeq(w, 1, i - 1)) \o <<Cut[w[i]]>>

Sent(c) ==
  CASE c.op = "get_work"       -> Request("GET", Path(c.by, c.work, <<>>), {}, "", {})
    [] c.op = "list_artifacts" -> Request("GET", Path(c.by, c.work, <<"artifacts">>), {}, c.role, {})
    [] c.op = "get_content"    -> Request("GET", Path(c.by, c.work, <<"content", c.role>>), {}, "", {})
    [] c.op = "put_content"    -> Request("PUT", Path(c.by, c.work, <<"content", c.role>>), {"mime"}, "", {})
    [] c.op = "delete_work"    -> Request("DELETE", Path(c.by, c.work, <<>>),
                                          IF c.dry THEN {"dry_run"} ELSE {}, "", {})
    [] c.op = "have"           -> Request("POST", <<"works", "have">>, {}, "", {c.work})
    [] c.op = "put_work"       -> Request("PUT", <<"works">>, {}, "", {c.work})
    [] c.op = "put_edges"      -> Request("PUT", <<"edges">>, {}, "", {c.work})
    [] c.op = "neighborhood"   -> Request("POST", <<"graph", "neighborhood">>, {"dir"}, "", {c.work})
    [] c.op = "search_works"   -> Request("GET", <<"works">>, {}, c.role, {})
    [] c.op = "stats"          -> Request("GET", <<"stats">>, {}, "", {})

(* What the methods of StoreClient, and the web application's readers,     *)
(* make of an answer: 404 is an answer to those that ask for one thing,    *)
(* everything else but success an error, as are bytes where JSON should be. *)
Heard(op, answer) ==
  LET asks == op \in {"get_work", "list_artifacts", "get_content", "delete_work"}
      is == CASE answer.status = 404 /\ asks -> "absent"
              [] answer.status = 202 /\ op = "get_content" -> "pending"
              [] answer.status = 200 /\ (op = "get_content" \/ answer.body # "bytes") -> "ok"
              [] OTHER -> "error"
  IN [is |-> is, facts |-> IF is = "ok" THEN answer.facts ELSE {}]
------------------------------------------------------------------------------
(* A store knows a work whose roles it holds. *)
FrontsTypeOK ==
  /\ known \subseteq Works
  /\ has \in [Works \X Roles -> {"nothing", "kept", "lost"}]
  /\ \A p \in DOMAIN has : has[p] # "nothing" => p[1] \in known

FrontsInit ==
  /\ known = {}
  /\ has = [p \in Works \X Roles |-> "nothing"]

(* A client's call at either front. *)
Call(end, c) ==
  LET after == Answered(end, Sent(c), Store, FALSE).next
  IN /\ Cardinality(after.known) <= MaxWorks
     /\ known' = after.known /\ has' = after.has

(* Bytes are gone, or not there yet, under a row that is. *)
LoseBytes(a, role) ==
  /\ has[a, role] = "kept"
  /\ has' = [has EXCEPT ![a, role] = "lost"]
  /\ UNCHANGED known

FrontsNext ==
  \/ \E end \in {"server", "worker"}, c \in Calls : Call(end, c)
  \/ \E a \in Works, role \in Roles : LoseBytes(a, role)
------------------------------------------------------------------------------
(* What a call is for: the use case, of the work it names.                 *)
Meant(c, S) ==
  CASE c.op = "get_work"       -> GetWork(S, c.work)
    [] c.op = "list_artifacts" -> ListArtifacts(S, c.work, c.role)
    [] c.op = "get_content"    -> GetContent(S, c.work, c.role)
    [] c.op = "put_content"    -> PutContent(S, c.work, c.role)
    [] c.op = "delete_work"    -> DeleteWork(S, c.work, c.dry)
    [] c.op \in {"have", "neighborhood"} -> Done("ok", {c.work} \intersect S.known, S)
    [] c.op = "search_works"   -> Done("ok", {a \in S.known : S.has[a, c.role] # "nothing"}, S)
    [] c.op = "stats"          -> Done("ok", S.known, S)
    [] c.op \in {"put_work", "put_edges"} -> PutAliases(S, {c.work})

(* What the caller is to hear of it: that nothing is there is an answer to *)
(* a question and a failure of a command.                                  *)
ToHear(end, c, S, fails) ==
  LET result == Meant(c, S)
      nothing == result.is \in {"none", "absent", "not_found"}
  IN IF fails \/ (nothing /\ c.op = "put_content") THEN [is |-> "error", facts |-> {}]
     ELSE IF nothing THEN [is |-> "absent", facts |-> {}]
     ELSE [is |-> result.is,
           facts |-> result.facts \union
                       IF c.op = "get_work" /\ end = "server" THEN Rows(S, c.work, "") ELSE {}]

(* The alias is in the body, not in the path. *)
InBody(c) == c.op \in {"have", "put_work", "put_edges", "neighborhood", "search_works", "stats"}

(* The path is one of another route: an alias that ends as a route does,   *)
(* asked for itself, or the content of a role that is a route's name.      *)
Shadowed(c) ==
  \/ c.op = "get_work" /\ (EndsIn(c.work, "edges") \/ EndsIn(c.work, "artifacts") \/ ContentAt(c.work) # {})
  \/ c.op = "get_content" /\ c.role \in {"edges", "artifacts"}

(* A ? or a # in an alias ends the path that the CLI writes.               *)
CutShort(c) == c.by = "cli" /\ Cuts(c.work) # {}

(* The worker takes escapes for the alias, and has no DELETE.              *)
WorkerRefuses(c) == c.by = "web" \/ Escaped(c.work) # c.work \/ c.op = "delete_work"

(* Through either front a caller hears of a work what the use case says of *)
(* the work that the alias names, and changes that one; an error of the    *)
(* store is an error, never an absence.  Where the worker does not take    *)
(* the path it changes nothing, and there is no success to hear.           *)
CallsReachTheirWork ==
  \A end \in {"server", "worker"}, c \in Calls, fails \in BOOLEAN :
    LET answer == Answered(end, Sent(c), Store, fails)
        heard == Heard(c.op, answer)
    IN /\ InBody(c) \/ ~(Shadowed(c) \/ CutShort(c) \/ (end = "worker" /\ WorkerRefuses(c)))
          => /\ heard = ToHear(end, c, Store, fails)
             /\ answer.next = IF fails THEN Store ELSE Meant(c, Store).next
       /\ end = "worker" /\ WorkerRefuses(c) /\ ~CutShort(c) /\ ~InBody(c)
          => answer.next = Store /\ heard.is \in {"absent", "error"}

Paths ==
  {r[2] : r \in Routes}
    \union {<<"works">> \o w \o resource :
              w \in Works \union {<<"nameless">>},
              resource \in {<<>>, <<"edges">>, <<"artifacts">>, <<"content", "fulltext">>, <<"content", "BAD">>}}

(* "Mirrors apps/server exactly": whatever one front does with a request,  *)
(* deletions and jobs aside, the other does, but that the worker's record  *)
(* of a work leaves out its artifacts; what one refuses, the other does.   *)
FrontsAgree ==
  \A method \in {"GET", "PUT", "POST"}, path \in Paths \ {<<"jobs">>},
     params \in {{}, {"dir", "filter"}, {"mime"}, {"mime", "derived_from_role"}},
     role \in {"", "BAD"} \union Roles :
    LET req == Request(method, path, params, role, Works)
        one == Server(req, Store, FALSE)
        other == Worker(req, Store, FALSE)
    IN /\ one.next = other.next
       /\ one.status = other.status \/ {one.status, other.status} \subseteq {400, 404, 405}
       /\ other.facts \subseteq one.facts
       /\ one.facts # other.facts => method = "GET" /\ ContentAt(path) = {} /\ one.body = "json"
==============================================================================
