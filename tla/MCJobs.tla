------------------------------- MODULE MCJobs -------------------------------
(***************************************************************************)
(* Small instances of what the servers do beside the use cases: the fetch  *)
(* queue (JobQueue), the dates its rows are compared by (Calendar), the    *)
(* feed of changes to the research documents (ChangeFeed), and the fronts  *)
(* that take requests (Fronts).  A behaviour runs one of them.             *)
(***************************************************************************)
EXTENDS JobQueue, TLC

CONSTANTS
  FirstDays, Stretch,                                        \* Calendar
  Documents, Pages, Capacity, MaxEvents,                     \* ChangeFeed
  Roles, MaxWorks                                            \* Fronts

VARIABLES
  which, today,                                              \* Calendar
  editing, raw, pending, link, inbox, fetch, stale, missed,  \* ChangeFeed
  known, has                                                 \* Fronts

feedVars == <<editing, raw, pending, link, inbox, fetch, stale, missed>>
frontVars == <<known, has>>

C == INSTANCE ChangeFeed
D == INSTANCE Calendar
------------------------------------------------------------------------------
(* A DOI; DOIs that end as a route does; and one that no URL holds as it   *)
(* is and one that cuts a URL short, down to the first.                    *)
Doi == <<"doi:10.1", "a">>
MCWhole ==
  Doi :> "doi%3A10.1%2Fa" @@
  Doi \o <<"edges">> :> "doi%3A10.1%2Fa%2Fedges" @@
  Doi \o <<"artifacts">> :> "doi%3A10.1%2Fa%2Fartifacts" @@
  Doi \o <<"content", "fulltext">> :> "doi%3A10.1%2Fa%2Fcontent%2Ffulltext" @@
  <<"doi:10.1", "a<b">> :> "doi%3A10.1%2Fa%3Cb" @@
  <<"doi:10.1", "a#b">> :> "doi%3A10.1%2Fa%23b"

F == INSTANCE Fronts
     WITH Works <- DOMAIN MCWhole, Whole <- MCWhole, Schemed <- {"doi:10.1"},
          Escape <- "a<b" :> "a%3Cb", Cut <- "a#b" :> "a"
------------------------------------------------------------------------------
MCInit ==
  /\ which \in {"jobs", "feed", "dates", "fronts"}
  /\ Init /\ C!FeedInit /\ D!CalendarInit /\ F!FrontsInit
  /\ which # "dates" => today = 0

MCNext ==
  /\ \/ which = "jobs" /\ Next /\ UNCHANGED <<feedVars, today, frontVars>>
     \/ which = "feed" /\ C!FeedNext /\ UNCHANGED <<vars, today, frontVars>>
     \/ which = "dates" /\ D!DayPasses /\ UNCHANGED <<vars, feedVars, frontVars>>
     \/ which = "fronts" /\ F!FrontsNext /\ UNCHANGED <<vars, feedVars, today>>
  /\ UNCHANGED which

(* Each part's own fairness, in the behaviours that run it. *)
MCFairness ==
  /\ WF_vars(which = "jobs" /\ Claim) /\ WF_vars(which = "jobs" /\ Handle)
  /\ WF_vars(which = "jobs" /\ Settle) /\ WF_vars(which = "jobs" /\ TimePasses)
  /\ WF_feedVars(which = "feed" /\ C!TakeEvent) /\ WF_feedVars(which = "feed" /\ C!Timeout)
  /\ \A p \in Pages :
       /\ WF_feedVars(which = "feed" /\ C!Receive(p))
       /\ WF_feedVars(which = "feed" /\ C!ReadDocument(p))
       /\ WF_feedVars(which = "feed" /\ C!Show(p))

MCSpec == MCInit /\ [][MCNext]_<<which, vars, feedVars, today, frontVars>> /\ MCFairness
------------------------------------------------------------------------------
(* Rows, locals, streams and the store the fronts show are of their kinds. *)
TypesOK == TypeOK /\ C!FeedTypeOK /\ F!FrontsTypeOK

(* When the files come to rest, a page whose stream stays open comes to    *)
(* show every change that was made while it had one.                       *)
ChangesAreShown == C!ChangesAreShown

(* What the project holds in several copies comes to the same.  Every copy *)
(* of the date arithmetic agrees, and delays end when they should:         *)
(* run_after and fetched_at are compared as texts.  Both fronts do the     *)
(* same with a request, and a client's call reaches the work it names and  *)
(* hears the use case's answer, but for the exceptions that Fronts names.  *)
CopiesAgree ==
  /\ which = "dates" => D!DatesAgree
  /\ which = "fronts" => F!FrontsAgree /\ F!CallsReachTheirWork
==============================================================================
