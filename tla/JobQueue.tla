------------------------------ MODULE JobQueue ------------------------------
(***************************************************************************)
(* The background fetch queue: the fetch_jobs table, POST /jobs, and the   *)
(* worker loop of the server, which claims a batch of jobs, drives each    *)
(* through its handler and records the outcome.                            *)
(*                                                                         *)
(* Time is counted in units of the backoff's base (30 s), and relative: a  *)
(* row keeps the time left until run_after and the time since the tick     *)
(* that last claimed it began.  A row's position is its created_at.        *)
(***************************************************************************)
EXTENDS Naturals, Sequences, FiniteSets

CONSTANTS
  Targets,      (* (kind, target_id) pairs                                 *)
  Handled,      (* those whose kind has a handler                          *)
  MaxAttempts,  (* BackoffPolicy.max_attempts                              *)
  Factor,       (* BackoffPolicy.factor                                    *)
  Cap,          (* the longest backoff, one hour                           *)
  BatchSize,    (* jobs claimed by one tick                                *)
  MaxJobs,      (* bound: rows ever inserted                               *)
  MaxLosses     (* bound: ticks cut short                                  *)

ASSUME JobQueueAssumption ==
  /\ Handled \subseteq Targets
  /\ MaxAttempts \in Nat \ {0} /\ Factor \in Nat \ {0} /\ Cap \in Nat \ {0}
  /\ BatchSize \in Nat \ {0} /\ MaxJobs \in Nat /\ MaxLosses \in Nat

(* A fact of arithmetic that the proofs cannot derive: powers are naturals. *)
ASSUME PowersAssumption == \A n \in 0 .. MaxAttempts : Factor ^ n \in Nat

VARIABLES
  jobs,       (* rows [target, state, attempts, due, since]                *)
  batch,      (* the jobs this tick has claimed and not yet settled        *)
  hand,       (* <<job, outcome>> of the job whose handler returned, or <<>> *)
  losses,     (* counter of the bound                                      *)
  runs,       (* history: how often each job's handler ran                 *)
  succeeded,  (* history: the jobs whose handler returned Ok               *)
  lost        (* history: the jobs whose tick was cut short                *)

vars == <<jobs, batch, hand, losses, runs, succeeded, lost>>

Times == 0 .. Cap

Rows == [target : Targets, state : {"pending", "running", "done", "failed"},
         attempts : 0 .. MaxAttempts, due : Times, since : Times]

Ids == 1 .. Len(jobs)

(* Mutant: a unique index that covers the pending rows only. *)
ActivePending(i) == jobs[i].state = "pending"

Active(i) == jobs[i].state \in {"pending", "running"}

(* The product and the power saturate long before u64 does. *)
Backoff(attempts) == LET d == Factor ^ attempts IN IF d < Cap THEN d ELSE Cap

Monus(m, n) == IF m > n THEN m - n ELSE 0
------------------------------------------------------------------------------
(* ENQUEUE_INSERT: ux_fetch_jobs_active ignores it while a job is active.  *)
Enqueue(t) ==
  /\ Len(jobs) < MaxJobs
  /\ \A i \in Ids : jobs[i].target = t => ~Active(i)
  /\ jobs' = Append(jobs, [target |-> t, state |-> "pending", attempts |-> 0,
                           due |-> 0, since |-> 0])
  /\ UNCHANGED <<batch, hand, losses, runs, succeeded, lost>>

(* Mutant: a claim that takes over rows left running. *)
ReadyOrRunning == {i \in Ids : jobs[i].state \in {"pending", "running"} /\ jobs[i].due = 0}

Ready == {i \in Ids : jobs[i].state = "pending" /\ jobs[i].due = 0}

(* A tick begins: the oldest ready jobs, BatchSize at most, start running. *)
Claim ==
  /\ batch = {} /\ Ready # {}
  /\ batch' = {i \in Ready : Cardinality({j \in Ready : j < i}) < BatchSize}
  /\ jobs' = [i \in Ids |-> IF i \in batch'
                            THEN [jobs[i] EXCEPT !.state = "running", !.since = 0]
                            ELSE jobs[i]]
  /\ UNCHANGED <<hand, losses, runs, succeeded, lost>>

(* The handler of one job of the batch returns, or its kind has none. *)
Handle ==
  /\ hand = <<>>
  /\ \E i \in batch :
       IF jobs[i].target \in Handled
       THEN /\ runs' = [runs EXCEPT ![i] = @ + 1]
            /\ \/ hand' = <<i, "ok">> /\ succeeded' = succeeded \union {i}
               \/ hand' = <<i, "err">> /\ UNCHANGED succeeded
       ELSE hand' = <<i, "none">> /\ UNCHANGED <<runs, succeeded>>
  /\ UNCHANGED <<jobs, batch, losses, lost>>

(* Mutant: one attempt too many. *)
SettledLate(row, outcome) ==
  IF outcome = "ok" THEN [row EXCEPT !.state = "done"]
  ELSE IF outcome = "none" \/ row.attempts + 1 > MaxAttempts
       THEN [row EXCEPT !.state = "failed"]
  ELSE [row EXCEPT !.state = "pending", !.attempts = @ + 1,
                   !.due = Monus(Backoff(row.attempts), row.since)]

(* Mutant: one attempt too few. *)
SettledEarly(row, outcome) ==
  IF outcome = "ok" THEN [row EXCEPT !.state = "done"]
  ELSE IF outcome = "none" \/ row.attempts + 2 >= MaxAttempts
       THEN [row EXCEPT !.state = "failed"]
  ELSE [row EXCEPT !.state = "pending", !.attempts = @ + 1,
                   !.due = Monus(Backoff(row.attempts), row.since)]

(* Mutant: a retry whose run_after is left alone. *)
SettledAtOnce(row, outcome) ==
  IF outcome = "ok" THEN [row EXCEPT !.state = "done"]
  ELSE IF outcome = "none" \/ row.attempts + 1 >= MaxAttempts
       THEN [row EXCEPT !.state = "failed"]
  ELSE [row EXCEPT !.state = "pending", !.attempts = @ + 1]

(* Mutant: a retry that leaves the row running. *)
SettledRunning(row, outcome) ==
  IF outcome = "ok" THEN [row EXCEPT !.state = "done"]
  ELSE IF outcome = "none" \/ row.attempts + 1 >= MaxAttempts
       THEN [row EXCEPT !.state = "failed"]
  ELSE [row EXCEPT !.attempts = @ + 1, !.due = Monus(Backoff(row.attempts), row.since)]

(* What tick writes back: complete, fail, or retry once more, no sooner    *)
(* than the backoff after the tick began.                                  *)
Settled(row, outcome) ==
  IF outcome = "ok" THEN [row EXCEPT !.state = "done"]
  ELSE IF outcome = "none" \/ row.attempts + 1 >= MaxAttempts
       THEN [row EXCEPT !.state = "failed"]
  ELSE [row EXCEPT !.state = "pending", !.attempts = @ + 1,
                   !.due = Monus(Backoff(row.attempts), row.since)]

Settle ==
  /\ hand # <<>>
  /\ jobs' = [jobs EXCEPT ![hand[1]] = Settled(@, hand[2])]
  /\ batch' = batch \ {hand[1]} /\ hand' = <<>>
  /\ UNCHANGED <<losses, runs, succeeded, lost>>

(* The tick ends early: the process stops, or a queue call fails and the   *)
(* loop drops the error with the rest of the batch.  Rows stay running.    *)
Lose ==
  /\ batch # {} /\ losses < MaxLosses
  /\ losses' = losses + 1
  /\ lost' = lost \union batch
  /\ batch' = {} /\ hand' = <<>>
  /\ UNCHANGED <<jobs, runs, succeeded>>

(* Past Cap the time since a claim no longer matters. *)
TimePasses ==
  /\ jobs' = [i \in Ids |-> [jobs[i] EXCEPT !.due = Monus(@, 1),
                                            !.since = IF @ < Cap THEN @ + 1 ELSE Cap]]
  /\ UNCHANGED <<batch, hand, losses, runs, succeeded, lost>>
------------------------------------------------------------------------------
Init ==
  /\ jobs = <<>> /\ batch = {} /\ hand = <<>> /\ losses = 0
  /\ runs = [i \in 1 .. MaxJobs |-> 0] /\ succeeded = {} /\ lost = {}

Next ==
  \/ \E t \in Targets : Enqueue(t)
  \/ Claim \/ Handle \/ Settle \/ Lose \/ TimePasses

(* The loop polls every second, every handler's client has a timeout, and  *)
(* the clock moves.                                                        *)
Fairness == WF_vars(Claim) /\ WF_vars(Handle) /\ WF_vars(Settle) /\ WF_vars(TimePasses)

Spec == Init /\ [][Next]_vars /\ Fairness
------------------------------------------------------------------------------
TypeOK ==
  /\ jobs \in Seq(Rows) /\ Len(jobs) <= MaxJobs
  /\ batch \subseteq Ids
  /\ hand \in {<<>>} \union (batch \X {"ok", "err", "none"})
  /\ losses \in 0 .. MaxLosses
  /\ runs \in [1 .. MaxJobs -> 0 .. MaxAttempts]
  /\ succeeded \subseteq Ids /\ lost \subseteq Ids

(* Idempotent while active: however enqueues fall between a claim, a retry *)
(* and a completion, a target never has two jobs that are to run.          *)
OneActive ==
  \A i, j \in Ids : Active(i) /\ Active(j) /\ jobs[i].target = jobs[j].target => i = j

(* A row's last word is true: done if the handler succeeded, failed only   *)
(* without a handler or after MaxAttempts runs, pending with one attempt   *)
(* counted for each run.                                                   *)
OutcomesAreTrue ==
  \A i \in Ids :
    /\ jobs[i].state = "done" => i \in succeeded
    /\ jobs[i].state = "failed" =>
         i \notin succeeded /\ (jobs[i].target \in Handled => runs[i] = MaxAttempts)
    /\ jobs[i].state = "pending" => i \notin succeeded /\ jobs[i].attempts = runs[i]

(* A queue's rows can be relied on: no target has two jobs to run, and     *)
(* every row says what became of its job.                                  *)
RowsAreTrue == OneActive /\ OutcomesAreTrue

(* A claim is due: a handler that has done its work is not run again for   *)
(* the same job, even when the answer could not be written back, and a     *)
(* retry starts no sooner than the backoff of the failed attempt, from the *)
(* start of the tick that made it.                                         *)
ClaimsAreDue ==
  [][/\ \A i \in succeeded : runs'[i] = runs[i]
     /\ \A i \in Ids :
          jobs[i].state = "pending" /\ jobs'[i].state = "running" /\ jobs[i].attempts > 0
          => jobs[i].since >= Backoff(jobs[i].attempts - 1)]_vars

(* Every accepted job is settled in the end, however the batches fall; the *)
(* one exception is a job whose tick was cut short, which nothing reclaims.*)
EveryJobSettles ==
  \A i \in 1 .. MaxJobs :
    i \in Ids ~> (i \in Ids /\ (jobs[i].state \in {"done", "failed"} \/ i \in lost))
==============================================================================
