--------------------------- MODULE JobQueueProofs ---------------------------
(***************************************************************************)
(* Theorems about JobQueue, for any targets, batch size, backoff policy    *)
(* and number of jobs: the safety properties that the run checks.          *)
(***************************************************************************)
EXTENDS JobQueue, SequenceTheorems, TLAPS

(* A claimed job that waits for its handler, or whose handler returned. *)
Claimed(i) ==
  /\ jobs[i].state = "running" /\ jobs[i].attempts < MaxAttempts
  /\ hand = <<>> \/ hand[1] # i => i \notin succeeded /\ runs[i] = jobs[i].attempts
  /\ \A o \in {"ok", "err"} : hand = <<i, o>> =>
       /\ jobs[i].target \in Handled /\ runs[i] = jobs[i].attempts + 1
       /\ i \in succeeded <=> o = "ok"
  /\ hand = <<i, "none">> =>
       jobs[i].target \notin Handled /\ i \notin succeeded /\ runs[i] = jobs[i].attempts

(* How the histories and the timers stand to a row. *)
Story(i) ==
  /\ i \in batch => Claimed(i)
  /\ jobs[i].state = "done" => i \in succeeded
  /\ jobs[i].state = "failed" =>
       i \notin succeeded /\ (jobs[i].target \in Handled => runs[i] = MaxAttempts)
  /\ jobs[i].state = "pending" =>
       /\ i \notin succeeded /\ jobs[i].attempts = runs[i] /\ jobs[i].attempts < MaxAttempts
       /\ jobs[i].attempts > 0 => jobs[i].due + jobs[i].since >= Backoff(jobs[i].attempts - 1)

(* A row that has not been inserted. *)
Unborn(i) == runs[i] = 0 /\ i \notin succeeded

IInv ==
  /\ TypeOK
  /\ OneActive
  /\ \A i \in Ids : Story(i)
  /\ \A i \in (1 .. MaxJobs) \ Ids : Unborn(i)

LEMMA RowSequence ==
  ASSUME NEW n \in Nat, NEW f \in [1 .. n -> Rows]
  PROVE  f \in Seq(Rows) /\ Len(f) = n
OBVIOUS

LEMMA StartedRow ==
  ASSUME NEW r \in Rows
  PROVE  [r EXCEPT !.state = "running", !.since = 0] \in Rows
<1>1. 0 \in Times
  BY JobQueueAssumption DEF Times
<1> QED  BY <1>1 DEF Rows

LEMMA PairNotEmpty == ASSUME NEW x, NEW y PROVE <<x, y>> # <<>>
OBVIOUS

LEMMA BackoffType == \A n \in 0 .. MaxAttempts : Backoff(n) \in 0 .. Cap
BY JobQueueAssumption, PowersAssumption DEF Backoff

LEMMA Initial == Init => IInv
BY JobQueueAssumption DEF Init, IInv, TypeOK, OneActive, Ids, Unborn

LEMMA EnqueueKeeps == ASSUME IInv, NEW t \in Targets, Enqueue(t) PROVE IInv'
<1> DEFINE row == [target |-> t, state |-> "pending", attempts |-> 0, due |-> 0, since |-> 0]
           n == Len(jobs) + 1
<1>1. jobs \in Seq(Rows) /\ Len(jobs) \in Nat /\ Len(jobs) < MaxJobs /\ MaxJobs \in Nat
  BY JobQueueAssumption DEF IInv, TypeOK, Enqueue
<1>2. row \in Rows
  BY JobQueueAssumption DEF Rows, Times
<1>3. /\ jobs' \in Seq(Rows) /\ Len(jobs') = n
      /\ jobs'[n] = row /\ \A i \in Ids : jobs'[i] = jobs[i]
  <2>1. jobs' = Append(jobs, row)
    BY DEF Enqueue
  <2> HIDE DEF row
  <2> QED  BY <1>1, <1>2, <2>1 DEF Ids
<1>4. Ids' = Ids \union {n} /\ n \notin Ids /\ n \in 1 .. MaxJobs
  BY <1>1, <1>3 DEF Ids
<1>5. UNCHANGED <<batch, hand, losses, runs, succeeded, lost>>
  BY DEF Enqueue
<1> HIDE DEF n
<1>6. TypeOK'
  BY <1>1, <1>3, <1>4, <1>5 DEF IInv, TypeOK
<1>7. OneActive'
  <2>1. \A i \in Ids : jobs[i].target = t => ~Active(i)
    BY DEF Enqueue
  <2> QED  BY <1>3, <1>4, <2>1 DEF IInv, OneActive, Active
<1>8. ASSUME NEW i \in Ids' PROVE Story(i)'
  <2>1. CASE i \in Ids
    BY <1>3, <1>5, <2>1 DEF IInv, Story, Claimed
  <2>2. CASE i = n
    <3>1. runs[n] = 0 /\ n \notin succeeded /\ n \notin batch
      BY <1>4 DEF IInv, TypeOK, Unborn
    <3> QED  BY <1>3, <1>5, <2>2, <3>1, JobQueueAssumption DEF Story
  <2> QED  BY <1>4, <2>1, <2>2
<1>9. ASSUME NEW i \in (1 .. MaxJobs) \ Ids' PROVE Unborn(i)'
  BY <1>4, <1>5 DEF IInv, Unborn
<1> QED  BY <1>6, <1>7, <1>8, <1>9, <1>5 DEF IInv

LEMMA ClaimKeeps == ASSUME IInv, Claim PROVE IInv'
<1> DEFINE n == Len(jobs)
<1>1. jobs \in Seq(Rows) /\ n \in Nat /\ \A i \in Ids : jobs[i] \in Rows
  BY DEF IInv, TypeOK, Ids
<1>2. UNCHANGED <<hand, losses, runs, succeeded, lost>>
  BY DEF Claim
<1>3. batch' \subseteq Ready /\ batch = {}
  BY DEF Claim
<1>4. jobs' = [i \in 1 .. n |-> IF i \in batch' THEN [jobs[i] EXCEPT !.state = "running", !.since = 0]
                                 ELSE jobs[i]]
  BY DEF Claim, Ids
<1>5. jobs' \in Seq(Rows) /\ Len(jobs') = n
  <2> DEFINE started(i) == [jobs[i] EXCEPT !.state = "running", !.since = 0]
  <2>2. \A i \in 1 .. n : jobs[i] \in Rows /\ started(i) \in Rows
    BY <1>1, StartedRow DEF Ids
  <2>3. jobs' = [i \in 1 .. n |-> IF i \in batch' THEN started(i) ELSE jobs[i]]
    BY <1>4
  <2> HIDE DEF started
  <2>1. jobs' \in [1 .. n -> Rows]
    BY <2>2, <2>3
  <2> QED  BY <1>1, <2>1, RowSequence
<1>6. Ids' = Ids /\ Ids = 1 .. n
  BY <1>5 DEF Ids
<1>7. ASSUME NEW i \in Ids
      PROVE  /\ i \notin batch' => jobs'[i] = jobs[i]
             /\ i \in batch' => jobs[i].state = "pending" /\ jobs'[i].state = "running"
             /\ jobs'[i].target = jobs[i].target /\ jobs'[i].attempts = jobs[i].attempts
  BY <1>1, <1>3, <1>4, <1>6 DEF Rows, Ready
<1>8. hand = <<>>
  BY <1>3 DEF IInv, TypeOK
<1> HIDE DEF n
<1>9. TypeOK'
  <2>1. batch' \subseteq Ids' /\ succeeded' \subseteq Ids' /\ lost' \subseteq Ids'
    BY <1>2, <1>3, <1>6 DEF IInv, TypeOK, Ready
  <2>2. jobs' \in Seq(Rows) /\ Len(jobs') <= MaxJobs
    BY <1>5 DEF IInv, TypeOK, n
  <2> QED  BY <1>2, <1>8, <2>1, <2>2 DEF IInv, TypeOK
<1>10. OneActive'
  BY <1>6, <1>7 DEF IInv, OneActive, Active
<1>11. ASSUME NEW i \in Ids PROVE Story(i)'
  <2>1. CASE i \in batch'
    BY <1>2, <1>7, <1>8, <2>1 DEF IInv, Story, Claimed
  <2>2. CASE i \notin batch'
    BY <1>2, <1>3, <1>7, <2>2 DEF IInv, Story, Claimed
  <2> QED  BY <2>1, <2>2
<1> QED  BY <1>2, <1>6, <1>9, <1>10, <1>11 DEF IInv, Unborn

LEMMA HandleKeeps == ASSUME IInv, Handle PROVE IInv'
<1>1. hand = <<>> /\ UNCHANGED <<jobs, batch, losses, lost>> /\ Ids' = Ids
  BY DEF Handle, Ids
<1>2. PICK i \in batch :
         \/ /\ jobs[i].target \in Handled /\ runs' = [runs EXCEPT ![i] = @ + 1]
            /\ \/ hand' = <<i, "ok">> /\ succeeded' = succeeded \union {i}
               \/ hand' = <<i, "err">> /\ succeeded' = succeeded
         \/ /\ jobs[i].target \notin Handled /\ hand' = <<i, "none">>
            /\ runs' = runs /\ succeeded' = succeeded
  BY DEF Handle
<1>3. /\ i \in Ids /\ jobs[i].state = "running" /\ i \notin succeeded
      /\ runs[i] = jobs[i].attempts /\ jobs[i].attempts < MaxAttempts
      /\ jobs[i].attempts \in Nat /\ runs \in [1 .. MaxJobs -> 0 .. MaxAttempts]
      /\ i \in 1 .. MaxJobs /\ Ids \subseteq 1 .. MaxJobs
  BY <1>1, JobQueueAssumption DEF IInv, TypeOK, Story, Claimed, Ids, Rows
<1>4. /\ runs' \in [1 .. MaxJobs -> 0 .. MaxAttempts]
      /\ \A j \in 1 .. MaxJobs : j # i => runs'[j] = runs[j] /\ (j \in succeeded' <=> j \in succeeded)
  <2>1. runs[i] + 1 \in 0 .. MaxAttempts
    BY <1>3, JobQueueAssumption
  <2>2. runs' = runs \/ runs' = [runs EXCEPT ![i] = runs[i] + 1]
    BY <1>2
  <2>3. runs' \in [1 .. MaxJobs -> 0 .. MaxAttempts]
    BY <1>3, <2>1, <2>2
  <2>4. \A j \in 1 .. MaxJobs : j # i => runs'[j] = runs[j]
    BY <1>3, <2>2
  <2>5. \A j \in 1 .. MaxJobs : j # i => (j \in succeeded' <=> j \in succeeded)
    BY <1>2
  <2> QED  BY <2>3, <2>4, <2>5
<1>5. TypeOK'
  <2>1. hand' \in {<<>>} \union (batch' \X {"ok", "err", "none"})
    BY <1>1, <1>2
  <2>2. succeeded' \subseteq Ids'
    BY <1>1, <1>2, <1>3 DEF IInv, TypeOK
  <2> QED  BY <1>1, <1>4, <2>1, <2>2 DEF IInv, TypeOK
<1>6. OneActive'
  BY <1>1 DEF IInv, OneActive, Active
<1>7. ASSUME NEW j \in Ids PROVE Story(j)'
  <2>1. CASE j = i
    <3>1. Claimed(i)'
      <4>1. /\ jobs'[i].state = "running" /\ jobs'[i].attempts < MaxAttempts
            /\ hand' # <<>> /\ hand'[1] = i
        <5>1. PICK o \in {"ok", "err", "none"} : hand' = <<i, o>>
          BY <1>2
        <5> QED  BY <1>1, <1>3, <5>1, PairNotEmpty
      <4>5. jobs[i].target \in Handled => runs'[i] = runs[i] + 1
        BY <1>2, <1>3
      <4>2. \A o \in {"ok", "err"} : hand' = <<i, o>> =>
              /\ jobs[i].target \in Handled /\ runs'[i] = jobs[i].attempts + 1
              /\ i \in succeeded' <=> o = "ok"
        BY <1>2, <1>3, <4>5
      <4>3. hand' = <<i, "none">> =>
              jobs[i].target \notin Handled /\ i \notin succeeded' /\ runs'[i] = jobs[i].attempts
        BY <1>2, <1>3
      <4> QED  BY <1>1, <4>1, <4>2, <4>3 DEF Claimed
    <3> QED  BY <1>1, <1>3, <2>1, <3>1 DEF Story
  <2>2. CASE j # i
    <3>1. hand'[1] = i
      BY <1>2
    <3>2. runs'[j] = runs[j] /\ (j \in succeeded' <=> j \in succeeded)
      BY <1>3, <1>4, <2>2
    <3>3. j \in batch => Claimed(j)'
      <4>1. j \in batch => Claimed(j)
        BY DEF IInv, Story
      <4> QED  BY <1>1, <1>2, <2>2, <3>1, <3>2, <4>1 DEF Claimed
    <3> QED  BY <1>1, <3>2, <3>3 DEF IInv, Story
  <2> QED  BY <2>1, <2>2
<1>8. ASSUME NEW j \in (1 .. MaxJobs) \ Ids PROVE Unborn(j)'
  BY <1>3, <1>4 DEF IInv, Unborn
<1> QED  BY <1>1, <1>5, <1>6, <1>7, <1>8 DEF IInv

(* What Settled makes of a claimed row. *)
LEMMA SettledRow ==
  ASSUME NEW r \in Rows, r.attempts < MaxAttempts, NEW o \in {"ok", "err", "none"}
  PROVE  /\ Settled(r, o) \in Rows /\ Settled(r, o).target = r.target
         /\ Settled(r, o).state \in {"done", "failed", "pending"}
         /\ Settled(r, o).state = "done" <=> o = "ok"
         /\ o = "none" => Settled(r, o).state = "failed"
         /\ o = "err" /\ Settled(r, o).state = "failed" => r.attempts + 1 = MaxAttempts
         /\ Settled(r, o).state = "pending" =>
              /\ o = "err" /\ Settled(r, o).attempts = r.attempts + 1
              /\ Settled(r, o).attempts < MaxAttempts
              /\ Settled(r, o).due + Settled(r, o).since >= Backoff(r.attempts)
<1> DEFINE d == Monus(Backoff(r.attempts), r.since)
<1>1. /\ r.attempts \in Nat /\ r.attempts + 1 \in 0 .. MaxAttempts /\ r.attempts + 1 \in Nat
      /\ r.since \in 0 .. Cap /\ r.since \in Nat /\ MaxAttempts \in Nat /\ Cap \in Nat
  BY JobQueueAssumption DEF Rows, Times
<1>2. Backoff(r.attempts) \in 0 .. Cap /\ Backoff(r.attempts) \in Nat
  BY <1>1, BackoffType
<1>3. d \in Times /\ d + r.since >= Backoff(r.attempts)
  BY <1>1, <1>2 DEF Monus, Times
<1>4. CASE o = "ok"
  <2>1. Settled(r, o) = [r EXCEPT !.state = "done"]
    BY <1>4 DEF Settled
  <2> QED  BY <1>4, <2>1 DEF Rows
<1>5. CASE o # "ok" /\ (o = "none" \/ r.attempts + 1 >= MaxAttempts)
  <2>1. Settled(r, o) = [r EXCEPT !.state = "failed"]
    BY <1>5 DEF Settled
  <2> QED  BY <1>1, <1>5, <2>1 DEF Rows
<1>6. CASE o # "ok" /\ ~(o = "none" \/ r.attempts + 1 >= MaxAttempts)
  <2> DEFINE n == r.attempts + 1
             q == [r EXCEPT !.state = "pending", !.attempts = n, !.due = d]
  <2>1. Settled(r, o) = q
    BY <1>6 DEF Settled
  <2>2. o = "err" /\ n < MaxAttempts /\ n \in 0 .. MaxAttempts
    BY <1>1, <1>6
  <2>3. d \in Times /\ d + r.since >= Backoff(r.attempts)
    BY <1>3
  <2> HIDE DEF d, n
  <2>4. /\ q \in Rows /\ q.state = "pending" /\ q.attempts = n /\ q.due = d
        /\ q.since = r.since /\ q.target = r.target
    BY <2>2, <2>3 DEF Rows
  <2> HIDE DEF q
  <2> QED  BY <2>1, <2>2, <2>3, <2>4 DEF n
<1> QED  BY <1>4, <1>5, <1>6

LEMMA SettleKeeps == ASSUME IInv, Settle PROVE IInv'
<1>1. PICK i \in batch, o \in {"ok", "err", "none"} : hand = <<i, o>>
  BY DEF IInv, TypeOK, Settle
<1>2. /\ jobs' = [jobs EXCEPT ![i] = Settled(jobs[i], o)]
      /\ batch' = batch \ {i} /\ hand' = <<>>
      /\ UNCHANGED <<losses, runs, succeeded, lost>>
  BY <1>1 DEF Settle
<1>3. /\ i \in Ids /\ Claimed(i) /\ jobs[i] \in Rows /\ jobs \in Seq(Rows)
      /\ jobs[i].attempts < MaxAttempts /\ jobs[i].state = "running" /\ hand[1] = i
  BY <1>1 DEF IInv, TypeOK, Story, Claimed, Ids
<1> DEFINE row == Settled(jobs[i], o)
<1>4. row \in Rows
  BY <1>3, SettledRow
<1>5. /\ jobs' \in Seq(Rows) /\ Len(jobs') = Len(jobs)
      /\ jobs'[i] = row /\ \A j \in Ids : j # i => jobs'[j] = jobs[j]
  <2>1. jobs' = [jobs EXCEPT ![i] = row]
    BY <1>2
  <2> HIDE DEF row
  <2>2. /\ [jobs EXCEPT ![i] = row] \in Seq(Rows) /\ Len([jobs EXCEPT ![i] = row]) = Len(jobs)
        /\ \A j \in 1 .. Len(jobs) : [jobs EXCEPT ![i] = row][j] = IF j = i THEN row ELSE jobs[j]
    BY <1>3, <1>4, ExceptSeq DEF Ids
  <2> QED  BY <1>3, <2>1, <2>2 DEF Ids
<1>6. Ids' = Ids
  BY <1>5 DEF Ids
<1>7. TypeOK'
  BY <1>2, <1>5, <1>6 DEF IInv, TypeOK
<1>8. OneActive'
  <2>1. row.target = jobs[i].target /\ Active(i)
    BY <1>3, SettledRow DEF Active
  <2>2. \A j \in Ids : jobs'[j].target = jobs[j].target /\ (Active(j)' => Active(j))
    BY <1>5, <2>1 DEF Active
  <2> QED  BY <1>6, <2>2 DEF IInv, OneActive
<1>9. ASSUME NEW j \in Ids PROVE Story(j)'
  <2>1. CASE j = i
    <3>1. /\ row.state \in {"done", "failed", "pending"} /\ (row.state = "done" <=> o = "ok")
          /\ o = "none" => row.state = "failed"
          /\ o = "err" /\ row.state = "failed" => jobs[i].attempts + 1 = MaxAttempts
          /\ row.state = "pending" =>
               /\ o = "err" /\ row.attempts = jobs[i].attempts + 1 /\ row.attempts < MaxAttempts
               /\ row.due + row.since >= Backoff(jobs[i].attempts)
          /\ row.target = jobs[i].target
      BY <1>3, SettledRow
    <3>2. /\ o \in {"ok", "err"} =>
               /\ jobs[i].target \in Handled /\ runs[i] = jobs[i].attempts + 1
               /\ i \in succeeded <=> o = "ok"
          /\ o = "none" => jobs[i].target \notin Handled /\ i \notin succeeded
      BY <1>1, <1>3 DEF Claimed
    <3>3. jobs[i].attempts \in Nat
      BY <1>3 DEF Rows
    <3>4. row.state = "pending" => row.attempts - 1 = jobs[i].attempts
      BY <3>1, <3>3
    <3>5. i \notin batch' /\ jobs'[i] = row /\ runs' = runs /\ succeeded' = succeeded
      BY <1>2, <1>5
    <3> HIDE DEF row
    <3>6. row.state = "failed" =>
            i \notin succeeded /\ (row.target \in Handled => runs[i] = MaxAttempts)
      <4>1. CASE o = "ok"
        BY <3>1, <4>1
      <4>2. CASE o = "err"
        BY <3>1, <3>2, <4>2
      <4>3. CASE o = "none"
        BY <3>1, <3>2, <4>3
      <4> QED  BY <4>1, <4>2, <4>3
    <3>7. row.state = "pending" =>
            /\ i \notin succeeded /\ row.attempts = runs[i] /\ row.attempts < MaxAttempts
            /\ row.attempts > 0 => row.due + row.since >= Backoff(row.attempts - 1)
      <4> SUFFICES ASSUME row.state = "pending"
                   PROVE  /\ i \notin succeeded /\ row.attempts = runs[i] /\ row.attempts < MaxAttempts
                          /\ row.due + row.since >= Backoff(row.attempts - 1)
        OBVIOUS
      <4>1. o = "err"
        BY <3>1
      <4> QED  BY <3>1, <3>2, <3>4, <4>1
    <3>8. row.state = "done" => i \in succeeded
      BY <3>1, <3>2
    <3> QED  BY <2>1, <3>5, <3>6, <3>7, <3>8 DEF Story
  <2>2. CASE j # i
    <3>1. j \in batch' => Claimed(j)'
      BY <1>2, <1>3, <1>5, <2>2 DEF IInv, Story, Claimed
    <3> QED  BY <1>2, <1>5, <2>2, <3>1 DEF IInv, Story
  <2> QED  BY <2>1, <2>2
<1> QED  BY <1>2, <1>6, <1>7, <1>8, <1>9 DEF IInv, Unborn

LEMMA LoseKeeps == ASSUME IInv, Lose PROVE IInv'
<1>1. /\ Ids' = Ids /\ batch' = {} /\ hand' = <<>> /\ lost' = lost \union batch
      /\ losses' \in 0 .. MaxLosses /\ UNCHANGED <<jobs, runs, succeeded>>
  BY JobQueueAssumption DEF Lose, Ids, IInv, TypeOK
<1>2. TypeOK'
  BY <1>1 DEF IInv, TypeOK
<1> QED  BY <1>1, <1>2 DEF IInv, OneActive, Active, Story, Unborn

LEMMA AgedRow ==
  ASSUME NEW r \in Rows
  PROVE  LET a == [r EXCEPT !.due = Monus(@, 1), !.since = IF @ < Cap THEN @ + 1 ELSE Cap]
         IN /\ a \in Rows /\ a.state = r.state /\ a.target = r.target /\ a.attempts = r.attempts
            /\ \A b \in 0 .. Cap : r.due + r.since >= b => a.due + a.since >= b
<1> DEFINE d == Monus(r.due, 1)
           t == IF r.since < Cap THEN r.since + 1 ELSE Cap
           a == [r EXCEPT !.due = d, !.since = t]
<1>1. r.due \in 0 .. Cap /\ r.since \in 0 .. Cap /\ Cap \in Nat
  BY JobQueueAssumption DEF Rows, Times
<1>2. d \in Times /\ t \in Times
  BY <1>1 DEF Monus, Times
<1>3. \A b \in 0 .. Cap : r.due + r.since >= b => d + t >= b
  BY <1>1 DEF Monus
<1> HIDE DEF d, t
<1>4. /\ a \in Rows /\ a.state = r.state /\ a.target = r.target /\ a.attempts = r.attempts
      /\ a.due = d /\ a.since = t
  BY <1>2 DEF Rows
<1> QED  BY <1>3, <1>4 DEF d, t

LEMMA TimePassesKeeps == ASSUME IInv, TimePasses PROVE IInv'
<1> DEFINE n == Len(jobs)
           aged(i) == [jobs[i] EXCEPT !.due = Monus(@, 1), !.since = IF @ < Cap THEN @ + 1 ELSE Cap]
<1>1. n \in Nat /\ Ids = 1 .. n /\ \A i \in Ids : jobs[i] \in Rows
  BY DEF IInv, TypeOK, Ids
<1>2. \A i \in Ids :
        /\ aged(i) \in Rows /\ aged(i).state = jobs[i].state /\ aged(i).target = jobs[i].target
        /\ aged(i).attempts = jobs[i].attempts
        /\ \A b \in 0 .. Cap : jobs[i].due + jobs[i].since >= b => aged(i).due + aged(i).since >= b
  BY <1>1, AgedRow
<1>3. jobs' = [i \in 1 .. n |-> aged(i)] /\ UNCHANGED <<batch, hand, losses, runs, succeeded, lost>>
  BY <1>1 DEF TimePasses
<1> HIDE DEF aged
<1>4. jobs' \in Seq(Rows) /\ Len(jobs') = n
  BY <1>1, <1>2, <1>3, RowSequence
<1>5. Ids' = Ids /\ \A i \in Ids : jobs'[i] = aged(i)
  BY <1>1, <1>3, <1>4 DEF Ids
<1>6. TypeOK'
  BY <1>3, <1>4, <1>5 DEF IInv, TypeOK
<1>7. OneActive'
  BY <1>2, <1>5 DEF IInv, OneActive, Active
<1>8. ASSUME NEW i \in Ids PROVE Story(i)'
  <2>1. i \in batch' => Claimed(i)'
    BY <1>2, <1>3, <1>5 DEF IInv, Story, Claimed
  <2>2. jobs[i].state = "pending" /\ jobs[i].attempts > 0 => Backoff(jobs[i].attempts - 1) \in 0 .. Cap
    <3>1. jobs[i].attempts \in 0 .. MaxAttempts
      BY <1>1 DEF Rows
    <3> QED  BY <3>1, BackoffType, JobQueueAssumption
  <2>3. jobs'[i].state = "pending" /\ jobs'[i].attempts > 0 =>
          jobs'[i].due + jobs'[i].since >= Backoff(jobs'[i].attempts - 1)
    BY <1>2, <1>5, <2>2 DEF IInv, Story
  <2> QED  BY <1>2, <1>3, <1>5, <2>1, <2>3 DEF IInv, Story
<1> QED  BY <1>3, <1>5, <1>6, <1>7, <1>8 DEF IInv, Unborn

LEMMA Inductive == IInv /\ [Next]_vars => IInv'
<1> SUFFICES ASSUME IInv, [Next]_vars PROVE IInv'
  OBVIOUS
<1>1. CASE \E t \in Targets : Enqueue(t)
  BY <1>1, EnqueueKeeps
<1>2. CASE Claim
  BY <1>2, ClaimKeeps
<1>3. CASE Handle
  BY <1>3, HandleKeeps
<1>4. CASE Settle
  BY <1>4, SettleKeeps
<1>5. CASE Lose
  BY <1>5, LoseKeeps
<1>6. CASE TimePasses
  BY <1>6, TimePassesKeeps
<1>7. CASE UNCHANGED vars
  BY <1>7 DEF vars, IInv, TypeOK, OneActive, Active, Story, Claimed, Unborn, Ids
<1> QED  BY <1>1, <1>2, <1>3, <1>4, <1>5, <1>6, <1>7 DEF Next

LEMMA Invariant == Spec => []IInv
BY Initial, Inductive, PTL DEF Spec

(* Every reachable queue is well typed; attempts never exceed the maximum. *)
THEOREM TypeCorrect == Spec => []TypeOK
<1>1. IInv => TypeOK
  BY DEF IInv
<1> QED  BY <1>1, Invariant, PTL

(* However enqueues, claims, retries and lost ticks fall, a target has at  *)
(* most one job that is to run, and what a row says is what happened.      *)
THEOREM RowsTrue == Spec => []RowsAreTrue
<1>1. IInv => RowsAreTrue
  BY DEF IInv, Story, RowsAreTrue, OutcomesAreTrue
<1> QED  BY <1>1, Invariant, PTL

(* No step runs the handler of a job that has succeeded. *)
LEMMA SuccessFinal == IInv /\ Next => \A i \in succeeded : runs'[i] = runs[i]
<1> SUFFICES ASSUME IInv, Next, NEW i \in succeeded PROVE runs'[i] = runs[i]
  OBVIOUS
<1>1. CASE Handle
  <2>1. PICK j \in batch : runs' = runs \/ runs' = [runs EXCEPT ![j] = @ + 1]
    BY <1>1 DEF Handle
  <2>2. j \notin succeeded
    BY <1>1 DEF Handle, IInv, TypeOK, Story, Claimed
  <2>3. runs \in [1 .. MaxJobs -> 0 .. MaxAttempts] /\ i # j /\ i \in 1 .. MaxJobs
    BY <2>2, JobQueueAssumption DEF IInv, TypeOK, Ids
  <2> QED  BY <2>1, <2>3
<1>2. CASE ~Handle
  BY <1>2 DEF Next, Enqueue, Claim, Settle, Lose, TimePasses
<1> QED  BY <1>1, <1>2

(* A job that a step claims for a retry. *)
Retried(i) == jobs[i].state = "pending" /\ jobs'[i].state = "running" /\ jobs[i].attempts > 0

(* No step claims a retry before its backoff is over. *)
LEMMA BackoffKept ==
  IInv /\ Next => \A i \in Ids : Retried(i) => jobs[i].since >= Backoff(jobs[i].attempts - 1)
<1> SUFFICES ASSUME IInv, Next, NEW i \in Ids, Retried(i)
             PROVE  jobs[i].since >= Backoff(jobs[i].attempts - 1)
  OBVIOUS
<1>1. jobs[i] \in Rows /\ jobs \in Seq(Rows)
  BY DEF IInv, TypeOK, Ids
<1>2. jobs[i].due = 0
  <2>1. CASE Claim
    BY <2>1, <1>1 DEF Claim, Ready, Ids, Retried
  <2>2. CASE \E t \in Targets : Enqueue(t)
    BY <2>2, <1>1 DEF Enqueue, Ids, Retried
  <2>3. CASE Settle
    <3>1. PICK j \in batch, o \in {"ok", "err", "none"} : hand = <<j, o>>
      BY <2>3 DEF IInv, TypeOK, Settle
    <3>2. jobs[j].state = "running"
      BY DEF IInv, TypeOK, Story, Claimed
    <3>3. jobs'[i] = jobs[i]
      BY <2>3, <3>1, <3>2, <1>1 DEF Settle, Ids, Retried
    <3> QED  BY <3>3 DEF Retried
  <2>4. CASE TimePasses
    BY <2>4, <1>1 DEF TimePasses, Rows, Retried
  <2>5. CASE Handle \/ Lose
    BY <2>5 DEF Handle, Lose, Retried
  <2> QED  BY <2>1, <2>2, <2>3, <2>4, <2>5 DEF Next
<1> QED  BY <1>1, <1>2, JobQueueAssumption DEF IInv, Story, Rows, Times, Retried

(* However the loop, its losses and new jobs fall, no step runs the handler *)
(* of a job that has succeeded, or claims a retry before its backoff ends.  *)
THEOREM ClaimsDue == Spec => ClaimsAreDue
<1>1. IInv /\ [Next]_vars =>
        [/\ \A i \in succeeded : runs'[i] = runs[i]
         /\ \A i \in Ids :
              jobs[i].state = "pending" /\ jobs'[i].state = "running" /\ jobs[i].attempts > 0
              => jobs[i].since >= Backoff(jobs[i].attempts - 1)]_vars
  BY SuccessFinal, BackoffKept DEF Retried
<1> QED  BY <1>1, Invariant, PTL DEF Spec, ClaimsAreDue
=============================================================================
