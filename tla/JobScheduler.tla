---------------------------- MODULE JobScheduler ----------------------------
(***************************************************************************)
(* The scheduler of background jobs: crates/kael/src/background_jobs.rs.   *)
(*                                                                         *)
(* A JobScheduler is shared by threads, and keeps the entries, the pending *)
(* payloads and the results of its jobs behind three mutexes, and the slots*)
(* in use in an atomic counter.  No lock is held from one of them to the   *)
(* next: schedule, resume and retry end in drain_ready, which, on the      *)
(* caller's thread, selects a ready job, looks its payload up, takes a     *)
(* slot, marks the job running, waits for the worker, and records the      *)
(* outcome, the result and the end of the payload, each in a step of its   *)
(* own.  Those are the values of `pc' here.                                *)
(***************************************************************************)
EXTENDS Naturals, FiniteSets

CONSTANTS
    Jobs,             \* job identifiers
    Threads,          \* threads that call the scheduler
    Tokens,           \* cancellation tokens, of which each descriptor names one
    Priority,         \* job -> its priority
    DependencyLists,  \* the sets of dependencies a descriptor may name
    MaxRetries,       \* max_retries of the retry policy
    MaxConcurrent,    \* max_concurrent
    MaxTracked,       \* MAX_TRACKED_JOBS
    MaxCalls,         \* bound: calls made to the scheduler, and tokens cancelled by their owner
    WorkersPanic      \* may a request to the worker pool panic?

ASSUME JobSchedulerAssumption ==
    /\ IsFiniteSet(Threads)
    /\ Priority \in [Jobs -> Nat]
    /\ DependencyLists \subseteq SUBSET Jobs
    /\ MaxRetries \in Nat /\ MaxConcurrent \in Nat
    /\ MaxTracked \in Nat /\ MaxCalls \in Nat
    /\ WorkersPanic \in BOOLEAN

VARIABLES
    status,           \* job -> status of its entry, or "absent"
    dependencies, retry_count, token,
    cancelled,        \* tokens that are set
    pending,          \* jobs with a payload
    results,          \* jobs with a result
    running_count,
    pc, job,          \* thread -> where it is, and the job it is about
    snapshot,         \* thread -> pending_ids of drain_ready
    given,            \* thread -> the token of the descriptor it schedules
    calls,
    panicked,         \* history: a request to the worker pool panicked
    completed,        \* history: jobs that have completed
    removed,          \* history: jobs that were removed
    reused            \* history: the id of a removed job was scheduled again

metadata == <<dependencies, retry_count, token>>
entries == <<status, metadata>>
locals  == <<job, snapshot, given>>
history == <<calls, panicked, completed, removed, reused>>
vars == <<entries, cancelled, pending, results, running_count, pc, locals, history>>

Terminal == {"Completed", "Failed", "Cancelled"}
Status == Terminal \cup {"absent", "Queued", "Running", "Paused", "Retrying"}
Draining == {"drain", "select", "fetch", "fail", "acquire", "start", "work", "store",
             "clear", "release"}
Tracked == {j \in Jobs : status[j] # "absent"}
Idle == \A t \in Threads : pc[t] = "idle"

TypeOK ==
    /\ status \in [Jobs -> Status]
    /\ dependencies \in [Jobs -> SUBSET Jobs]
    /\ retry_count \in [Jobs -> 0 .. MaxRetries]
    /\ token \in [Jobs -> Tokens] /\ cancelled \in SUBSET Tokens
    /\ pending \in SUBSET Jobs /\ results \in SUBSET Jobs
    /\ running_count \in Nat
    /\ pc \in [Threads -> Draining \cup {"idle", "insert_pending", "check_token", "requeue",
                                         "drop_result", "drop_pending"}]
    /\ job \in [Threads -> Jobs]
    /\ snapshot \in [Threads -> SUBSET Jobs]
    /\ given \in [Threads -> Tokens]
    /\ calls \in 0 .. MaxCalls
    /\ panicked \in BOOLEAN /\ reused \in BOOLEAN
    /\ completed \in SUBSET Jobs /\ removed \in SUBSET Jobs

Init ==
    /\ status = [j \in Jobs |-> "absent"]
    /\ dependencies = [j \in Jobs |-> {}]
    /\ retry_count = [j \in Jobs |-> 0]
    /\ \E k \in Tokens : token = [j \in Jobs |-> k] /\ given = [t \in Threads |-> k]
    /\ cancelled = {} /\ pending = {} /\ results = {}
    /\ running_count = 0
    /\ pc = [t \in Threads |-> "idle"]
    /\ \E j \in Jobs : job = [t \in Threads |-> j]
    /\ snapshot = [t \in Threads |-> {}]
    /\ calls = 0
    /\ panicked = FALSE /\ reused = FALSE
    /\ completed = {} /\ removed = {}

-----------------------------------------------------------------------------
Goto(t, next) == pc' = [pc EXCEPT ![t] = next]
SetStatus(j, s) == status' = [status EXCEPT ![j] = s]

\* Thread t calls the scheduler about job j.
Calls(t, j, next) ==
    /\ pc[t] = "idle"
    /\ calls < MaxCalls
    /\ calls' = calls + 1
    /\ job' = [job EXCEPT ![t] = j]
    /\ Goto(t, next)
    /\ UNCHANGED <<snapshot, panicked, completed>>

\* Mutant of DependencyReaches: no dependency is followed.
DependencyIsItself(start, target) == start = target

\* dependency_reaches: every set that contains start, and the dependencies of
\* the tracked jobs in it, contains target.
DependencyReaches(start, target) ==
    \A S \in SUBSET Jobs :
        (start \in S /\ \A j \in S \cap Tracked : dependencies[j] \subseteq S) => target \in S

\* schedule_with_descriptor up to the insertion of the entry; a call that is
\* refused changes nothing.
Schedule(t, j) ==
    /\ Calls(t, j, "insert_pending")
    /\ status[j] = "absent"
    /\ Cardinality(Tracked) < MaxTracked
    /\ \E D \in DependencyLists :
        /\ \A d \in D : ~DependencyReaches(d, j)
        /\ dependencies' = [dependencies EXCEPT ![j] = D]
    /\ SetStatus(j, "Queued")
    /\ retry_count' = [retry_count EXCEPT ![j] = 0]
    /\ \E k \in Tokens : /\ token' = [token EXCEPT ![j] = k]
                         /\ given' = [given EXCEPT ![t] = k]
    /\ reused' = (reused \/ j \in removed)
    /\ UNCHANGED <<cancelled, pending, results, running_count, removed>>

InsertPending(t) ==
    /\ pc[t] = "insert_pending"
    /\ pending' = pending \cup {job[t]}
    /\ Goto(t, "check_token")
    /\ UNCHANGED <<entries, cancelled, results, running_count, locals, history>>

\* Mutant of CheckToken: the payload of the cancelled job stays.
CheckTokenKeepsPayload(t) ==
    /\ pc[t] = "check_token"
    /\ IF given[t] \in cancelled
         THEN /\ Goto(t, "idle")
              /\ IF job[t] \in Tracked THEN SetStatus(job[t], "Cancelled") ELSE UNCHANGED status
         ELSE Goto(t, "drain") /\ UNCHANGED status
    /\ UNCHANGED <<metadata, cancelled, pending, results, running_count, locals, history>>

\* A token cancelled beforehand cancels the job, in whatever state it is by now.
CheckToken(t) ==
    /\ pc[t] = "check_token"
    /\ IF given[t] \in cancelled
         THEN /\ Goto(t, "drop_pending")
              /\ IF job[t] \in Tracked THEN SetStatus(job[t], "Cancelled") ELSE UNCHANGED status
         ELSE Goto(t, "drain") /\ UNCHANGED status
    /\ UNCHANGED <<metadata, cancelled, pending, results, running_count, locals, history>>

\* JobScheduler::cancel, under the lock of the entries
Cancel(t, j) ==
    /\ Calls(t, j, "drop_pending")
    /\ status[j] \in {"Queued", "Running", "Paused", "Retrying"}
    /\ SetStatus(j, "Cancelled")
    /\ cancelled' = cancelled \cup {token[j]}
    /\ UNCHANGED <<metadata, pending, results, running_count, given, removed,
                   reused>>

\* The end of cancel, of a schedule that found its token cancelled, and of
\* remove_terminal
DropPending(t) ==
    /\ pc[t] = "drop_pending"
    /\ pending' = pending \ {job[t]}
    /\ Goto(t, "idle")
    /\ UNCHANGED <<entries, cancelled, results, running_count, locals, history>>

\* JobScheduler::pause
Pause(t, j) ==
    /\ Calls(t, j, "idle")
    /\ status[j] \in {"Queued", "Running"}
    /\ SetStatus(j, "Paused")
    /\ UNCHANGED <<metadata, cancelled, pending, results, running_count, given, removed,
                   reused>>

\* Mutant of Resume: without a drain.
ResumeOnly(t, j) ==
    /\ Calls(t, j, "idle")
    /\ status[j] = "Paused"
    /\ SetStatus(j, "Queued")
    /\ UNCHANGED <<metadata, cancelled, pending, results, running_count, given, removed,
                   reused>>

\* JobScheduler::resume
Resume(t, j) ==
    /\ Calls(t, j, "drain")
    /\ status[j] = "Paused"
    /\ SetStatus(j, "Queued")
    /\ UNCHANGED <<metadata, cancelled, pending, results, running_count, given, removed,
                   reused>>

\* JobScheduler::retry looks for the payload ...
Retry(t, j) ==
    /\ Calls(t, j, "requeue")
    /\ j \in pending
    /\ UNCHANGED <<entries, cancelled, pending, results, running_count, given, removed,
                   reused>>

\* ... and then at the status.
Requeue(t) ==
    /\ pc[t] = "requeue"
    /\ IF status[job[t]] = "Retrying"
         THEN SetStatus(job[t], "Queued") /\ Goto(t, "drain")
         ELSE UNCHANGED status /\ Goto(t, "idle")
    /\ UNCHANGED <<metadata, cancelled, pending, results, running_count, locals, history>>

\* JobScheduler::remove_terminal: the entry, the result and the payload.
RemoveTerminal(t, j) ==
    /\ Calls(t, j, "drop_result")
    /\ status[j] \in Terminal
    /\ SetStatus(j, "absent")
    /\ dependencies' = [dependencies EXCEPT ![j] = {}]
    /\ retry_count' = [retry_count EXCEPT ![j] = 0]
    /\ removed' = removed \cup {j}
    /\ UNCHANGED <<token, cancelled, pending, results, running_count, given, reused>>

DropResult(t) ==
    /\ pc[t] = "drop_result"
    /\ results' = results \ {job[t]}
    /\ Goto(t, "drop_pending")
    /\ UNCHANGED <<entries, cancelled, pending, running_count, locals, history>>

\* The owner of a token cancels it, in no call.
CancelToken(k) ==
    /\ k \notin cancelled
    /\ calls < MaxCalls
    /\ calls' = calls + 1
    /\ cancelled' = cancelled \cup {k}
    /\ UNCHANGED <<entries, pending, results, running_count, pc, locals, panicked, completed,
                   removed, reused>>

-----------------------------------------------------------------------------
(* drain_ready and try_execute                                             *)

Snapshot(t) ==
    /\ pc[t] = "drain"
    /\ snapshot' = [snapshot EXCEPT ![t] = pending]
    /\ Goto(t, "select")
    /\ UNCHANGED <<entries, cancelled, pending, results, running_count, job, given, history>>

\* Mutant of DependenciesMet: a failed dependency will do.
DependenciesOver(j) == \A d \in dependencies[j] : status[d] \in Terminal

DependenciesMet(j) == \A d \in dependencies[j] : status[d] = "Completed"
Ready(ids) == {j \in ids : status[j] = "Queued" /\ DependenciesMet(j)}

\* The ready job with the highest priority, or the end of the drain.
Select(t) ==
    /\ pc[t] = "select"
    /\ snapshot' = [snapshot EXCEPT ![t] = {}]
    /\ IF Ready(snapshot[t]) = {}
         THEN Goto(t, "idle") /\ UNCHANGED job
         ELSE /\ Goto(t, "fetch")
              /\ \E j \in Ready(snapshot[t]) :
                  /\ \A k \in Ready(snapshot[t]) : Priority[k] <= Priority[j]
                  /\ job' = [job EXCEPT ![t] = j]
    /\ UNCHANGED <<entries, cancelled, pending, results, running_count, given, history>>

\* try_execute looks for the payload ...
Fetch(t) ==
    /\ pc[t] = "fetch"
    /\ Goto(t, IF job[t] \in pending THEN "acquire" ELSE "fail")
    /\ UNCHANGED <<entries, cancelled, pending, results, running_count, locals, history>>

\* ... and a job whose payload is gone fails, whatever its status is now.
FailUnavailable(t) ==
    /\ pc[t] = "fail"
    /\ IF job[t] \in Tracked THEN SetStatus(job[t], "Failed") ELSE UNCHANGED status
    /\ Goto(t, "drain")
    /\ UNCHANGED <<metadata, cancelled, pending, results, running_count, locals, history>>

\* Mutant of Acquire: one slot too many.
AcquireOneMore(t) ==
    /\ pc[t] = "acquire"
    /\ IF running_count <= MaxConcurrent
         THEN running_count' = running_count + 1 /\ Goto(t, "start")
         ELSE Goto(t, "idle") /\ UNCHANGED running_count
    /\ UNCHANGED <<entries, cancelled, pending, results, locals, history>>

\* try_acquire_slot; without a free slot the drain ends.
Acquire(t) ==
    /\ pc[t] = "acquire"
    /\ IF running_count < MaxConcurrent
         THEN running_count' = running_count + 1 /\ Goto(t, "start")
         ELSE Goto(t, "idle") /\ UNCHANGED running_count
    /\ UNCHANGED <<entries, cancelled, pending, results, locals, history>>

Start(t) ==
    /\ pc[t] = "start"
    /\ IF job[t] \in Tracked THEN SetStatus(job[t], "Running") ELSE UNCHANGED status
    /\ Goto(t, "work")
    /\ UNCHANGED <<metadata, cancelled, pending, results, running_count, locals, history>>

\* A panic in the request leaves try_execute, and drain_ready, at once: the
\* slot is given back, the entry stays as it is.
WorkerPanics(t) ==
    /\ WorkersPanic
    /\ pc[t] = "work"
    /\ running_count' = running_count - 1
    /\ Goto(t, "idle")
    /\ panicked' = TRUE
    /\ UNCHANGED <<entries, cancelled, pending, results, locals, calls, completed, removed,
                   reused>>

\* Mutant of RecordFailure: a retry at once that is not counted.
RecordFailureRequeues(t, j) ==
    IF retry_count[j] < MaxRetries
      THEN Goto(t, "release") /\ SetStatus(j, "Queued") /\ UNCHANGED retry_count
      ELSE Goto(t, "clear") /\ SetStatus(j, "Failed") /\ UNCHANGED retry_count

\* A failed job may be retried, by a call of retry.
RecordFailure(t, j) ==
    IF retry_count[j] < MaxRetries
      THEN /\ Goto(t, "release") /\ SetStatus(j, "Retrying")
           /\ retry_count' = [retry_count EXCEPT ![j] = @ + 1]
      ELSE Goto(t, "clear") /\ SetStatus(j, "Failed") /\ UNCHANGED retry_count

\* Job j is cancelled, in its entry or by its token.
IsCancelled(j) == token[j] \in cancelled \/ status[j] = "Cancelled"

\* Mutant of Finish: only the token says that a job is cancelled, and then
\* its entry is left alone.
FinishLeavesCancelled(t) ==
    LET j == job[t] IN
    /\ pc[t] = "work"
    /\ \/ /\ j \notin Tracked \/ IsCancelled(j)
          /\ Goto(t, IF j \in Tracked THEN "clear" ELSE "release")
          /\ UNCHANGED <<status, retry_count>>
       \/ /\ j \in Tracked /\ ~IsCancelled(j)
          /\ Goto(t, "store") /\ SetStatus(j, "Completed") /\ UNCHANGED retry_count
       \/ /\ j \in Tracked /\ ~IsCancelled(j)
          /\ RecordFailure(t, j)
    /\ completed' = IF status'[j] = "Completed" THEN completed \cup {j} ELSE completed
    /\ UNCHANGED <<dependencies, token, cancelled, pending, results, running_count, job,
                   snapshot, given, calls, panicked, removed, reused>>

\* The worker pool answers, with a result or an error (as without a pool, or
\* when the result cannot be decoded), and the outcome is recorded in the
\* entry: one removed meanwhile is ignored, a cancelled one stays cancelled.
Finish(t) ==
    LET j == job[t] IN
    /\ pc[t] = "work"
    /\ \/ /\ j \notin Tracked
          /\ Goto(t, "release") /\ UNCHANGED <<status, retry_count>>
       \/ /\ j \in Tracked /\ IsCancelled(j)
          /\ Goto(t, "clear") /\ SetStatus(j, "Cancelled") /\ UNCHANGED retry_count
       \/ /\ j \in Tracked /\ ~IsCancelled(j)
          /\ Goto(t, "store") /\ SetStatus(j, "Completed") /\ UNCHANGED retry_count
       \/ /\ j \in Tracked /\ ~IsCancelled(j)
          /\ RecordFailure(t, j)
    /\ completed' = IF status'[j] = "Completed" THEN completed \cup {j} ELSE completed
    /\ UNCHANGED <<dependencies, token, cancelled, pending, results, running_count, job,
                   snapshot, given, calls, panicked, removed, reused>>

\* Mutant of StoreResult: not once the token is cancelled.
StoreUnlessCancelled(t) ==
    /\ pc[t] = "store"
    /\ results' = IF token[job[t]] \in cancelled THEN results ELSE results \cup {job[t]}
    /\ Goto(t, "clear")
    /\ UNCHANGED <<entries, cancelled, pending, running_count, locals, history>>

StoreResult(t) ==
    /\ pc[t] = "store"
    /\ results' = results \cup {job[t]}
    /\ Goto(t, "clear")
    /\ UNCHANGED <<entries, cancelled, pending, running_count, locals, history>>

ClearPending(t) ==
    /\ pc[t] = "clear"
    /\ pending' = pending \ {job[t]}
    /\ Goto(t, "release")
    /\ UNCHANGED <<entries, cancelled, results, running_count, locals, history>>

\* The RunningSlot is dropped when try_execute returns; the drain goes on.
ReleaseSlot(t) ==
    /\ pc[t] = "release"
    /\ running_count' = running_count - 1
    /\ Goto(t, "drain")
    /\ UNCHANGED <<entries, cancelled, pending, results, locals, history>>

Continue(t) ==
    \/ InsertPending(t) \/ CheckToken(t) \/ DropPending(t) \/ Requeue(t) \/ DropResult(t)
    \/ Snapshot(t) \/ Select(t) \/ Fetch(t) \/ FailUnavailable(t) \/ Acquire(t) \/ Start(t)
    \/ Finish(t) \/ StoreResult(t) \/ ClearPending(t) \/ ReleaseSlot(t)

Next ==
    \/ \E t \in Threads, j \in Jobs :
        \/ Schedule(t, j) \/ Cancel(t, j) \/ Pause(t, j) \/ Resume(t, j) \/ Retry(t, j)
        \/ RemoveTerminal(t, j)
    \/ \E t \in Threads : Continue(t) \/ WorkerPanics(t)
    \/ \E k \in Tokens : CancelToken(k)

Spec == Init /\ [][Next]_vars

\* Threads run and workers answer.
FairSpec == Spec /\ \A t \in Threads : WF_vars(Continue(t))

-----------------------------------------------------------------------------
HoldsSlot(t) == pc[t] \in {"start", "work", "store", "clear", "release"}

\* The counter is the number of threads that hold a slot, which the bound on
\* concurrency limits: no interleaving of acquisitions, panics and releases
\* runs one job too many or loses a slot for ever.
SlotsAreCounted ==
    /\ running_count = Cardinality({t \in Threads : HoldsSlot(t)})
    /\ running_count <= MaxConcurrent

\* When no thread is in a call, no job that could run is left waiting: a
\* drain that ends because the slots are taken leaves its job to the thread
\* that frees one, and a job another thread inserts is not overlooked by
\* both.  A request that panicked ended a drain before its end.
NothingReadyAtRest == Idle /\ ~panicked => Ready(pending) = {}

\* The dependencies of the tracked jobs have no cycle, in which every job
\* would wait for ever: each set of tracked jobs has one that depends on
\* none of the others.
NoDependencyCycle ==
    \A S \in SUBSET Tracked : S # {} => \E j \in S : dependencies[j] \cap S = {}

\* A job is shown as running only while a thread works on it: whoever
\* pauses, cancels, removes or runs it a second time meanwhile, no status
\* "Running" is left behind that nothing will end.  A request that panicked
\* leaves its job as it was.
RunningIsWorkedOn ==
    ~panicked => \A j \in Jobs : status[j] = "Running" =>
        \E t \in Threads : job[t] = j /\ pc[t] = "work"

\* When no thread is in a call, a job that will not run again has given its
\* payload back (test_cancelled_and_terminal_jobs_release_retained_state,
\* background_jobs.rs:2631), whoever cancelled or removed it, at any step of
\* a call about it.  A call about the removed job of the same id may still
\* be under way when an id is scheduled again.
PayloadsGivenBack ==
    Idle /\ ~reused => \A j \in pending :
        status[j] \in {"Queued", "Paused", "Retrying"} \/ (panicked /\ status[j] = "Running")

\* A job starts only after each job it depends on has completed ("IDs of jobs
\* that must complete before this job can start", background_jobs.rs:303),
\* whatever other threads do between the test and the start, until an id is
\* scheduled again, with other dependencies.
StartsAfterDependencies ==
    [][~reused => \A j \in Jobs : status[j] # "Running" /\ status'[j] = "Running" =>
            dependencies[j] \subseteq completed]_vars

\* When no thread is in a call, a completed job has its result ("Returns the
\* serialized result of a completed job", background_jobs.rs:956), although
\* the status and the result are written one after the other, and removed one
\* after the other.  There may be a result without a completed job.
CompletedHasResult ==
    Idle /\ ~reused => \A j \in Jobs : status[j] = "Completed" => j \in results

\* A terminal status is the last one of its job, until the job is removed
\* ("Whether this status is terminal", background_jobs.rs:260).
TerminalIsFinal ==
    [][\A j \in Jobs : status[j] \in Terminal => status'[j] \in {status[j], "absent"}]_vars

\* Every call returns: no drain goes round for ever.
CallsReturn == \A t \in Threads : pc[t] # "idle" ~> pc[t] = "idle"

=============================================================================
