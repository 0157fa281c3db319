------------------------- MODULE JobSchedulerProofs -------------------------
(***************************************************************************)
(* Proofs about JobScheduler, for any jobs and priorities, any finite set  *)
(* of threads and any limits, with workers that may panic.                 *)
(***************************************************************************)
EXTENDS JobScheduler, FiniteSetTheorems, TLAPS

\* The steps of calls in progress, by what they do to the entries: nothing,
\* or a new status for a job that is tracked and stays so.
QuietStep(t) ==
    InsertPending(t) \/ DropPending(t) \/ DropResult(t) \/ Snapshot(t) \/ Select(t)
    \/ Fetch(t) \/ Acquire(t) \/ WorkerPanics(t) \/ StoreResult(t)
    \/ ClearPending(t) \/ ReleaseSlot(t)
StatusStep(t) ==
    CheckToken(t) \/ Requeue(t) \/ FailUnavailable(t) \/ Start(t) \/ Finish(t)
StatusCall(t, j) == Cancel(t, j) \/ Pause(t, j) \/ Resume(t, j) \/ Retry(t, j)

\* The steps of Next, in those groups.
LEMMA NextCases ==
    ASSUME [Next]_vars
    PROVE  \/ \E t \in Threads, j \in Jobs :
                Schedule(t, j) \/ RemoveTerminal(t, j) \/ StatusCall(t, j)
           \/ \E t \in Threads : QuietStep(t) \/ StatusStep(t)
           \/ \E k \in Tokens : CancelToken(k)
           \/ UNCHANGED vars
BY DEF Next, Continue, QuietStep, StatusStep, StatusCall

\* What the end of a job does to its entry: nothing when it was removed, a
\* terminal status, or a retry within the limit.
LEMMA FinishCases ==
    ASSUME NEW t \in Threads, Finish(t)
    PROVE  \/ status' = status /\ retry_count' = retry_count
           \/ /\ job[t] \in Tracked
              /\ \E s \in Terminal : status' = [status EXCEPT ![job[t]] = s]
              /\ retry_count' = retry_count
           \/ /\ job[t] \in Tracked
              /\ retry_count[job[t]] < MaxRetries
              /\ status' = [status EXCEPT ![job[t]] = "Retrying"]
              /\ retry_count' = [retry_count EXCEPT ![job[t]] = @ + 1]
<1> DEFINE gone == IsCancelled(job[t])
<1>1. CASE job[t] \notin Tracked
  BY <1>1 DEF Finish
<1>2. CASE job[t] \in Tracked /\ gone
  BY <1>2 DEF Finish, SetStatus, Terminal
<1>3. CASE job[t] \in Tracked /\ ~gone
  <2>1. CASE SetStatus(job[t], "Completed") /\ UNCHANGED retry_count
    BY <1>3, <2>1 DEF SetStatus, Terminal
  <2>2. CASE RecordFailure(t, job[t])
    BY <1>3, <2>2 DEF RecordFailure, SetStatus, Terminal
  <2> QED
    BY <1>3, <2>1, <2>2 DEF Finish
<1> QED
  BY <1>1, <1>2, <1>3

-----------------------------------------------------------------------------
(* Types.                                                                  *)

\* The initial state has the right types.
LEMMA InitTypes == Init => TypeOK
<1> SUFFICES ASSUME Init
             PROVE  TypeOK
  OBVIOUS
<1>1. job \in [Threads -> Jobs]
  BY DEF Init
<1>2. retry_count \in [Jobs -> 0 .. MaxRetries] /\ calls \in 0 .. MaxCalls
  BY JobSchedulerAssumption DEF Init
<1>3. pc \in [Threads -> Draining \cup {"idle", "insert_pending", "check_token", "requeue",
                                        "drop_result", "drop_pending"}]
  BY DEF Init
<1>4. panicked \in BOOLEAN /\ reused \in BOOLEAN
  BY DEF Init
<1>5. token \in [Jobs -> Tokens] /\ given \in [Threads -> Tokens]
  BY DEF Init
<1> QED
  BY <1>1, <1>2, <1>3, <1>4, <1>5 DEF Init, TypeOK, Status

\* So has every step; the counter does not go below zero because whoever
\* gives a slot back is counted.
LEMMA TypeStep ==
    ASSUME TypeOK, [Next]_vars,
           \A t \in Threads : pc[t] \in {"work", "release"} => running_count > 0
    PROVE  TypeOK'
<1> USE DEF TypeOK, Status, Draining, Terminal, Goto, SetStatus, metadata, entries, locals, history
<1>1. CASE \E t \in Threads, j \in Jobs : Schedule(t, j)
  <2> PICK t \in Threads, j \in Jobs : Schedule(t, j)
    BY <1>1
  <2>1. retry_count' \in [Jobs -> 0 .. MaxRetries]
    BY JobSchedulerAssumption DEF Schedule
  <2>2. dependencies' \in [Jobs -> SUBSET Jobs]
    BY JobSchedulerAssumption DEF Schedule
  <2>3. calls' \in 0 .. MaxCalls
    BY JobSchedulerAssumption DEF Schedule, Calls
  <2>4. token' \in [Jobs -> Tokens] /\ given' \in [Threads -> Tokens]
    BY DEF Schedule
  <2>5. /\ status' \in [Jobs -> Status]
        /\ job' \in [Threads -> Jobs]
    BY DEF Schedule, Calls
  <2>6. pc' \in [Threads -> Draining \cup {"idle", "insert_pending", "check_token", "requeue",
                                        "drop_result", "drop_pending"}]
    BY DEF Schedule, Calls
  <2> QED
    BY <2>1, <2>2, <2>3, <2>4, <2>5, <2>6 DEF Schedule, Calls
<1>2. CASE \E t \in Threads, j \in Jobs : RemoveTerminal(t, j)
  <2> PICK t \in Threads, j \in Jobs : RemoveTerminal(t, j)
    BY <1>2
  <2>1. calls' \in 0 .. MaxCalls
    BY JobSchedulerAssumption DEF RemoveTerminal, Calls
  <2>2. retry_count' \in [Jobs -> 0 .. MaxRetries]
    BY JobSchedulerAssumption DEF RemoveTerminal
  <2> QED
    BY <2>1, <2>2 DEF RemoveTerminal, Calls
<1>3. CASE \E t \in Threads, j \in Jobs : StatusCall(t, j)
  <2> PICK t \in Threads, j \in Jobs : StatusCall(t, j)
    BY <1>3
  <2>1. calls' \in 0 .. MaxCalls
    BY JobSchedulerAssumption DEF StatusCall, Cancel, Pause, Resume, Retry, Calls
  <2> QED
    BY <2>1 DEF StatusCall, Cancel, Pause, Resume, Retry, Calls
<1>4. CASE \E t \in Threads : QuietStep(t)
  <2> PICK t \in Threads : QuietStep(t)
    BY <1>4
  <2>1. CASE InsertPending(t) \/ DropPending(t) \/ DropResult(t) \/ StoreResult(t)
             \/ ClearPending(t)
    BY <2>1 DEF InsertPending, DropPending, DropResult, StoreResult, ClearPending
  <2>2. CASE Snapshot(t)
    BY <2>2 DEF Snapshot
  <2>3. CASE Select(t)
    BY <2>3 DEF Select, Ready
  <2>4. CASE Acquire(t)
    BY <2>4 DEF Acquire
  <2>5. CASE WorkerPanics(t)
    BY <2>5 DEF WorkerPanics
  <2>6. CASE ReleaseSlot(t)
    BY <2>6 DEF ReleaseSlot
  <2>7. CASE Fetch(t)
    BY <2>7 DEF Fetch
  <2> QED
    BY <2>1, <2>2, <2>3, <2>4, <2>5, <2>6, <2>7 DEF QuietStep
<1>5. CASE \E t \in Threads : StatusStep(t)
  <2> PICK t \in Threads : StatusStep(t)
    BY <1>5
  <2>1. CASE CheckToken(t) \/ Requeue(t) \/ FailUnavailable(t) \/ Start(t)
    BY <2>1 DEF CheckToken, Requeue, FailUnavailable, Start
  <2>2. CASE Finish(t)
    <3>1. retry_count' \in [Jobs -> 0 .. MaxRetries]
      BY <2>2, FinishCases, JobSchedulerAssumption
    <3>2. status' \in [Jobs -> Status]
      BY <2>2, FinishCases
    <3>3. \E next \in {"release", "clear", "store"} : pc' = [pc EXCEPT ![t] = next]
      BY <2>2 DEF Finish, RecordFailure
    <3>4. pc' \in [Threads -> Draining \cup {"idle", "insert_pending", "check_token", "requeue",
                                             "drop_result", "drop_pending"}]
      BY <3>3
    <3>5. completed' \in SUBSET Jobs
      BY <2>2 DEF Finish
    <3> QED
      BY <2>2, <3>1, <3>2, <3>4, <3>5 DEF Finish
  <2> QED
    BY <2>1, <2>2 DEF StatusStep
<1>6. CASE \E k \in Tokens : CancelToken(k)
  BY <1>6, JobSchedulerAssumption DEF CancelToken
<1>7. CASE UNCHANGED vars
  BY <1>7 DEF vars
<1> QED
  BY <1>1, <1>2, <1>3, <1>4, <1>5, <1>6, <1>7, NextCases

-----------------------------------------------------------------------------
(* Slots.                                                                  *)

Holders == {t \in Threads : HoldsSlot(t)}

\* The holders can be counted, and a thread among them counts.
LEMMA HoldersCount ==
    /\ IsFiniteSet(Holders) /\ Cardinality(Holders) \in Nat
    /\ \A t \in Threads : HoldsSlot(t) => Cardinality(Holders) > 0
<1>1. IsFiniteSet(Holders) /\ Cardinality(Holders) \in Nat
  BY JobSchedulerAssumption, FS_Subset, FS_CardinalityType DEF Holders
<1>2. ASSUME NEW t \in Threads, HoldsSlot(t)
      PROVE  Cardinality(Holders) > 0
  <2>1. Holders # {}
    BY <1>2 DEF Holders
  <2>2. Cardinality(Holders) # 0
    BY <1>1, <2>1, FS_EmptySet
  <2> QED
    BY <1>1, <2>2
<1> QED
  BY <1>1, <1>2

\* A thread that goes from outside of the slots to inside is one holder more,
\* one that leaves is one less, and other moves change nothing.
LEMMA MoveCounts ==
    ASSUME TypeOK, NEW t \in Threads, NEW next, pc' = [pc EXCEPT ![t] = next]
    PROVE  /\ HoldsSlot(t)' <=> next \in {"start", "work", "store", "clear", "release"}
           /\ HoldsSlot(t)' /\ ~HoldsSlot(t) =>
                  Cardinality(Holders') = Cardinality(Holders) + 1
           /\ ~HoldsSlot(t)' /\ HoldsSlot(t) =>
                  Cardinality(Holders') = Cardinality(Holders) - 1
           /\ (HoldsSlot(t)' <=> HoldsSlot(t)) => Holders' = Holders
<1>1. pc'[t] = next /\ \A u \in Threads \ {t} : pc'[u] = pc[u]
  BY DEF TypeOK
<1>2. HoldsSlot(t)' <=> next \in {"start", "work", "store", "clear", "release"}
  BY <1>1 DEF HoldsSlot
<1>3. \A u \in Threads \ {t} : HoldsSlot(u)' <=> HoldsSlot(u)
  BY <1>1 DEF HoldsSlot
<1>4. CASE HoldsSlot(t)' /\ ~HoldsSlot(t)
  <2>1. Holders' = Holders \cup {t} /\ t \notin Holders
    BY <1>3, <1>4 DEF Holders
  <2> QED
    BY <1>2, <1>4, <2>1, HoldersCount, FS_AddElement
<1>5. CASE ~HoldsSlot(t)' /\ HoldsSlot(t)
  <2>1. Holders' = Holders \ {t} /\ t \in Holders
    BY <1>3, <1>5 DEF Holders
  <2> QED
    BY <1>2, <1>5, <2>1, HoldersCount, FS_RemoveElement
<1>6. CASE HoldsSlot(t)' <=> HoldsSlot(t)
  <2>1. Holders' = Holders
    BY <1>3, <1>6 DEF Holders
  <2> QED
    BY <1>2, <1>6, <2>1
<1> QED
  BY <1>4, <1>5, <1>6

\* A step that moves one thread and leaves the counter alone, where the
\* thread holds a slot before and after or neither, keeps the count.
LEMMA SlotsUnmoved ==
    ASSUME TypeOK, SlotsAreCounted, NEW t \in Threads, NEW next,
           pc' = [pc EXCEPT ![t] = next], running_count' = running_count,
           HoldsSlot(t) <=> next \in {"start", "work", "store", "clear", "release"}
    PROVE  SlotsAreCounted'
<1>1. Holders' = Holders
  BY MoveCounts
<1> QED
  BY <1>1 DEF SlotsAreCounted, Holders

\* Slots stay counted and within the limit: a slot is taken only below the
\* limit, and every way out of the work, the panic included, gives it back.
LEMMA SlotsStep ==
    ASSUME TypeOK, SlotsAreCounted, [Next]_vars
    PROVE  SlotsAreCounted'
<1>1. running_count = Cardinality(Holders) /\ running_count <= MaxConcurrent
  BY DEF SlotsAreCounted, Holders
<1>2. SUFFICES running_count' = Cardinality(Holders') /\ running_count' <= MaxConcurrent
  BY DEF SlotsAreCounted, Holders
<1>3. MaxConcurrent \in Nat /\ running_count \in Nat
  BY JobSchedulerAssumption DEF TypeOK
<1> USE DEF Goto
<1>4. CASE \E t \in Threads, j \in Jobs :
             Schedule(t, j) \/ RemoveTerminal(t, j) \/ StatusCall(t, j)
  <2> PICK t \in Threads, j \in Jobs :
             Schedule(t, j) \/ RemoveTerminal(t, j) \/ StatusCall(t, j)
    BY <1>4
  <2>1. PICK next \in {"insert_pending", "drop_pending", "idle", "drain", "requeue",
                       "drop_result"} : Calls(t, j, next)
    BY DEF Schedule, RemoveTerminal, StatusCall, Cancel, Pause, Resume, Retry
  <2>2. running_count' = running_count
    BY DEF Schedule, RemoveTerminal, StatusCall, Cancel, Pause, Resume, Retry, entries
  <2> QED
    BY <2>1, <2>2, SlotsUnmoved, <1>2 DEF Calls, HoldsSlot, SlotsAreCounted, Holders
<1>5. CASE \E t \in Threads : StatusStep(t)
  <2> PICK t \in Threads : StatusStep(t)
    BY <1>5
  <2>1. running_count' = running_count
    BY DEF StatusStep, CheckToken, Requeue, FailUnavailable, Start, Finish
  <2>2. \E next : /\ pc' = [pc EXCEPT ![t] = next]
                  /\ HoldsSlot(t) <=> next \in {"start", "work", "store", "clear",
                                                "release"}
    BY DEF StatusStep, CheckToken, Requeue, FailUnavailable, Start, Finish, RecordFailure, HoldsSlot
  <2> QED
    BY <2>1, <2>2, SlotsUnmoved DEF SlotsAreCounted, Holders
<1>6. CASE \E t \in Threads : QuietStep(t) /\ ~Acquire(t) /\ ~WorkerPanics(t) /\ ~ReleaseSlot(t)
  <2> PICK t \in Threads : QuietStep(t) /\ ~Acquire(t) /\ ~WorkerPanics(t) /\ ~ReleaseSlot(t)
    BY <1>6
  <2>1. running_count' = running_count
    BY DEF QuietStep, InsertPending, DropPending, DropResult, Snapshot, Select, Fetch,
           StoreResult, ClearPending
  <2>2. \E next : /\ pc' = [pc EXCEPT ![t] = next]
                  /\ HoldsSlot(t) <=> next \in {"start", "work", "store", "clear",
                                                "release"}
    BY DEF QuietStep, InsertPending, DropPending, DropResult, Snapshot, Select, Fetch,
           StoreResult, ClearPending, HoldsSlot
  <2> QED
    BY <2>1, <2>2, SlotsUnmoved DEF SlotsAreCounted, Holders
<1>7. CASE \E t \in Threads : Acquire(t)
  <2> PICK t \in Threads : Acquire(t)
    BY <1>7
  <2>1. CASE running_count < MaxConcurrent
    <3>1. Cardinality(Holders') = Cardinality(Holders) + 1
      BY <2>1, MoveCounts DEF Acquire, HoldsSlot
    <3> QED
      BY <1>1, <1>3, <2>1, <3>1 DEF Acquire
  <2>2. CASE ~(running_count < MaxConcurrent)
    <3>1. Holders' = Holders
      BY <2>2, MoveCounts DEF Acquire, HoldsSlot
    <3> QED
      BY <1>1, <2>2, <3>1 DEF Acquire
  <2> QED
    BY <2>1, <2>2
<1>8. CASE \E t \in Threads : WorkerPanics(t) \/ ReleaseSlot(t)
  <2> PICK t \in Threads : WorkerPanics(t) \/ ReleaseSlot(t)
    BY <1>8
  <2>1. \E next \in {"idle", "drain"} : pc' = [pc EXCEPT ![t] = next]
    BY DEF WorkerPanics, ReleaseSlot
  <2>2. HoldsSlot(t)
    BY DEF WorkerPanics, ReleaseSlot, HoldsSlot
  <2>3. Cardinality(Holders') = Cardinality(Holders) - 1
    BY <2>1, <2>2, MoveCounts
  <2>4. running_count' = running_count - 1
    BY DEF WorkerPanics, ReleaseSlot
  <2> QED
    BY <1>1, <1>3, <2>3, <2>4
<1>9. CASE (\E k \in Tokens : CancelToken(k)) \/ UNCHANGED vars
  BY <1>1, <1>9 DEF CancelToken, vars, Holders, HoldsSlot
<1> QED
  BY <1>4, <1>5, <1>6, <1>7, <1>8, <1>9, NextCases

-----------------------------------------------------------------------------
(* Dependencies.                                                           *)

\* Apart from schedule and remove_terminal no step changes which jobs are
\* tracked, or what they depend on.
LEMMA DependenciesKept ==
    ASSUME TypeOK, [Next]_vars,
           \A t \in Threads, j \in Jobs : ~Schedule(t, j) /\ ~RemoveTerminal(t, j)
    PROVE  dependencies' = dependencies /\ Tracked' = Tracked
<1> USE DEF TypeOK, SetStatus, metadata, entries, Tracked
<1>1. CASE \E t \in Threads, j \in Jobs : StatusCall(t, j)
  BY <1>1 DEF StatusCall, Cancel, Pause, Resume, Retry
<1>2. CASE \E t \in Threads : QuietStep(t)
  BY <1>2 DEF QuietStep, InsertPending, DropPending, DropResult, Snapshot, Select, Fetch, Acquire,
              WorkerPanics, StoreResult, ClearPending, ReleaseSlot
<1>3. CASE \E t \in Threads : StatusStep(t)
  <2> PICK t \in Threads : StatusStep(t)
    BY <1>3
  <2>1. CASE CheckToken(t) \/ Requeue(t) \/ FailUnavailable(t) \/ Start(t)
    BY <2>1 DEF CheckToken, Requeue, FailUnavailable, Start
  <2>2. CASE Finish(t)
    <3>1. dependencies' = dependencies
      BY <2>2 DEF Finish
    <3> QED
      BY <2>2, <3>1, FinishCases DEF Terminal
  <2> QED
    BY <2>1, <2>2 DEF StatusStep
<1>4. CASE \E k \in Tokens : CancelToken(k)
  BY <1>4 DEF CancelToken
<1>5. CASE UNCHANGED vars
  BY <1>5 DEF vars
<1> QED
  BY <1>1, <1>2, <1>3, <1>4, <1>5, NextCases

\* A job whose dependencies do not reach it closes no cycle.  In a set of
\* jobs that all depend on each other, the new one, j, has a dependency d.
\* What d reaches is a set without j, and its part of S would have been such
\* a set before.
LEMMA ScheduleClosesNoCycle ==
    ASSUME TypeOK, NoDependencyCycle, NEW t \in Threads, NEW j \in Jobs, Schedule(t, j)
    PROVE  NoDependencyCycle'
<1> SUFFICES ASSUME NEW S \in SUBSET Tracked', S # {},
                    \A k \in S : dependencies'[k] \cap S # {}
             PROVE  FALSE
  BY DEF NoDependencyCycle
<1>1. PICK D \in DependencyLists :
          /\ \A d \in D : ~DependencyReaches(d, j)
          /\ dependencies' = [dependencies EXCEPT ![j] = D]
  BY DEF Schedule
<1>2. D \subseteq Jobs
  BY JobSchedulerAssumption
<1>3. Tracked' = Tracked \cup {j} /\ j \notin Tracked
  BY DEF Schedule, SetStatus, Tracked, TypeOK
<1>4. dependencies'[j] = D /\ \A k \in Jobs \ {j} : dependencies'[k] = dependencies[k]
  BY <1>1 DEF TypeOK
<1>5. j \in S
  <2> SUFFICES ASSUME j \notin S
               PROVE  FALSE
    OBVIOUS
  <2>1. S \subseteq Tracked
    BY <1>3
  <2>2. \A k \in S : dependencies[k] \cap S # {}
    BY <1>4, <2>1 DEF Tracked
  <2> QED
    BY <2>1, <2>2 DEF NoDependencyCycle
<1>6. PICK d \in D : d \in S
  BY <1>4, <1>5
<1>7. PICK C \in SUBSET Jobs :
          /\ d \in C /\ j \notin C
          /\ \A k \in C \cap Tracked : dependencies[k] \subseteq C
  BY <1>1, <1>6 DEF DependencyReaches
<1>8. S \cap C \subseteq Tracked /\ S \cap C # {}
  BY <1>3, <1>6, <1>7
<1>9. ASSUME NEW k \in S \cap C
      PROVE  dependencies[k] \cap (S \cap C) # {}
  <2>1. k \in Tracked /\ k \in Jobs \ {j}
    BY <1>7, <1>8
  <2>2. dependencies[k] \subseteq C
    BY <1>7, <2>1
  <2>3. dependencies[k] \cap S # {}
    BY <1>4, <2>1
  <2> QED
    BY <2>2, <2>3
<1> QED
  BY <1>8, <1>9 DEF NoDependencyCycle

\* No step closes a cycle.
LEMMA CycleStep ==
    ASSUME TypeOK, NoDependencyCycle, [Next]_vars
    PROVE  NoDependencyCycle'
<1>1. CASE \E t \in Threads, j \in Jobs : Schedule(t, j)
  BY <1>1, ScheduleClosesNoCycle
<1>2. CASE \E t \in Threads, j \in Jobs : RemoveTerminal(t, j)
  <2> PICK t \in Threads, j \in Jobs : RemoveTerminal(t, j)
    BY <1>2
  <2>1. Tracked' = Tracked \ {j}
    BY DEF RemoveTerminal, SetStatus, Tracked, TypeOK
  <2>2. \A k \in Jobs \ {j} : dependencies'[k] = dependencies[k]
    BY DEF RemoveTerminal, TypeOK
  <2> QED
    BY <2>1, <2>2 DEF NoDependencyCycle, Tracked
<1>3. CASE \A t \in Threads, j \in Jobs : ~Schedule(t, j) /\ ~RemoveTerminal(t, j)
  BY <1>3, DependenciesKept DEF NoDependencyCycle
<1> QED
  BY <1>1, <1>2, <1>3

-----------------------------------------------------------------------------
(* No ready job is overlooked.                                             *)

\* Thread t is going to look for a ready job after now, or looks at a
\* snapshot with j, or is the one that schedules j.
LooksFor(t, j) ==
    \/ pc[t] \in {"drain", "fetch", "fail", "acquire"} \/ HoldsSlot(t)
    \/ pc[t] = "select" /\ j \in snapshot[t]
    \/ pc[t] \in {"insert_pending", "check_token"} /\ job[t] = j

\* As long as no request panicked, some thread is going to look for each job
\* that is ready.
LookedFor == panicked \/ \A j \in Ready(pending) : \E t \in Threads : LooksFor(t, j)

\* A drain gives up when it finds no job in its snapshot ready, and when the
\* slots are taken, by threads that look again; a job becomes ready in the
\* hands of a thread that drains next.
LEMMA LookedForStep ==
    ASSUME MaxConcurrent > 0, TypeOK, TypeOK', SlotsAreCounted, LookedFor, [Next]_vars
    PROVE  LookedFor'
<1> SUFFICES ASSUME ~panicked', NEW j \in Ready(pending)'
             PROVE  \E t \in Threads : LooksFor(t, j)'
  BY DEF LookedFor
<1> DEFINE Goal == \E t \in Threads : LooksFor(t, j)'
<1> USE DEF TypeOK, Goto, SetStatus, metadata, entries, locals, history
<1>1. j \in Jobs /\ j \in pending' /\ status'[j] = "Queued"
      /\ \A d \in dependencies'[j] : status'[d] = "Completed"
  BY DEF Ready, DependenciesMet
<1>2. ASSUME ~panicked, j \in pending, status[j] = "Queued", DependenciesMet(j)
      PROVE  \E u \in Threads : LooksFor(u, j)
  BY <1>2 DEF LookedFor, Ready
<1>3. ASSUME NEW t \in Threads, pc'[t] = "drain" \/ HoldsSlot(t)' \/ pc'[t] \in {"fetch", "fail", "acquire"}
      PROVE  Goal
  BY <1>3 DEF LooksFor, HoldsSlot
<1>4. ASSUME NEW t \in Threads, ~LooksFor(t, j) \/ LooksFor(t, j)', ~panicked,
             \A u \in Threads \ {t} :
                pc'[u] = pc[u] /\ job'[u] = job[u] /\ snapshot'[u] = snapshot[u],
             j \in pending, status[j] = "Queued", DependenciesMet(j)
      PROVE  Goal
  <2>1. PICK u \in Threads : LooksFor(u, j)
    BY <1>2, <1>4
  <2>2. CASE u = t
    BY <1>4, <2>1, <2>2
  <2>3. CASE u # t
    BY <1>4, <2>1, <2>3 DEF LooksFor, HoldsSlot
  <2> QED
    BY <2>2, <2>3
<1>5. ASSUME UNCHANGED <<status, dependencies>>, ~panicked
      PROVE  status[j] = "Queued" /\ DependenciesMet(j)
  BY <1>1, <1>5 DEF DependenciesMet
<1>6. ASSUME NEW k \in Jobs, NEW s \in Status \ {"Queued", "Completed"},
             status' = [status EXCEPT ![k] = s], dependencies' = dependencies \/ k # j,
             \A i \in Jobs \ {k} : dependencies'[i] = dependencies[i]
      PROVE  status[j] = "Queued" /\ DependenciesMet(j)
  <2>1. j # k /\ status[j] = "Queued" /\ dependencies'[j] = dependencies[j]
    BY <1>1, <1>6
  <2>2. \A d \in Jobs : status'[d] = "Completed" => status[d] = "Completed"
    BY <1>6
  <2> QED
    BY <1>1, <2>1, <2>2 DEF DependenciesMet
<1> HIDE DEF Goal
<1>7. ASSUME NEW t \in Threads, NEW k \in Jobs, Schedule(t, k) PROVE Goal
  <2>1. /\ pc' = [pc EXCEPT ![t] = "insert_pending"] /\ job' = [job EXCEPT ![t] = k]
        /\ UNCHANGED <<snapshot, panicked, pending>> /\ pc[t] = "idle"
        /\ status' = [status EXCEPT ![k] = "Queued"]
        /\ \A i \in Jobs \ {k} : dependencies'[i] = dependencies[i]
    BY <1>7 DEF Schedule, Calls
  <2>2. CASE k = j
    BY <2>1, <2>2 DEF Goal, LooksFor
  <2>3. CASE k # j
    <3>1. status[j] = "Queued" /\ dependencies'[j] = dependencies[j]
      BY <1>1, <2>1, <2>3
    <3>2. \A d \in Jobs : status'[d] = "Completed" => status[d] = "Completed"
      BY <2>1
    <3>3. DependenciesMet(j)
      BY <1>1, <3>1, <3>2 DEF DependenciesMet
    <3> QED
      BY <1>1, <1>4, <2>1, <3>1, <3>3 DEF LooksFor, HoldsSlot
  <2> QED
    BY <2>2, <2>3
<1>8. ASSUME NEW t \in Threads, NEW k \in Jobs, Cancel(t, k) \/ Pause(t, k) \/ RemoveTerminal(t, k)
      PROVE Goal
  <2>1. /\ pc[t] = "idle" /\ UNCHANGED <<pending, panicked, snapshot>>
        /\ \A u \in Threads \ {t} : pc'[u] = pc[u] /\ job'[u] = job[u]
        /\ \E s \in Status \ {"Queued", "Completed"} : status' = [status EXCEPT ![k] = s]
        /\ \A i \in Jobs \ {k} : dependencies'[i] = dependencies[i]
    BY <1>8 DEF Cancel, Pause, RemoveTerminal, Calls, Status, Terminal
  <2>2. status[j] = "Queued" /\ DependenciesMet(j)
    <3>1. k # j
      BY <1>1, <2>1
    <3> QED
      BY <1>6, <2>1, <3>1
  <2>3. ~LooksFor(t, j)
    BY <2>1 DEF LooksFor, HoldsSlot
  <2> QED
    BY <1>1, <1>4, <2>1, <2>2, <2>3
<1>9. ASSUME NEW t \in Threads, NEW k \in Jobs, Resume(t, k) PROVE Goal
  BY <1>3, <1>9 DEF Resume, Calls
<1>10. ASSUME NEW t \in Threads, NEW k \in Jobs, Retry(t, k) PROVE Goal
  <2>1. /\ pc[t] = "idle" /\ UNCHANGED <<pending, panicked, snapshot, status, dependencies>>
        /\ \A u \in Threads \ {t} : pc'[u] = pc[u] /\ job'[u] = job[u]
    BY <1>10 DEF Retry, Calls
  <2> QED
    BY <1>1, <1>4, <1>5, <2>1 DEF LooksFor, HoldsSlot
<1>11. ASSUME NEW t \in Threads, InsertPending(t) PROVE Goal
  <2>1. /\ pc[t] = "insert_pending" /\ pc' = [pc EXCEPT ![t] = "check_token"]
        /\ pending' = pending \cup {job[t]}
        /\ UNCHANGED <<job, snapshot, panicked, status, dependencies>>
    BY <1>11 DEF InsertPending
  <2>2. CASE j = job[t]
    BY <2>1, <2>2 DEF Goal, LooksFor
  <2>3. CASE j # job[t]
    BY <1>1, <1>4, <1>5, <2>1, <2>3 DEF LooksFor, HoldsSlot
  <2> QED
    BY <2>2, <2>3
<1>12. ASSUME NEW t \in Threads, CheckToken(t) PROVE Goal
  <2>1. CASE given[t] \notin cancelled
    BY <1>3, <1>12, <2>1 DEF CheckToken
  <2>2. CASE given[t] \in cancelled /\ job[t] \in Tracked
    <3>1. /\ pc[t] = "check_token" /\ pc' = [pc EXCEPT ![t] = "drop_pending"]
          /\ UNCHANGED <<job, snapshot, panicked, pending, dependencies>>
          /\ status' = [status EXCEPT ![job[t]] = "Cancelled"] /\ job[t] \in Jobs
      BY <1>12, <2>2 DEF CheckToken
    <3>2. job[t] # j
      BY <1>1, <3>1
    <3>3. "Cancelled" \in Status \ {"Queued", "Completed"}
      BY DEF Status, Terminal
    <3>4. status[j] = "Queued" /\ DependenciesMet(j)
      BY <1>6, <3>1, <3>2, <3>3
    <3> QED
      BY <1>1, <1>4, <3>1, <3>2, <3>4 DEF LooksFor, HoldsSlot
  <2>3. CASE given[t] \in cancelled /\ job[t] \notin Tracked
    <3>1. /\ pc[t] = "check_token" /\ pc' = [pc EXCEPT ![t] = "drop_pending"]
          /\ UNCHANGED <<job, snapshot, panicked, pending, dependencies, status>>
      BY <1>12, <2>3 DEF CheckToken
    <3>2. job[t] # j
      BY <1>1, <2>3, <3>1 DEF Tracked
    <3> QED
      BY <1>1, <1>4, <1>5, <3>1, <3>2 DEF LooksFor, HoldsSlot
  <2> QED
    BY <2>1, <2>2, <2>3
<1>13. ASSUME NEW t \in Threads, DropPending(t) \/ DropResult(t) PROVE Goal
  <2>1. /\ pc[t] \in {"drop_pending", "drop_result"} /\ pending' \subseteq pending
        /\ UNCHANGED <<job, snapshot, panicked, dependencies, status>>
        /\ \A u \in Threads \ {t} : pc'[u] = pc[u]
    BY <1>13 DEF DropPending, DropResult
  <2> QED
    BY <1>1, <1>4, <1>5, <2>1 DEF LooksFor, HoldsSlot
<1>14. ASSUME NEW t \in Threads, Requeue(t) PROVE Goal
  <2>1. CASE status[job[t]] = "Retrying"
    BY <1>3, <1>14, <2>1 DEF Requeue
  <2>2. CASE status[job[t]] # "Retrying"
    <3>1. /\ pc[t] = "requeue" /\ pc' = [pc EXCEPT ![t] = "idle"]
          /\ UNCHANGED <<job, snapshot, panicked, pending, dependencies, status>>
      BY <1>14, <2>2 DEF Requeue
    <3> QED
      BY <1>1, <1>4, <1>5, <3>1 DEF LooksFor, HoldsSlot
  <2> QED
    BY <2>1, <2>2
<1>15. ASSUME NEW t \in Threads, Snapshot(t) PROVE Goal
  <2>1. pc'[t] = "select" /\ snapshot'[t] = pending /\ pending' = pending
    BY <1>15 DEF Snapshot
  <2> QED
    BY <1>1, <2>1 DEF Goal, LooksFor
<1>16. ASSUME NEW t \in Threads, Select(t) PROVE Goal
  <2>1. CASE Ready(snapshot[t]) # {}
    BY <1>3, <1>16, <2>1 DEF Select
  <2>2. CASE Ready(snapshot[t]) = {}
    <3>1. /\ pc[t] = "select" /\ pc' = [pc EXCEPT ![t] = "idle"]
          /\ snapshot' = [snapshot EXCEPT ![t] = {}]
          /\ UNCHANGED <<job, panicked, pending, dependencies, status>>
      BY <1>16, <2>2 DEF Select
    <3>2. status[j] = "Queued" /\ DependenciesMet(j)
      BY <1>5, <3>1
    <3>3. j \notin snapshot[t]
      BY <2>2, <3>2 DEF Ready
    <3> QED
      BY <1>1, <1>4, <3>1, <3>2, <3>3 DEF LooksFor, HoldsSlot
  <2> QED
    BY <2>1, <2>2
<1>17. ASSUME NEW t \in Threads, Fetch(t) \/ FailUnavailable(t) PROVE Goal
  BY <1>3, <1>17 DEF Fetch, FailUnavailable
<1>18. ASSUME NEW t \in Threads, Acquire(t) PROVE Goal
  <2>1. CASE running_count < MaxConcurrent
    BY <1>3, <1>18, <2>1 DEF Acquire, HoldsSlot
  <2>2. CASE ~(running_count < MaxConcurrent)
    <3>1. Cardinality(Holders) # 0
      BY <2>2, JobSchedulerAssumption DEF SlotsAreCounted, Holders
    <3>2. Holders # {}
      BY <3>1, FS_EmptySet
    <3>3. PICK u \in Threads : HoldsSlot(u)
      BY <3>2 DEF Holders
    <3>4. pc[t] = "acquire" /\ pc' = [pc EXCEPT ![t] = "idle"]
      BY <1>18, <2>2 DEF Acquire
    <3>5. HoldsSlot(u)'
      BY <3>3, <3>4 DEF HoldsSlot
    <3> QED
      BY <1>3, <3>5
  <2> QED
    BY <2>1, <2>2
<1>19. ASSUME NEW t \in Threads,
              Start(t) \/ Finish(t) \/ StoreResult(t) \/ ClearPending(t)
                \/ ReleaseSlot(t)
       PROVE Goal
  <2>1. CASE Start(t) \/ StoreResult(t) \/ ClearPending(t) \/ ReleaseSlot(t)
    BY <1>3, <2>1 DEF Start, StoreResult, ClearPending, ReleaseSlot, HoldsSlot
  <2>2. CASE Finish(t)
    <3>1. \E next \in {"release", "clear", "store"} : pc' = [pc EXCEPT ![t] = next]
      BY <2>2 DEF Finish, RecordFailure
    <3> QED
      BY <1>3, <3>1 DEF HoldsSlot
  <2> QED
    BY <1>19, <2>1, <2>2
<1>20. ASSUME NEW t \in Threads, WorkerPanics(t) PROVE Goal
  BY <1>20 DEF WorkerPanics
<1>21. CASE (\E k \in Tokens : CancelToken(k)) \/ UNCHANGED vars
  <2>1. UNCHANGED <<pc, job, snapshot, panicked, pending, dependencies, status>>
    BY <1>21 DEF CancelToken, vars
  <2>2. PICK u \in Threads : LooksFor(u, j)
    BY <1>1, <1>2, <1>5, <2>1
  <2> QED
    BY <2>1, <2>2 DEF Goal, LooksFor, HoldsSlot
<1> QED
  BY <1>7, <1>8, <1>9, <1>10, <1>11, <1>12, <1>13, <1>14, <1>15, <1>16, <1>17, <1>18, <1>19,
     <1>20, <1>21 DEF Next, Continue, Goal

-----------------------------------------------------------------------------
(* Running jobs.                                                           *)

\* No step leaves a running job without a thread that works on it: only the
\* thread that will end it makes it running.
LEMMA RunningStep ==
    ASSUME TypeOK, RunningIsWorkedOn, [Next]_vars
    PROVE  RunningIsWorkedOn'
<1> SUFFICES ASSUME ~panicked', NEW j \in Jobs, status'[j] = "Running"
             PROVE  \E t \in Threads : job'[t] = j /\ pc'[t] = "work"
  BY DEF RunningIsWorkedOn
<1> DEFINE Goal == \E t \in Threads : job'[t] = j /\ pc'[t] = "work"
<1> USE DEF TypeOK, Goto, SetStatus, metadata, entries, locals, history
<1>1. ASSUME ~panicked, status[j] = "Running", NEW t \in Threads,
             ~(job[t] = j /\ pc[t] = "work"),
             \A u \in Threads \ {t} : pc'[u] = pc[u] /\ job'[u] = job[u]
      PROVE  Goal
  BY <1>1 DEF RunningIsWorkedOn
<1> SUFFICES Goal
  OBVIOUS
<1> HIDE DEF Goal
<1>2. CASE \E t \in Threads, k \in Jobs :
             Schedule(t, k) \/ RemoveTerminal(t, k) \/ StatusCall(t, k)
  <2> PICK t \in Threads, k \in Jobs :
             Schedule(t, k) \/ RemoveTerminal(t, k) \/ StatusCall(t, k)
    BY <1>2
  <2>1. /\ pc[t] = "idle" /\ panicked' = panicked
        /\ \A u \in Threads \ {t} : pc'[u] = pc[u] /\ job'[u] = job[u]
    BY DEF Schedule, RemoveTerminal, StatusCall, Cancel, Pause, Resume, Retry, Calls
  <2>2. \/ status' = status
        \/ \E s \in Status \ {"Running"} : status' = [status EXCEPT ![k] = s]
    BY DEF Schedule, RemoveTerminal, StatusCall, Cancel, Pause, Resume, Retry, Status, Terminal
  <2>3. status[j] = "Running"
    BY <2>2
  <2> QED
    BY <1>1, <2>1, <2>3
<1>3. CASE \E t \in Threads : QuietStep(t)
  <2> PICK t \in Threads : QuietStep(t)
    BY <1>3
  <2>1. CASE WorkerPanics(t)
    BY <2>1 DEF WorkerPanics
  <2>2. CASE ~WorkerPanics(t)
    <3>1. /\ UNCHANGED <<status, panicked>> /\ pc[t] # "work"
          /\ \A u \in Threads \ {t} : pc'[u] = pc[u] /\ job'[u] = job[u]
      BY <2>2 DEF QuietStep, InsertPending, DropPending, DropResult, Snapshot, Select, Fetch,
                  Acquire, StoreResult, ClearPending, ReleaseSlot
    <3> QED
      BY <1>1, <3>1
  <2> QED
    BY <2>1, <2>2
<1>4. CASE \E t \in Threads : StatusStep(t)
  <2> PICK t \in Threads : StatusStep(t)
    BY <1>4
  <2>1. CASE Start(t)
    <3>1. CASE job[t] = j
      BY <2>1, <3>1 DEF Start, Goal
    <3>2. CASE job[t] # j
      <4>1. /\ status[j] = "Running" /\ panicked' = panicked
            /\ \A u \in Threads \ {t} : pc'[u] = pc[u] /\ job'[u] = job[u]
        BY <2>1, <3>2 DEF Start
      <4> QED
        BY <1>1, <3>2, <4>1
    <3> QED
      BY <3>1, <3>2
  <2>2. CASE Finish(t)
    <3>1. /\ panicked' = panicked /\ job' = job
          /\ \E next : pc' = [pc EXCEPT ![t] = next]
      BY <2>2 DEF Finish, RecordFailure
    <3>2. status[j] = "Running"
      BY <2>2, FinishCases DEF Terminal
    <3>3. job[t] # j
      <4> SUFFICES ASSUME job[t] = j
                   PROVE  FALSE
        OBVIOUS
      <4>1. j \in Tracked
        BY <3>2 DEF Tracked
      <4>2. \E s \in Status \ {"Running"} : status' = [status EXCEPT ![j] = s]
        BY <2>2, <4>1 DEF Finish, RecordFailure, Status, Terminal
      <4> QED
        BY <4>2
    <3> QED
      BY <1>1, <3>1, <3>2, <3>3
  <2>3. CASE CheckToken(t) \/ Requeue(t) \/ FailUnavailable(t)
    <3>1. /\ pc[t] # "work" /\ panicked' = panicked /\ job' = job
          /\ \A u \in Threads \ {t} : pc'[u] = pc[u]
      BY <2>3 DEF CheckToken, Requeue, FailUnavailable
    <3>2. status[j] = "Running"
      BY <2>3 DEF CheckToken, Requeue, FailUnavailable
    <3> QED
      BY <1>1, <3>1, <3>2
  <2> QED
    BY <2>1, <2>2, <2>3 DEF StatusStep
<1>5. CASE (\E k \in Tokens : CancelToken(k)) \/ UNCHANGED vars
  BY <1>5 DEF CancelToken, vars, RunningIsWorkedOn, Goal
<1> QED
  BY <1>2, <1>3, <1>4, <1>5, NextCases DEF Goal

-----------------------------------------------------------------------------
(* Ids that are not scheduled again.                                       *)

\* What is known of a job before it is scheduled for the first time: nothing.
Unused(j) ==
    /\ j \notin pending
    /\ \A t \in Threads :
        /\ j \notin snapshot[t]
        /\ job[t] = j => pc[t] \in {"idle", "drain", "select"}

\* A removed job does not come back, and no thread is ahead of a schedule.
ScheduledOnce ==
    /\ \A j \in removed : status[j] = "absent"
    /\ \A j \in Jobs \ removed : status[j] = "absent" => Unused(j)

\* While t has inserted the entry of a job and not yet its payload, no other
\* thread runs the job, and if it was cancelled, so was the token t will see.
EntryOnly(t) ==
    /\ job[t] \notin pending
    /\ \A u \in Threads :
        /\ job[t] \notin snapshot[u]
        /\ u # t /\ job[u] = job[t] =>
               pc[u] \in {"idle", "drain", "select", "drop_result", "drop_pending"}
    /\ job[t] \in Tracked => token[job[t]] = given[t]
    /\ status[job[t]] \in {"Queued", "Paused"} \/ given[t] \in cancelled

Inserting == \A t \in Threads : pc[t] = "insert_pending" => EntryOnly(t)

\* A payload found missing stays missing.
MissingStays == \A t \in Threads : pc[t] = "fail" => job[t] \notin pending

\* Thread t is going to remove the payload of j.
WillDrop(t, j) ==
    /\ job[t] = j
    /\ \/ pc[t] \in {"store", "clear", "drop_result", "drop_pending"}
       \/ pc[t] = "check_token" /\ given[t] \in cancelled

\* A payload is that of a job that may run or runs, or will be removed.
PayloadsSound ==
    \A j \in pending :
        \/ status[j] \in {"Queued", "Paused", "Retrying", "Running"}
        \/ \E t \in Threads : WillDrop(t, j)

\* A job with the status "Completed" has completed, and so have the
\* dependencies of a job that a thread is about to start.
DependenciesSound ==
    /\ \A j \in Jobs : status[j] = "Completed" => j \in completed
    /\ \A t \in Threads : pc[t] \in {"fetch", "fail", "acquire", "start"} =>
           dependencies[job[t]] \subseteq completed

\* A completed job has its result, or a thread that is about to store it, and
\* the results that are being dropped are those of removed jobs.
ResultsSound ==
    /\ \A j \in Jobs : status[j] = "Completed" =>
           j \in results \/ \E t \in Threads : job[t] = j /\ pc[t] = "store"
    /\ \A t \in Threads : pc[t] = "drop_result" => job[t] \in removed

\* That an id was scheduled again is not forgotten.
LEMMA ReusedLasts ==
    ASSUME [Next]_vars, reused
    PROVE  reused'
<1> USE DEF history
<1>1. CASE \E t \in Threads, j \in Jobs :
             Schedule(t, j) \/ RemoveTerminal(t, j) \/ StatusCall(t, j)
  BY <1>1 DEF Schedule, RemoveTerminal, StatusCall, Cancel, Pause, Resume, Retry
<1>2. CASE \E t \in Threads : QuietStep(t)
  BY <1>2 DEF QuietStep, InsertPending, DropPending, DropResult, Snapshot, Select, Fetch, Acquire,
              WorkerPanics, StoreResult, ClearPending, ReleaseSlot
<1>3. CASE \E t \in Threads : StatusStep(t)
  BY <1>3 DEF StatusStep, CheckToken, Requeue, FailUnavailable, Start, Finish
<1>4. CASE (\E k \in Tokens : CancelToken(k)) \/ UNCHANGED vars
  BY <1>4 DEF CancelToken, vars
<1> QED
  BY <1>1, <1>2, <1>3, <1>4, NextCases

\* Apart from schedule and remove_terminal no step changes which jobs were
\* removed.
LEMMA RemovedKept ==
    ASSUME [Next]_vars, \A t \in Threads, j \in Jobs : ~RemoveTerminal(t, j)
    PROVE  removed' = removed
<1> USE DEF history
<1>1. CASE \E t \in Threads, j \in Jobs : Schedule(t, j) \/ StatusCall(t, j)
  BY <1>1 DEF Schedule, StatusCall, Cancel, Pause, Resume, Retry
<1>2. CASE \E t \in Threads : QuietStep(t)
  BY <1>2 DEF QuietStep, InsertPending, DropPending, DropResult, Snapshot, Select, Fetch, Acquire,
              WorkerPanics, StoreResult, ClearPending, ReleaseSlot
<1>3. CASE \E t \in Threads : StatusStep(t)
  BY <1>3 DEF StatusStep, CheckToken, Requeue, FailUnavailable, Start, Finish
<1>4. CASE (\E k \in Tokens : CancelToken(k)) \/ UNCHANGED vars
  BY <1>4 DEF CancelToken, vars
<1> QED
  BY <1>1, <1>2, <1>3, <1>4, NextCases

\* Before its first schedule nobody comes to know a job.
LEMMA UnusedStep ==
    ASSUME TypeOK, [Next]_vars, NEW j \in Jobs, status[j] = "absent", Unused(j),
           \A t \in Threads : ~Schedule(t, j)
    PROVE  Unused(j)'
<1> USE DEF TypeOK, Goto, SetStatus, metadata, entries, locals, history, Unused
<1>1. ASSUME NEW t \in Threads, NEW k \in Jobs,
             Schedule(t, k) \/ RemoveTerminal(t, k) \/ StatusCall(t, k)
      PROVE  Unused(j)'
  <2>1. k # j
    BY <1>1 DEF RemoveTerminal, StatusCall, Cancel, Pause, Resume, Retry, Terminal
  <2>2. \E next : Calls(t, k, next)
    BY <1>1 DEF Schedule, RemoveTerminal, StatusCall, Cancel, Pause, Resume, Retry
  <2>3. pending' = pending
    BY <1>1 DEF Schedule, RemoveTerminal, StatusCall, Cancel, Pause, Resume, Retry
  <2> QED
    BY <2>1, <2>2, <2>3 DEF Calls
<1>2. ASSUME NEW t \in Threads, QuietStep(t)
      PROVE  Unused(j)'
  <2>1. CASE Snapshot(t)
    BY <2>1 DEF Snapshot
  <2>2. CASE Select(t)
    BY <2>2 DEF Select, Ready
  <2>3. CASE ~Snapshot(t) /\ ~Select(t)
    <3>1. /\ pc[t] \notin {"idle", "drain", "select"} /\ UNCHANGED <<job, snapshot>>
          /\ \A u \in Threads \ {t} : pc'[u] = pc[u]
          /\ pending' \subseteq pending \cup {job[t]}
      BY <1>2, <2>3 DEF QuietStep, InsertPending, DropPending, DropResult, Fetch, Acquire,
              WorkerPanics, StoreResult, ClearPending, ReleaseSlot
    <3> QED
      BY <3>1
  <2> QED
    BY <2>1, <2>2, <2>3
<1>3. ASSUME NEW t \in Threads, StatusStep(t)
      PROVE  Unused(j)'
  <2>1. /\ pc[t] \notin {"idle", "drain", "select"} /\ UNCHANGED <<job, snapshot, pending>>
        /\ \A u \in Threads \ {t} : pc'[u] = pc[u]
    BY <1>3 DEF StatusStep, CheckToken, Requeue, FailUnavailable, Start, Finish, RecordFailure
  <2> QED
    BY <2>1
<1>4. CASE (\E k \in Tokens : CancelToken(k)) \/ UNCHANGED vars
  BY <1>4 DEF CancelToken, vars
<1> QED
  BY <1>1, <1>2, <1>3, <1>4, NextCases

\* Every job is scheduled once at most.
LEMMA OnceStep ==
    ASSUME ~reused', TypeOK, TypeOK', ScheduledOnce, [Next]_vars
    PROVE  ScheduledOnce'
<1> SUFFICES ASSUME NEW j \in Jobs
             PROVE  /\ j \in removed' => status'[j] = "absent"
                    /\ j \notin removed' /\ status'[j] = "absent" => Unused(j)'
  BY DEF ScheduledOnce, TypeOK, Unused
<1>1. CASE \E t \in Threads, k \in Jobs : Schedule(t, k)
  <2> PICK t \in Threads, k \in Jobs : Schedule(t, k)
    BY <1>1
  <2>1. /\ k \notin removed /\ removed' = removed /\ status' = [status EXCEPT ![k] = "Queued"]
    BY DEF Schedule, SetStatus
  <2>2. CASE k = j
    BY <2>1, <2>2 DEF TypeOK
  <2>3. CASE k # j
    <3>1. status'[j] = status[j]
      BY <2>1, <2>3 DEF TypeOK
    <3>2. ASSUME NEW u \in Threads, Schedule(u, j) PROVE FALSE
      BY <2>1, <2>3, <3>1, <3>2 DEF Schedule, SetStatus, TypeOK
    <3> QED
      BY <2>1, <3>1, <3>2, UnusedStep DEF ScheduledOnce
  <2> QED
    BY <2>2, <2>3
<1>2. CASE \E t \in Threads, k \in Jobs : RemoveTerminal(t, k)
  <2> PICK t \in Threads, k \in Jobs : RemoveTerminal(t, k)
    BY <1>2
  <2>1. removed' = removed \cup {k} /\ status' = [status EXCEPT ![k] = "absent"]
    BY DEF RemoveTerminal, SetStatus
  <2>2. \A u \in Threads : status[j] = "absent" /\ k # j => ~Schedule(u, j)
    BY <2>1 DEF Schedule, SetStatus, TypeOK
  <2> QED
    BY <2>1, <2>2, UnusedStep DEF ScheduledOnce, TypeOK
<1>3. CASE \A t \in Threads, k \in Jobs : ~Schedule(t, k) /\ ~RemoveTerminal(t, k)
  <2>1. Tracked' = Tracked /\ removed' = removed
    BY <1>3, DependenciesKept, RemovedKept
  <2>2. status'[j] = "absent" <=> status[j] = "absent"
    BY <2>1 DEF Tracked
  <2> QED
    BY <1>3, <2>1, <2>2, UnusedStep DEF ScheduledOnce
<1> QED
  BY <1>1, <1>2, <1>3

\* While a thread is between entry and payload, other threads do nothing with
\* the job but cancel, pause, resume and remove it.
LEMMA InsertingStep ==
    ASSUME ~reused', TypeOK, TypeOK', ScheduledOnce, Inserting, [Next]_vars
    PROVE  Inserting'
<1> SUFFICES ASSUME NEW t \in Threads, pc'[t] = "insert_pending"
             PROVE  EntryOnly(t)'
  BY DEF Inserting
<1> USE DEF TypeOK, Goto, SetStatus, metadata, entries, locals, history, Tracked, EntryOnly
<1>1. ASSUME NEW u \in Threads, NEW k \in Jobs, Schedule(u, k) PROVE EntryOnly(t)'
  <2>1. Unused(k)
    BY <1>1 DEF Schedule, ScheduledOnce
  <2>2. /\ pc[u] = "idle" /\ pc' = [pc EXCEPT ![u] = "insert_pending"]
        /\ job' = [job EXCEPT ![u] = k] /\ status' = [status EXCEPT ![k] = "Queued"]
        /\ \E l \in Tokens : /\ token' = [token EXCEPT ![k] = l]
                             /\ given' = [given EXCEPT ![u] = l]
        /\ UNCHANGED <<snapshot, pending, cancelled>>
    BY <1>1 DEF Schedule, Calls
  <2>3. CASE u = t
    BY <2>1, <2>2, <2>3 DEF Unused
  <2>4. CASE u # t
    <3>1. EntryOnly(t) /\ job[t] # k
      BY <2>1, <2>2, <2>4 DEF Inserting, Unused
    <3> QED
      BY <2>2, <2>4, <3>1
  <2> QED
    BY <2>3, <2>4
<1>2. ASSUME NEW u \in Threads, NEW k \in Jobs, RemoveTerminal(u, k) \/ StatusCall(u, k)
      PROVE  EntryOnly(t)'
  <2>1. /\ pc[u] = "idle" /\ u # t /\ job' = [job EXCEPT ![u] = k]
        /\ UNCHANGED <<snapshot, pending, token, given>> /\ cancelled \subseteq cancelled'
    BY <1>2 DEF RemoveTerminal, StatusCall, Cancel, Pause, Resume, Retry, Calls
  <2>2. pc[t] = "insert_pending" /\ EntryOnly(t)
    BY <1>2, <2>1 DEF RemoveTerminal, StatusCall, Cancel, Pause, Resume, Retry, Calls, Inserting
  <2>3. CASE RemoveTerminal(u, k)
    BY <2>1, <2>2, <2>3 DEF RemoveTerminal, Calls, Terminal
  <2>4. CASE Cancel(u, k)
    BY <2>1, <2>2, <2>4 DEF Cancel, Calls
  <2>5. CASE Pause(u, k) \/ Resume(u, k)
    BY <2>1, <2>2, <2>5 DEF Pause, Resume, Calls
  <2>6. CASE Retry(u, k)
    BY <2>1, <2>2, <2>6 DEF Retry, Calls
  <2> QED
    BY <1>2, <2>3, <2>4, <2>5, <2>6 DEF StatusCall
<1>3. ASSUME NEW u \in Threads, QuietStep(u) PROVE EntryOnly(t)'
  <2>1. pc'[u] # "insert_pending" /\ u # t /\ pc[t] = "insert_pending"
    BY <1>3 DEF QuietStep, InsertPending, DropPending, DropResult, Snapshot, Select, Fetch, Acquire,
              WorkerPanics, StoreResult, ClearPending, ReleaseSlot
  <2>2. EntryOnly(t)
    BY <2>1 DEF Inserting
  <2>3. CASE Snapshot(u)
    BY <2>1, <2>2, <2>3 DEF Snapshot
  <2>4. CASE Select(u)
    BY <2>1, <2>2, <2>4 DEF Select, Ready
  <2>5. CASE ~Snapshot(u) /\ ~Select(u)
    <3>1. /\ UNCHANGED <<status, token, given, cancelled, job, snapshot>>
          /\ \A v \in Threads \ {u} : pc'[v] = pc[v]
          /\ pending' \subseteq pending \cup {job[u]}
          /\ pending' \subseteq pending \/ pc[u] = "insert_pending"
          /\ pc[u] \in {"drop_result", "drop_pending"} => pc'[u] \in {"drop_pending", "idle"}
          /\ pc[u] \notin {"idle", "drain", "select"}
      BY <1>3, <2>5 DEF QuietStep, InsertPending, DropPending, DropResult, Fetch, Acquire,
              WorkerPanics, StoreResult, ClearPending, ReleaseSlot
    <3> QED
      BY <2>1, <2>2, <3>1
  <2> QED
    BY <2>3, <2>4, <2>5
<1>4. ASSUME NEW u \in Threads, StatusStep(u) PROVE EntryOnly(t)'
  <2>1. /\ u # t /\ pc[t] = "insert_pending"
        /\ pc[u] \in {"check_token", "requeue", "fail", "start", "work"}
        /\ UNCHANGED <<token, given, cancelled, job, snapshot, pending>>
        /\ \A v \in Threads \ {u} : pc'[v] = pc[v]
        /\ \A k \in Jobs \ {job[u]} : status'[k] = status[k]
    BY <1>4 DEF StatusStep, CheckToken, Requeue, FailUnavailable, Start, Finish, RecordFailure
  <2>2. EntryOnly(t)
    BY <2>1 DEF Inserting
  <2>3. job[t] # job[u]
    BY <2>1, <2>2
  <2> QED
    BY <2>1, <2>2, <2>3
<1>5. CASE (\E k \in Tokens : CancelToken(k)) \/ UNCHANGED vars
  BY <1>5 DEF CancelToken, vars, Inserting
<1> QED
  BY <1>1, <1>2, <1>3, <1>4, <1>5, NextCases

\* Only the thread that inserts the payload could bring it back, and no other
\* knows the job by then.
LEMMA MissingStep ==
    ASSUME TypeOK, Inserting, MissingStays, [Next]_vars
    PROVE  MissingStays'
<1> SUFFICES ASSUME NEW t \in Threads, pc'[t] = "fail"
             PROVE  job'[t] \notin pending'
  BY DEF MissingStays
<1> USE DEF TypeOK, Goto, SetStatus, metadata, entries, locals, history
<1>1. ASSUME NEW u \in Threads, NEW k \in Jobs,
             Schedule(u, k) \/ RemoveTerminal(u, k) \/ StatusCall(u, k)
      PROVE  job'[t] \notin pending'
  BY <1>1 DEF Schedule, RemoveTerminal, StatusCall, Cancel, Pause, Resume, Retry, Calls,
              MissingStays
<1>2. ASSUME NEW u \in Threads, QuietStep(u) PROVE job'[t] \notin pending'
  <2>1. CASE InsertPending(u)
    <3>1. pc[t] = "fail" /\ job' = job /\ pending' = pending \cup {job[u]}
          /\ pc[u] = "insert_pending" /\ u # t
      BY <2>1 DEF InsertPending
    <3>2. job[u] # job[t]
      BY <3>1 DEF Inserting, EntryOnly
    <3> QED
      BY <3>1, <3>2 DEF MissingStays
  <2>2. CASE Fetch(u)
    BY <2>2 DEF Fetch, MissingStays
  <2>3. CASE ~InsertPending(u) /\ ~Fetch(u)
    <3>1. /\ pending' \subseteq pending /\ pc'[u] # "fail"
          /\ \A v \in Threads \ {u} : pc'[v] = pc[v] /\ job'[v] = job[v]
      BY <1>2, <2>3 DEF QuietStep, DropPending, DropResult, Snapshot, Select, Acquire,
              WorkerPanics, StoreResult, ClearPending, ReleaseSlot
    <3> QED
      BY <3>1 DEF MissingStays
  <2> QED
    BY <2>1, <2>2, <2>3
<1>3. ASSUME NEW u \in Threads, StatusStep(u) PROVE job'[t] \notin pending'
  BY <1>3 DEF StatusStep, CheckToken, Requeue, FailUnavailable, Start, Finish, RecordFailure,
              MissingStays
<1>4. CASE (\E k \in Tokens : CancelToken(k)) \/ UNCHANGED vars
  BY <1>4 DEF CancelToken, vars, MissingStays
<1> QED
  BY <1>1, <1>2, <1>3, <1>4, NextCases

\* Whoever ends a job, or finds it cancelled, removes its payload next.
LEMMA PayloadsStep ==
    ASSUME TypeOK, TypeOK', Inserting, MissingStays, PayloadsSound, [Next]_vars
    PROVE  PayloadsSound'
<1> SUFFICES ASSUME NEW j \in Jobs, j \in pending'
             PROVE  \/ status'[j] \in {"Queued", "Paused", "Retrying", "Running"}
                    \/ \E t \in Threads : WillDrop(t, j)'
  BY DEF PayloadsSound, TypeOK
<1> DEFINE Goal == \/ status'[j] \in {"Queued", "Paused", "Retrying", "Running"}
                   \/ \E t \in Threads : WillDrop(t, j)'
<1> SUFFICES Goal
  OBVIOUS
<1> USE DEF TypeOK, Goto, SetStatus, metadata, entries, locals, history, Tracked, WillDrop
<1>1. ASSUME NEW u \in Threads, j \in pending,
             ~WillDrop(u, j) \/ WillDrop(u, j)',
             \A v \in Threads \ {u} : pc'[v] = pc[v] /\ job'[v] = job[v] /\ given'[v] = given[v],
             cancelled \subseteq cancelled',
             status'[j] = status[j]
      PROVE  Goal
  BY <1>1 DEF PayloadsSound
<1> HIDE DEF Goal
<1>2. ASSUME NEW u \in Threads, NEW k \in Jobs,
             Schedule(u, k) \/ RemoveTerminal(u, k) \/ StatusCall(u, k)
      PROVE  Goal
  <2>1. /\ pc[u] = "idle" /\ UNCHANGED pending /\ cancelled \subseteq cancelled'
        /\ \A v \in Threads \ {u} : pc'[v] = pc[v] /\ job'[v] = job[v] /\ given'[v] = given[v]
        /\ \A i \in Jobs \ {k} : status'[i] = status[i]
    BY <1>2 DEF Schedule, RemoveTerminal, StatusCall, Cancel, Pause, Resume, Retry, Calls
  <2>2. CASE k # j
    BY <1>1, <2>1, <2>2
  <2>3. CASE k = j /\ (Schedule(u, k) \/ Pause(u, k) \/ Resume(u, k))
    BY <2>3 DEF Schedule, Pause, Resume, Goal
  <2>4. CASE k = j /\ (RemoveTerminal(u, k) \/ Cancel(u, k))
    BY <2>4 DEF RemoveTerminal, Cancel, Calls, Goal
  <2>5. CASE k = j /\ Retry(u, k)
    BY <1>1, <2>1, <2>5 DEF Retry
  <2> QED
    BY <1>2, <2>2, <2>3, <2>4, <2>5 DEF StatusCall
<1>3. ASSUME NEW u \in Threads, QuietStep(u) PROVE Goal
  <2>1. CASE InsertPending(u)
    <3>1. /\ pc[u] = "insert_pending" /\ pc' = [pc EXCEPT ![u] = "check_token"]
          /\ pending' = pending \cup {job[u]}
          /\ UNCHANGED <<status, job, given, cancelled>>
      BY <2>1 DEF InsertPending
    <3>2. CASE j = job[u]
      <4>1. status[j] \in {"Queued", "Paused"} \/ given[u] \in cancelled
        BY <3>1, <3>2 DEF Inserting, EntryOnly
      <4> QED
        BY <3>1, <3>2, <4>1 DEF Goal
    <3>3. CASE j # job[u]
      BY <1>1, <3>1, <3>3
    <3> QED
      BY <3>2, <3>3
  <2>2. CASE DropPending(u) \/ ClearPending(u)
    <3>1. /\ j \in pending /\ j # job[u] /\ UNCHANGED <<status, job, given, cancelled>>
          /\ \A v \in Threads \ {u} : pc'[v] = pc[v]
      BY <2>2 DEF DropPending, ClearPending
    <3> QED
      BY <1>1, <3>1
  <2>3. CASE DropResult(u) \/ StoreResult(u)
    <3>1. /\ UNCHANGED <<pending, status, job, given, cancelled>>
          /\ pc'[u] \in {"clear", "drop_pending"}
          /\ \A v \in Threads \ {u} : pc'[v] = pc[v]
      BY <2>3 DEF DropResult, StoreResult
    <3> QED
      BY <1>1, <3>1
  <2>4. CASE ~InsertPending(u) /\ ~DropPending(u) /\ ~ClearPending(u)
             /\ ~DropResult(u) /\ ~StoreResult(u)
    <3>1. /\ UNCHANGED <<pending, status, given, cancelled>> /\ ~WillDrop(u, j)
          /\ \A v \in Threads \ {u} : pc'[v] = pc[v] /\ job'[v] = job[v]
      BY <1>3, <2>4 DEF QuietStep, Snapshot, Select, Fetch, Acquire, 
              WorkerPanics, ReleaseSlot
    <3> QED
      BY <1>1, <3>1
  <2> QED
    BY <2>1, <2>2, <2>3, <2>4
<1>4. ASSUME NEW u \in Threads, StatusStep(u) PROVE Goal
  <2>1. /\ UNCHANGED <<pending, job, given, cancelled>>
        /\ \A v \in Threads \ {u} : pc'[v] = pc[v]
        /\ \A k \in Jobs \ {job[u]} : status'[k] = status[k]
    BY <1>4 DEF StatusStep, CheckToken, Requeue, FailUnavailable, Start, Finish, RecordFailure
  <2>2. CASE job[u] # j
    BY <1>1, <2>1, <2>2
  <2>3. CASE job[u] = j /\ CheckToken(u)
    <3>1. CASE given[u] \in cancelled
      BY <2>1, <2>3, <3>1 DEF CheckToken, Goal
    <3>2. CASE given[u] \notin cancelled
      <4>1. pc[u] = "check_token" /\ UNCHANGED status
        BY <2>3, <3>2 DEF CheckToken
      <4>2. ~WillDrop(u, j)
        BY <3>2, <4>1
      <4> QED
        BY <1>1, <2>1, <4>1, <4>2
    <3> QED
      BY <3>1, <3>2
  <2>4. CASE job[u] = j /\ Requeue(u)
    <3>1. CASE status[j] = "Retrying"
      BY <2>4, <3>1 DEF Requeue, Goal
    <3>2. CASE status[j] # "Retrying"
      BY <1>1, <2>1, <2>4, <3>2 DEF Requeue
    <3> QED
      BY <3>1, <3>2
  <2>5. CASE job[u] = j /\ FailUnavailable(u)
    BY <2>1, <2>5 DEF FailUnavailable, MissingStays
  <2>6. CASE job[u] = j /\ Start(u)
    <3>1. CASE j \in Tracked
      BY <2>6, <3>1 DEF Start, Goal
    <3>2. CASE j \notin Tracked
      BY <1>1, <2>1, <2>6, <3>2 DEF Start
    <3> QED
      BY <3>1, <3>2
  <2>7. CASE job[u] = j /\ Finish(u)
    <3>1. CASE j \notin Tracked
      BY <1>1, <2>1, <2>7, <3>1 DEF Finish
    <3>2. CASE j \in Tracked
      <4>1. \/ pc'[u] \in {"clear", "store"}
            \/ status'[j] = "Retrying"
        BY <2>7, <3>2 DEF Finish, RecordFailure
      <4> QED
        BY <2>1, <2>7, <4>1 DEF Goal
    <3> QED
      BY <3>1, <3>2
  <2> QED
    BY <1>4, <2>2, <2>3, <2>4, <2>5, <2>6, <2>7 DEF StatusStep
<1>5. ASSUME NEW k \in Tokens, CancelToken(k) PROVE Goal
  BY <1>5 DEF CancelToken, PayloadsSound, Goal
<1>6. CASE UNCHANGED vars
  BY <1>6 DEF vars, PayloadsSound, Goal
<1> QED
  BY <1>2, <1>3, <1>4, <1>5, <1>6, NextCases

\* What a drain found completed when it chose a job has completed, and the
\* job depends on nothing else when it starts.
LEMMA DependenciesStep ==
    ASSUME TypeOK, ScheduledOnce, DependenciesSound, ~reused', [Next]_vars
    PROVE  DependenciesSound'
<1> DEFINE Aware == {"fetch", "fail", "acquire", "start"}
<1> SUFFICES /\ \A j \in Jobs : status'[j] = "Completed" => j \in completed'
             /\ \A t \in Threads : pc'[t] \in Aware => dependencies'[job'[t]] \subseteq completed'
  BY DEF DependenciesSound
<1> DEFINE Goal ==
      /\ \A j \in Jobs : status'[j] = "Completed" => j \in completed'
      /\ \A t \in Threads : pc'[t] \in Aware => dependencies'[job'[t]] \subseteq completed'
<1> USE DEF TypeOK, Goto, SetStatus, metadata, entries, locals, history
<1>1. ASSUME NEW u \in Threads,
             \A v \in Threads \ {u} : pc'[v] = pc[v] /\ job'[v] = job[v],
             pc'[u] \in Aware => pc[u] \in Aware /\ job'[u] = job[u],
             completed' = completed, dependencies' = dependencies,
             \A j \in Jobs : status'[j] = "Completed" => status[j] = "Completed"
      PROVE  Goal
  BY <1>1 DEF DependenciesSound
<1>2. ASSUME NEW u \in Threads, NEW k \in Jobs, Schedule(u, k) PROVE Goal
  <2>1. Unused(k)
    BY <1>2 DEF Schedule, ScheduledOnce
  <2>2. /\ pc' = [pc EXCEPT ![u] = "insert_pending"] /\ job' = [job EXCEPT ![u] = k]
        /\ status' = [status EXCEPT ![k] = "Queued"] /\ completed' = completed
        /\ \A i \in Jobs \ {k} : dependencies'[i] = dependencies[i]
    BY <1>2 DEF Schedule, Calls
  <2> QED
    BY <2>1, <2>2 DEF Unused, DependenciesSound
<1>3. ASSUME NEW u \in Threads, NEW k \in Jobs, RemoveTerminal(u, k) PROVE Goal
  <2>1. /\ \A v \in Threads \ {u} : pc'[v] = pc[v] /\ job'[v] = job[v]
        /\ pc'[u] = "drop_result" /\ completed' = completed
        /\ dependencies' = [dependencies EXCEPT ![k] = {}]
        /\ status' = [status EXCEPT ![k] = "absent"]
    BY <1>3 DEF RemoveTerminal, Calls
  <2>2. \A i \in Jobs : dependencies'[i] \subseteq dependencies[i]
    BY <2>1
  <2> QED
    BY <2>1, <2>2 DEF DependenciesSound
<1>4. ASSUME NEW u \in Threads, NEW k \in Jobs, StatusCall(u, k) PROVE Goal
  BY <1>1, <1>4 DEF StatusCall, Cancel, Pause, Resume, Retry, Calls
<1>5. ASSUME NEW u \in Threads, QuietStep(u) PROVE Goal
  <2>1. CASE Select(u) /\ Ready(snapshot[u]) # {}
    <3>1. PICK k \in Ready(snapshot[u]) : job' = [job EXCEPT ![u] = k]
      BY <2>1 DEF Select
    <3>2. /\ pc' = [pc EXCEPT ![u] = "fetch"]
          /\ UNCHANGED <<status, dependencies, completed>>
      BY <2>1 DEF Select
    <3>3. dependencies[k] \subseteq completed /\ k \in Jobs
      BY DEF Ready, DependenciesMet, DependenciesSound
    <3> QED
      BY <3>1, <3>2, <3>3 DEF DependenciesSound
  <2>2. CASE ~(Select(u) /\ Ready(snapshot[u]) # {})
    <3>1. /\ UNCHANGED <<status, dependencies, completed>>
          /\ \A v \in Threads \ {u} : pc'[v] = pc[v] /\ job'[v] = job[v]
          /\ pc'[u] \in Aware => pc[u] \in Aware /\ job'[u] = job[u]
      BY <1>5, <2>2 DEF QuietStep, InsertPending, DropPending, DropResult, Snapshot, Select,
              Fetch, Acquire, WorkerPanics, StoreResult, ClearPending, ReleaseSlot
    <3> QED
      BY <1>1, <3>1
  <2> QED
    BY <2>1, <2>2
<1>6. ASSUME NEW u \in Threads, StatusStep(u) PROVE Goal
  <2>1. CASE Finish(u)
    <3>1. /\ UNCHANGED <<job, dependencies>> /\ pc'[u] \notin Aware
          /\ \A v \in Threads \ {u} : pc'[v] = pc[v]
          /\ \A k \in Jobs \ {job[u]} : status'[k] = status[k]
          /\ completed \subseteq completed'
      BY <2>1 DEF Finish, RecordFailure
    <3>2. status'[job[u]] = "Completed" => job[u] \in completed'
      BY <2>1 DEF Finish
    <3> QED
      BY <3>1, <3>2 DEF DependenciesSound
  <2>2. CASE CheckToken(u) \/ Requeue(u) \/ FailUnavailable(u) \/ Start(u)
    BY <1>1, <2>2 DEF CheckToken, Requeue, FailUnavailable, Start
  <2> QED
    BY <1>6, <2>1, <2>2 DEF StatusStep
<1>7. CASE (\E k \in Tokens : CancelToken(k)) \/ UNCHANGED vars
  BY <1>7 DEF CancelToken, vars, DependenciesSound
<1> QED
  BY <1>2, <1>3, <1>4, <1>5, <1>6, <1>7, NextCases

\* The thread that completes a job stores its result next, and a result that
\* is dropped is that of a job that will not complete again.
LEMMA ResultsStep ==
    ASSUME TypeOK, TypeOK', ScheduledOnce, ResultsSound, ~reused', [Next]_vars
    PROVE  ResultsSound'
<1> DEFINE Stored(j) == j \in results \/ \E t \in Threads : job[t] = j /\ pc[t] = "store"
<1> DEFINE Goal == /\ \A j \in Jobs : status'[j] = "Completed" => Stored(j)'
                   /\ \A t \in Threads : pc'[t] = "drop_result" => job'[t] \in removed'
<1> SUFFICES Goal
  BY DEF ResultsSound
<1> USE DEF TypeOK, Goto, SetStatus, metadata, entries, locals, history
<1>1. ASSUME NEW u \in Threads,
             \A v \in Threads \ {u} : pc'[v] = pc[v] /\ job'[v] = job[v],
             pc[u] # "store", removed \subseteq removed',
             pc'[u] = "drop_result" => job'[u] \in removed',
             \A j \in Jobs : status'[j] = "Completed" =>
                 \/ status[j] = "Completed" /\ (j \in results => j \in results')
                 \/ job'[u] = j /\ pc'[u] = "store"
      PROVE  Goal
  BY <1>1 DEF ResultsSound
<1> HIDE DEF Goal
<1>2. ASSUME NEW u \in Threads, NEW k \in Jobs,
             Schedule(u, k) \/ RemoveTerminal(u, k) \/ StatusCall(u, k)
      PROVE  Goal
  <2>1. /\ pc[u] = "idle" /\ results' = results /\ removed \subseteq removed'
        /\ \A v \in Threads \ {u} : pc'[v] = pc[v] /\ job'[v] = job[v]
    BY <1>2 DEF Schedule, RemoveTerminal, StatusCall, Cancel, Pause, Resume, Retry, Calls
  <2>2. pc'[u] = "drop_result" => job'[u] \in removed'
    BY <1>2 DEF Schedule, RemoveTerminal, StatusCall, Cancel, Pause, Resume, Retry, Calls
  <2>3. \A j \in Jobs : status'[j] = "Completed" => status[j] = "Completed"
    BY <1>2 DEF Schedule, RemoveTerminal, StatusCall, Cancel, Pause, Resume, Retry
  <2> QED
    BY <1>1, <2>1, <2>2, <2>3
<1>3. ASSUME NEW u \in Threads, QuietStep(u) PROVE Goal
  <2>1. CASE StoreResult(u)
    BY <2>1 DEF StoreResult, ResultsSound, Goal
  <2>2. CASE DropResult(u)
    <3>1. job[u] \in removed /\ status[job[u]] = "absent"
      BY <2>2 DEF DropResult, ResultsSound, ScheduledOnce
    <3>2. /\ pc[u] = "drop_result" /\ pc' = [pc EXCEPT ![u] = "drop_pending"]
          /\ results' = results \ {job[u]} /\ UNCHANGED <<status, job, removed>>
      BY <2>2 DEF DropResult
    <3> QED
      BY <1>1, <3>1, <3>2
  <2>3. CASE ~StoreResult(u) /\ ~DropResult(u)
    <3>1. /\ pc[u] # "store" /\ pc'[u] # "drop_result" /\ UNCHANGED <<status, results, removed>>
          /\ \A v \in Threads \ {u} : pc'[v] = pc[v] /\ job'[v] = job[v]
      BY <1>3, <2>3 DEF QuietStep, InsertPending, DropPending, Snapshot, Select, Fetch, Acquire,
              WorkerPanics, ClearPending, ReleaseSlot
    <3> QED
      BY <1>1, <3>1
  <2> QED
    BY <2>1, <2>2, <2>3
<1>4. ASSUME NEW u \in Threads, StatusStep(u) PROVE Goal
  <2>1. /\ pc[u] # "store" /\ pc'[u] # "drop_result" /\ UNCHANGED <<job, results, removed>>
        /\ \A v \in Threads \ {u} : pc'[v] = pc[v]
        /\ \A k \in Jobs \ {job[u]} : status'[k] = status[k]
    BY <1>4 DEF StatusStep, CheckToken, Requeue, FailUnavailable, Start, Finish, RecordFailure
  <2>2. status'[job[u]] = "Completed" => status[job[u]] = "Completed" \/ pc'[u] = "store"
    BY <1>4 DEF StatusStep, CheckToken, Requeue, FailUnavailable, Start, Finish, RecordFailure
  <2> QED
    BY <1>1, <2>1, <2>2
<1>5. CASE (\E k \in Tokens : CancelToken(k)) \/ UNCHANGED vars
  BY <1>5 DEF CancelToken, vars, ResultsSound, Goal
<1> QED
  BY <1>2, <1>3, <1>4, <1>5, NextCases

\* A job becomes running only where a thread starts it.
LEMMA OnlyStartRuns ==
    ASSUME TypeOK, [Next]_vars, NEW j \in Jobs, status[j] # "Running", status'[j] = "Running"
    PROVE  \E t \in Threads : job[t] = j /\ Start(t)
<1> USE DEF TypeOK, SetStatus, entries
<1>1. CASE \E t \in Threads, k \in Jobs :
             Schedule(t, k) \/ RemoveTerminal(t, k) \/ StatusCall(t, k)
  BY <1>1 DEF Schedule, RemoveTerminal, StatusCall, Cancel, Pause, Resume, Retry
<1>2. CASE \E t \in Threads : QuietStep(t)
  BY <1>2 DEF QuietStep, InsertPending, DropPending, DropResult, Snapshot, Select, Fetch, Acquire,
              WorkerPanics, StoreResult, ClearPending, ReleaseSlot
<1>3. CASE \E t \in Threads : StatusStep(t) /\ ~Start(t)
  BY <1>3, FinishCases DEF StatusStep, CheckToken, Requeue, FailUnavailable, Terminal
<1>4. CASE \E t \in Threads : Start(t)
  BY <1>4 DEF Start
<1>5. CASE (\E k \in Tokens : CancelToken(k)) \/ UNCHANGED vars
  BY <1>5 DEF CancelToken, vars
<1> QED
  BY <1>1, <1>2, <1>3, <1>4, <1>5, NextCases DEF StatusStep

-----------------------------------------------------------------------------
(* The theorems.                                                           *)

\* Types and slots together are inductive.
LEMMA Counted == Spec => [](TypeOK /\ SlotsAreCounted)
<1>1. Init => TypeOK /\ SlotsAreCounted
  <2> SUFFICES ASSUME Init
               PROVE  SlotsAreCounted
    BY InitTypes
  <2>1. {t \in Threads : HoldsSlot(t)} = {}
    BY DEF Init, HoldsSlot
  <2>2. Cardinality({}) = 0
    BY FS_EmptySet
  <2>3. running_count = 0
    BY DEF Init
  <2>4. Cardinality({t \in Threads : HoldsSlot(t)}) = 0
    BY <2>1, <2>2, Zenon
  <2>5. 0 <= MaxConcurrent
    BY JobSchedulerAssumption
  <2> QED
    BY <2>3, <2>4, <2>5 DEF SlotsAreCounted
<1>2. TypeOK /\ SlotsAreCounted /\ [Next]_vars => TypeOK' /\ SlotsAreCounted'
  <2> SUFFICES ASSUME TypeOK, SlotsAreCounted, [Next]_vars
               PROVE  TypeOK' /\ SlotsAreCounted'
    OBVIOUS
  <2>1. \A t \in Threads : pc[t] \in {"work", "release"} => running_count > 0
    BY HoldersCount DEF SlotsAreCounted, Holders, HoldsSlot
  <2> QED
    BY <2>1, TypeStep, SlotsStep
<1> QED
  BY <1>1, <1>2, PTL DEF Spec

\* Every variable keeps its type: no job is retried more than max_retries
\* times, and the counter never goes below zero.
THEOREM TypeCorrect == Spec => []TypeOK
BY Counted, PTL

\* For any number of threads, jobs and panics the counter is the number of
\* threads that hold a slot, and never more than max_concurrent.
THEOREM SlotsCounted == Spec => []SlotsAreCounted
BY Counted, PTL

\* The tracked jobs never depend on each other in a circle, in whatever order
\* they are scheduled and removed.
THEOREM Acyclic == Spec => []NoDependencyCycle
<1>1. Init => NoDependencyCycle
  BY DEF Init, NoDependencyCycle, Tracked
<1> QED
  BY <1>1, Counted, CycleStep, PTL DEF Spec

\* For any number of threads and jobs no ready job is left waiting when all
\* calls have returned, unless a request panicked.  With no slot at all, a
\* limit the code accepts, every job waits.
THEOREM NoReadyJobIsLeft ==
    ASSUME MaxConcurrent > 0
    PROVE  Spec => []NothingReadyAtRest
<1>1. Init => LookedFor
  BY DEF Init, LookedFor, Ready
<1>2. TypeOK /\ TypeOK' /\ SlotsAreCounted /\ LookedFor /\ [Next]_vars => LookedFor'
  BY LookedForStep
<1>3. LookedFor => NothingReadyAtRest
  BY DEF LookedFor, LooksFor, HoldsSlot, NothingReadyAtRest, Idle
<1> QED
  BY <1>1, <1>2, <1>3, Counted, PTL DEF Spec

\* For any number of threads and jobs a job is shown as running only while a
\* thread works on it, unless a request panicked.
THEOREM RunningJobsEnd == Spec => []RunningIsWorkedOn
<1>1. Init => RunningIsWorkedOn
  BY DEF Init, RunningIsWorkedOn
<1>2. TypeOK /\ RunningIsWorkedOn /\ [Next]_vars => RunningIsWorkedOn'
  BY RunningStep
<1> QED
  BY <1>1, <1>2, Counted, PTL DEF Spec

\* Until an id is scheduled again, payloads, dependencies and results are
\* sound.
LEMMA IdsUsedOnce ==
    Spec => [](~reused => /\ ScheduledOnce /\ Inserting /\ MissingStays
                          /\ PayloadsSound /\ DependenciesSound /\ ResultsSound)
<1> DEFINE Sound == /\ ScheduledOnce /\ Inserting /\ MissingStays
                    /\ PayloadsSound /\ DependenciesSound /\ ResultsSound
<1>1. Init => (~reused => Sound)
  BY DEF Init, ScheduledOnce, Unused, Inserting, MissingStays, PayloadsSound, DependenciesSound,
         ResultsSound
<1>2. TypeOK /\ TypeOK' /\ (~reused => Sound) /\ [Next]_vars => (~reused' => Sound')
  <2> SUFFICES ASSUME TypeOK, TypeOK', ~reused => Sound, [Next]_vars, ~reused'
               PROVE  Sound'
    OBVIOUS
  <2>1. Sound
    BY ReusedLasts
  <2> QED
    BY <2>1, OnceStep, InsertingStep, MissingStep, PayloadsStep, DependenciesStep, ResultsStep
<1> QED
  BY <1>1, <1>2, Counted, PTL DEF Spec

\* Until an id is scheduled again, for any number of threads and jobs, a job
\* that will not run again has given its payload back when all calls have
\* returned.
THEOREM PayloadsComeBack == Spec => []PayloadsGivenBack
<1>1. (~reused => PayloadsSound) /\ RunningIsWorkedOn /\ TypeOK => PayloadsGivenBack
  <2> SUFFICES ASSUME PayloadsSound, RunningIsWorkedOn, TypeOK, Idle, NEW j \in pending
               PROVE  \/ status[j] \in {"Queued", "Paused", "Retrying"}
                      \/ panicked /\ status[j] = "Running"
    BY DEF PayloadsGivenBack
  <2>1. \A t \in Threads : ~WillDrop(t, j) /\ pc[t] # "work"
    BY DEF WillDrop, Idle
  <2>2. status[j] \in {"Queued", "Paused", "Retrying", "Running"}
    BY <2>1 DEF PayloadsSound
  <2>3. status[j] = "Running" => panicked
    BY <2>1 DEF RunningIsWorkedOn, TypeOK
  <2> QED
    BY <2>2, <2>3
<1> QED
  BY <1>1, IdsUsedOnce, RunningJobsEnd, TypeCorrect, PTL

\* Until an id is scheduled again, no job starts before each job it depends on
\* has completed, whatever other threads do between the test and the start.
THEOREM DependenciesComeFirst == Spec => StartsAfterDependencies
<1>1. TypeOK /\ (~reused => DependenciesSound) /\ [Next]_vars =>
        [~reused => \A j \in Jobs : status[j] # "Running" /\ status'[j] = "Running" =>
            dependencies[j] \subseteq completed]_vars
  BY OnlyStartRuns DEF DependenciesSound, Start
<1> QED
  BY <1>1, IdsUsedOnce, TypeCorrect, PTL DEF Spec, StartsAfterDependencies

\* Until an id is scheduled again, for any number of threads and jobs, every
\* completed job has its result when all calls have returned.
THEOREM CompletedKeepResults == Spec => []CompletedHasResult
<1>1. (~reused => ResultsSound) => CompletedHasResult
  BY DEF ResultsSound, CompletedHasResult, Idle
<1> QED
  BY <1>1, IdsUsedOnce, PTL

=============================================================================
