----------------------- MODULE ProcessSupervisorProofs -----------------------
(***************************************************************************)
(* Proofs about ProcessSupervisor, for any set of processes, any policies  *)
(* and any number of restarts.                                             *)
(***************************************************************************)
EXTENDS ProcessSupervisor, TLAPS

\* From the restart decision to the attach of the new child a process has no
\* child, and only a monitor about to attach holds a child of its own.
NoChildInRestart ==
    \A p \in Processes :
        /\ monitor[p] \in {"none", "decide", "backoff", "recheck", "spawn", "attach"}
               => child[p] = "none"
        /\ spawned[p] # "none" => monitor[p] = "attach"

\* Only a process in the map, and not a stopped one, has a child; every
\* process in the map has a monitor; a process without one is untouched.
ChildIsKnown ==
    \A p \in Processes :
        /\ child[p] # "none" => p \in processes /\ health[p] # "Stopped"
        /\ p \in processes => monitor[p] # "none"
        /\ monitor[p] = "none" => health[p] = "Starting"

WatchInv == NoChildInRestart /\ ChildIsKnown /\ ChildIsWatched

\* Each child but the first is preceded by a restart that was counted.  A
\* restart is counted before the backoff, the child it is for after it.
RestartsCounted ==
    \A p \in Processes :
        /\ Policy[p] = "on_failure" => restart_count[p] <= MaxRestarts
        /\ p \notin heard /\ monitor[p] \in {"backoff", "recheck", "spawn"}
               => spawns[p] <= restart_count[p]
        /\ p \notin heard => spawns[p] <= 1 + restart_count[p]

\* While no heartbeat follows a stop, the health remembers the stop.
StopRemembered == \A p \in stopped : health[p] = "Stopped"

-----------------------------------------------------------------------------
(* Types.                                                                  *)

\* The initial state satisfies the invariants.
LEMMA InitEstablishes ==
    Init => TypeOK /\ WatchInv /\ RestartsCounted /\ StopRemembered
<1> SUFFICES ASSUME Init
             PROVE  TypeOK /\ WatchInv /\ RestartsCounted /\ StopRemembered
  OBVIOUS
<1>1. TypeOK
  <2>1. late \in [Processes -> 0 .. MaxLate]
    BY SupervisorAssumption DEF Init
  <2>2. shutdown \in BOOLEAN /\ dropped \in BOOLEAN
    BY DEF Init
  <2>3. child \in [Processes -> Child] /\ spawned \in [Processes -> Child \cup {"error"}]
    BY DEF Init, Child
  <2> QED
    BY <2>1, <2>2, <2>3 DEF Init, TypeOK
<1>2. WatchInv
  BY DEF Init, WatchInv, NoChildInRestart, ChildIsKnown, ChildIsWatched
<1>3. RestartsCounted
  BY SupervisorAssumption DEF Init, RestartsCounted
<1>4. StopRemembered
  BY DEF Init, StopRemembered
<1> QED
  BY <1>1, <1>2, <1>3, <1>4

\* A step of a monitor preserves the types.
LEMMA MonitorTypeStep ==
    ASSUME TypeOK, NEW p \in Processes, MonitorStep(p)
    PROVE  TypeOK'
<1>1. CASE MonitorWakes(p) \/ CheckGone(p)
  BY <1>1 DEF MonitorWakes, CheckGone, Goto, TypeOK, record, history, Child
<1>2. CASE CheckUnresponsive(p)
  BY <1>2 DEF CheckUnresponsive, Goto, TypeOK, history, Child
<1>3. CASE CheckChild(p)
  BY <1>3 DEF CheckChild, Goto, TypeOK, record, history, Child
<1>4. CASE Decide(p)
  BY <1>4 DEF Decide, Goto, TypeOK, history, Child
<1>5. CASE BackoffEnds(p) \/ Recheck(p)
  BY <1>5 DEF BackoffEnds, Recheck, Goto, TypeOK, record, history, Child
<1>6. CASE Respawn(p)
  BY <1>6 DEF Respawn, Goto, TypeOK, record, Child
<1>7. CASE Attach(p)
  BY <1>7 DEF Attach, Goto, TypeOK, history, Child
<1> QED
  BY <1>1, <1>2, <1>3, <1>4, <1>5, <1>6, <1>7 DEF MonitorStep

\* Every step preserves the types.
LEMMA TypeStep ==
    ASSUME TypeOK, [Next]_vars
    PROVE  TypeOK'
<1>1. CASE \E p \in Processes : Spawn(p)
  BY <1>1 DEF Spawn, TypeOK, Child
<1>2. CASE \E p \in Processes : Stop(p)
  BY <1>2 DEF Stop, TypeOK, Child
<1>3. CASE \E p \in Processes : RecordHeartbeat(p)
  <2> PICK p \in Processes : RecordHeartbeat(p)
    BY <1>3
  <2>1. late' \in [Processes -> 0 .. MaxLate]
    BY SupervisorAssumption DEF RecordHeartbeat, TypeOK
  <2> QED
    BY <2>1 DEF RecordHeartbeat, TypeOK, Child
<1>4. CASE \E p \in Processes : ChildExits(p)
  BY <1>4 DEF ChildExits, TypeOK, Child, Exited, history
<1>5. CASE \E p \in Processes : HeartbeatStale(p)
  BY <1>5 DEF HeartbeatStale, TypeOK, Child, record, history
<1>6. CASE \E p \in Processes : MonitorStep(p)
  BY <1>6, MonitorTypeStep
<1>7. CASE DropSignal
  BY <1>7 DEF DropSignal, TypeOK, record, history
<1>8. CASE DropProcesses
  BY <1>8 DEF DropProcesses, TypeOK, Child, history
<1>9. CASE UNCHANGED vars
  BY <1>9 DEF vars, TypeOK, record, history
<1> QED
  BY <1>1, <1>2, <1>3, <1>4, <1>5, <1>6, <1>7, <1>8, <1>9 DEF Next

-----------------------------------------------------------------------------
(* Children and their monitors.                                            *)

\* A step of a monitor keeps the children single, known and watched.
LEMMA MonitorWatchStep ==
    ASSUME TypeOK, WatchInv, NEW p \in Processes, MonitorStep(p)
    PROVE  WatchInv'
<1> USE DEF WatchInv, NoChildInRestart, ChildIsKnown, ChildIsWatched, TypeOK, Goto
<1>1. CASE MonitorWakes(p)
  BY <1>1 DEF MonitorWakes, record
<1>2. CASE CheckGone(p)
  BY <1>2 DEF CheckGone, Gone, record
<1>3. CASE CheckUnresponsive(p)
  BY <1>3 DEF CheckUnresponsive
<1>4. CASE CheckChild(p)
  BY <1>4 DEF CheckChild, record
<1>5. CASE Decide(p)
  BY <1>5 DEF Decide
<1>6. CASE BackoffEnds(p) \/ Recheck(p)
  BY <1>6 DEF BackoffEnds, Recheck, record
<1>7. CASE Respawn(p)
  BY <1>7 DEF Respawn, record
<1>8. CASE Attach(p)
  BY <1>8 DEF Attach, Gone
<1> QED
  BY <1>1, <1>2, <1>3, <1>4, <1>5, <1>6, <1>7, <1>8 DEF MonitorStep

\* Every step does.
LEMMA WatchStep ==
    ASSUME TypeOK, WatchInv, [Next]_vars
    PROVE  WatchInv'
<1> USE DEF WatchInv, NoChildInRestart, ChildIsKnown, ChildIsWatched, TypeOK
<1>1. CASE \E p \in Processes : Spawn(p)
  BY <1>1 DEF Spawn
<1>2. CASE \E p \in Processes : Stop(p)
  BY <1>2 DEF Stop
<1>3. CASE \E p \in Processes : RecordHeartbeat(p)
  BY <1>3 DEF RecordHeartbeat
<1>4. CASE \E p \in Processes : ChildExits(p)
  BY <1>4 DEF ChildExits, Exited
<1>5. CASE \E p \in Processes : HeartbeatStale(p)
  BY <1>5 DEF HeartbeatStale, record
<1>6. CASE \E p \in Processes : MonitorStep(p)
  BY <1>6, MonitorWatchStep
<1>7. CASE DropSignal
  BY <1>7 DEF DropSignal, record
<1>8. CASE DropProcesses
  BY <1>8 DEF DropProcesses
<1>9. CASE UNCHANGED vars
  BY <1>9 DEF vars, record
<1> QED
  BY <1>1, <1>2, <1>3, <1>4, <1>5, <1>6, <1>7, <1>8, <1>9 DEF Next

-----------------------------------------------------------------------------
(* Restarts.                                                               *)

\* A step of a monitor counts its restarts.
LEMMA MonitorRestartStep ==
    ASSUME TypeOK, RestartsCounted, NEW p \in Processes, MonitorStep(p)
    PROVE  RestartsCounted'
<1> USE SupervisorAssumption DEF RestartsCounted, TypeOK, Goto
<1>1. CASE MonitorWakes(p) \/ CheckGone(p) \/ BackoffEnds(p) \/ Recheck(p)
  BY <1>1 DEF MonitorWakes, CheckGone, BackoffEnds, Recheck, record, history
<1>2. CASE CheckUnresponsive(p) \/ CheckChild(p) \/ Attach(p)
  BY <1>2 DEF CheckUnresponsive, CheckChild, Attach, record, history
<1>3. CASE Decide(p)
  BY <1>3 DEF Decide, history
<1>4. CASE Respawn(p)
  BY <1>4 DEF Respawn, record
<1> QED
  BY <1>1, <1>2, <1>3, <1>4 DEF MonitorStep

\* Every step does: a heartbeat resets the count of a process that is heard.
LEMMA RestartStep ==
    ASSUME TypeOK, RestartsCounted, [Next]_vars
    PROVE  RestartsCounted'
<1> USE SupervisorAssumption DEF RestartsCounted, TypeOK
<1>1. CASE \E p \in Processes : Spawn(p)
  BY <1>1 DEF Spawn
<1>2. CASE \E p \in Processes : Stop(p) \/ ChildExits(p) \/ HeartbeatStale(p)
  BY <1>2 DEF Stop, ChildExits, HeartbeatStale, record, history
<1>3. CASE \E p \in Processes : RecordHeartbeat(p)
  BY <1>3 DEF RecordHeartbeat
<1>4. CASE \E p \in Processes : MonitorStep(p)
  BY <1>4, MonitorRestartStep
<1>5. CASE DropSignal \/ DropProcesses
  BY <1>5 DEF DropSignal, DropProcesses, record, history
<1>6. CASE UNCHANGED vars
  BY <1>6 DEF vars, record, history
<1> QED
  BY <1>1, <1>2, <1>3, <1>4, <1>5, <1>6 DEF Next

-----------------------------------------------------------------------------
(* Stops.                                                                  *)

\* Without late heartbeats nothing makes the health forget a stop: a monitor
\* changes it only where it finds a child, or after the re-check.
LEMMA StopStep ==
    ASSUME ~HeartbeatsAfterStop, TypeOK, WatchInv, StopRemembered, [Next]_vars
    PROVE  StopRemembered'
<1> USE DEF StopRemembered, TypeOK
<1>1. CASE \E p \in Processes : Spawn(p) \/ Stop(p) \/ ChildExits(p) \/ HeartbeatStale(p)
  BY <1>1 DEF Spawn, Stop, ChildExits, HeartbeatStale, record, history
<1>2. CASE \E p \in Processes : RecordHeartbeat(p)
  BY <1>2 DEF RecordHeartbeat
<1>3. CASE \E p \in Processes : MonitorStep(p)
  <2> PICK p \in Processes : MonitorStep(p)
    BY <1>3
  <2>1. CASE MonitorWakes(p) \/ CheckGone(p) \/ Decide(p) \/ BackoffEnds(p) \/ Recheck(p)
    BY <2>1 DEF MonitorWakes, CheckGone, Decide, BackoffEnds, Recheck, record, history
  <2>2. CASE CheckUnresponsive(p) \/ CheckChild(p)
    BY <2>2 DEF CheckUnresponsive, CheckChild, Gone, record, history
  <2>3. CASE Respawn(p) \/ Attach(p)
    BY <2>3 DEF Respawn, Attach, Gone, record, history
  <2> QED
    BY <2>1, <2>2, <2>3 DEF MonitorStep
<1>4. CASE DropSignal \/ DropProcesses
  BY <1>4 DEF DropSignal, DropProcesses, record, history
<1>5. CASE UNCHANGED vars
  BY <1>5 DEF vars, record, history
<1> QED
  BY <1>1, <1>2, <1>3, <1>4, <1>5 DEF Next

-----------------------------------------------------------------------------
(* The theorems.                                                           *)

\* Every variable keeps its type.
THEOREM TypeCorrect == Spec => []TypeOK
BY InitEstablishes, TypeStep, PTL DEF Spec

\* The inductive invariant of the children holds in every reachable state.
LEMMA Watched == Spec => [](TypeOK /\ WatchInv)
BY InitEstablishes, TypeStep, WatchStep, PTL DEF Spec

\* No process ever has a second child, attached or about to be: the monitor
\* spawns without the lock only when the first one is gone.
THEOREM NeverTwoChildren == Spec => []OneChild
<1>1. TypeOK /\ WatchInv => OneChild
  BY DEF WatchInv, NoChildInRestart, OneChild, Child
<1> QED
  BY <1>1, Watched, PTL

\* As long as the supervisor lives, no monitor ends while its process has a
\* child whose exit it should notice.
THEOREM ChildrenWatched == Spec => []ChildIsWatched
<1>1. WatchInv => ChildIsWatched
  BY DEF WatchInv
<1> QED
  BY <1>1, Watched, PTL

\* A process that was stopped has no child ever again, wherever its monitor
\* was at the time, if no heartbeat of it is recorded after the stop.
THEOREM StopIsFinal ==
    ASSUME ~HeartbeatsAfterStop
    PROVE  Spec => []StoppedStaysDown
<1>1. WatchInv /\ StopRemembered /\ TypeOK => StoppedStaysDown
  BY DEF WatchInv, ChildIsKnown, StopRemembered, StoppedStaysDown, TypeOK
<1>2. TypeOK /\ WatchInv /\ StopRemembered /\ [Next]_vars => StopRemembered'
  BY StopStep
<1> QED
  BY <1>1, <1>2, InitEstablishes, Watched, PTL DEF Spec

\* A process that never sends a heartbeat is spawned once and then at most
\* max_restarts times.
THEOREM RestartsBounded == Spec => []SilentIsGivenUp
<1>1. TypeOK /\ RestartsCounted => SilentIsGivenUp
  BY SupervisorAssumption DEF TypeOK, RestartsCounted, SilentIsGivenUp
<1> QED
  BY <1>1, InitEstablishes, TypeStep, RestartStep, PTL DEF Spec

=============================================================================
