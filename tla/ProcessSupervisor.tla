------------------------- MODULE ProcessSupervisor -------------------------
(***************************************************************************)
(* The supervisor of child processes: crates/kael/src/supervisor.rs.       *)
(*                                                                         *)
(* The owner spawns, stops and drops; a monitor thread per process polls   *)
(* its child, and restarts it after a backoff.  All share the map of the   *)
(* processes behind a mutex that the monitor releases around callbacks,    *)
(* around the backoff and around the spawn itself, so that stop, heartbeat *)
(* and Drop fall between its decisions.  One condition variable wakes all  *)
(* monitors.                                                               *)
(*                                                                         *)
(* Time is abstract: a heartbeat becomes stale, a wait times out, at any   *)
(* moment; so the wake-ups that stop and Drop send to the condition        *)
(* variable add no behaviour, and are left out.                            *)
(***************************************************************************)
EXTENDS Naturals, FiniteSets

CONSTANTS
    Processes,        \* process identifiers
    Policy,           \* process -> its RestartPolicy
    MaxRestarts,      \* max_restarts of OnFailure
    MaxSpawns,        \* bound: process -> how often it is spawned before its children no longer exit
    MaxLate,          \* bound: heartbeats of a process recorded after its child exited
    HeartbeatsAfterStop  \* may a heartbeat be recorded after its process was stopped?

ASSUME SupervisorAssumption ==
    /\ Policy \in [Processes -> {"never", "on_failure", "always"}]
    /\ MaxRestarts \in Nat
    /\ MaxSpawns \in [Processes -> Nat \ {0}]
    /\ MaxLate \in Nat
    /\ HeartbeatsAfterStop \in BOOLEAN

VARIABLES
    processes,       \* the keys of the map
    health, restart_count, child,
    stale,           \* processes whose last heartbeat is older than the threshold
    monitor,         \* process -> where its monitor thread is
    spawned,         \* process -> what the spawner gave the monitor, not attached yet
    shutdown,        \* the flag of monitor_signal
    dropped,         \* the ProcessSupervisor was dropped
    spawns,          \* process -> children spawned for it
    late,            \* process -> heartbeats recorded after a child of it exited
    stopped,         \* history: processes for which stop() returned Ok
    heard            \* history: processes a heartbeat was recorded for

record  == <<health, restart_count, child>>
history == <<spawns, late, stopped, heard>>
vars == <<processes, record, stale, monitor, spawned, shutdown, dropped, history>>

Child == {"none", "running", "succeeded", "failed"}
Exited == {"succeeded", "failed"}

TypeOK ==
    /\ processes \in SUBSET Processes
    /\ health \in [Processes -> {"Starting", "Healthy", "Unresponsive", "Dead", "Stopped"}]
    /\ restart_count \in [Processes -> Nat]
    /\ child \in [Processes -> Child]
    /\ stale \in SUBSET Processes
    /\ monitor \in [Processes -> {"none", "wait", "check", "decide", "backoff", "recheck",
                                  "spawn", "attach", "done"}]
    /\ spawned \in [Processes -> Child \cup {"error"}]
    /\ shutdown \in BOOLEAN
    /\ dropped \in BOOLEAN
    /\ spawns \in [Processes -> Nat]
    /\ late \in [Processes -> 0 .. MaxLate]
    /\ stopped \in SUBSET Processes
    /\ heard \in SUBSET Processes

Init ==
    /\ processes = {}
    /\ health = [p \in Processes |-> "Starting"]
    /\ restart_count = [p \in Processes |-> 0]
    /\ child = [p \in Processes |-> "none"]
    /\ stale = {}
    /\ monitor = [p \in Processes |-> "none"]
    /\ spawned = [p \in Processes |-> "none"]
    /\ shutdown = FALSE
    /\ dropped = FALSE
    /\ spawns = [p \in Processes |-> 0]
    /\ late = [p \in Processes |-> 0]
    /\ stopped = {} /\ heard = {}

-----------------------------------------------------------------------------
(* The owner of the supervisor.                                            *)

\* Mutant of Spawn: an identifier is free again once its child is gone.
SpawnReusesIds(p) ==
    /\ ~shutdown
    /\ child[p] = "none"
    /\ processes' = processes \cup {p}
    /\ child' = [child EXCEPT ![p] = "running"]
    /\ monitor' = [monitor EXCEPT ![p] = "wait"]
    /\ spawns' = [spawns EXCEPT ![p] = 1]
    /\ UNCHANGED <<health, restart_count, stale, spawned, shutdown, dropped,
                   late, stopped, heard>>

\* spawn_with_options; when the spawner or the start of the monitor thread
\* fails nothing is kept.
Spawn(p) ==
    /\ ~shutdown
    /\ monitor[p] = "none"
    /\ processes' = processes \cup {p}
    /\ child' = [child EXCEPT ![p] = "running"]
    /\ monitor' = [monitor EXCEPT ![p] = "wait"]
    /\ spawns' = [spawns EXCEPT ![p] = 1]
    /\ UNCHANGED <<health, restart_count, stale, spawned, shutdown, dropped,
                   late, stopped, heard>>

\* stop: kills and reaps the child, if any, and ends every backoff.  A stop
\* that can neither kill nor reap it fails and changes nothing.
Stop(p) ==
    /\ ~shutdown
    /\ p \in processes
    /\ child' = [child EXCEPT ![p] = "none"]
    /\ health' = [health EXCEPT ![p] = "Stopped"]
    /\ stopped' = stopped \cup {p}
    /\ UNCHANGED <<processes, restart_count, stale, monitor, spawned, shutdown, dropped,
                   spawns, late, heard>>

\* record_heartbeat, for whatever state the process is in.  A heartbeat is
\* late when its child exited while it was on its way.
RecordHeartbeat(p) ==
    /\ ~shutdown
    /\ p \in processes
    /\ HeartbeatsAfterStop \/ p \notin stopped
    /\ \/ child[p] = "running" /\ UNCHANGED late
       \/ /\ child[p] # "running"
          /\ late[p] < MaxLate
          /\ late' = [late EXCEPT ![p] = @ + 1]
    /\ stale' = stale \ {p}
    /\ health' = [health EXCEPT ![p] = "Healthy"]
    /\ restart_count' = IF health[p] = "Healthy" THEN restart_count
                                                 ELSE [restart_count EXCEPT ![p] = 0]
    /\ heard' = heard \cup {p}
    /\ UNCHANGED <<processes, child, monitor, spawned, shutdown, dropped,
                   spawns, stopped>>

\* <ProcessSupervisor as Drop>::drop raises the flag and wakes the monitors ...
DropSignal ==
    /\ ~shutdown
    /\ shutdown' = TRUE
    /\ UNCHANGED <<processes, record, stale, monitor, spawned, dropped, history>>

\* ... and, under the lock, kills and reaps every child and clears the map.
DropProcesses ==
    /\ shutdown /\ ~dropped
    /\ dropped' = TRUE
    /\ processes' = {}
    /\ child' = [p \in Processes |-> "none"]
    /\ health' = [p \in Processes |-> IF p \in processes THEN "Stopped" ELSE health[p]]
    /\ UNCHANGED <<restart_count, stale, monitor, spawned, shutdown, history>>

-----------------------------------------------------------------------------
(* The operating system and the clock.                                     *)

\* A child exits, attached or not.
ChildExits(p) ==
    /\ spawns[p] < MaxSpawns[p]
    /\ \E status \in Exited :
        \/ /\ child[p] = "running"
           /\ child' = [child EXCEPT ![p] = status]
           /\ UNCHANGED spawned
        \/ /\ spawned[p] = "running"
           /\ spawned' = [spawned EXCEPT ![p] = status]
           /\ UNCHANGED child
    /\ UNCHANGED <<processes, health, restart_count, stale, monitor, shutdown,
                   dropped, history>>

\* last_heartbeat is now longer ago than the threshold.
HeartbeatStale(p) ==
    /\ p \in processes
    /\ stale' = stale \cup {p}
    /\ UNCHANGED <<processes, record, monitor, spawned, shutdown, dropped, history>>

-----------------------------------------------------------------------------
(* The monitor thread of process p.                                        *)

Goto(p, pc) == monitor' = [monitor EXCEPT ![p] = pc]

\* The one-second wait at the head of the loop is over.
MonitorWakes(p) ==
    /\ monitor[p] = "wait"
    /\ Goto(p, IF shutdown THEN "done" ELSE "check")
    /\ UNCHANGED <<processes, record, stale, spawned, shutdown, dropped, history>>

Gone(p) == p \notin processes \/ health[p] = "Stopped"

\* The loop ends when the process is gone or was left without a child.
CheckGone(p) ==
    /\ monitor[p] = "check"
    /\ Gone(p) \/ child[p] = "none"
    /\ Goto(p, "done")
    /\ UNCHANGED <<processes, record, stale, spawned, shutdown, dropped, history>>

\* Mutant of CheckUnresponsive: the monitor gives up.
CheckUnresponsiveEnds(p) ==
    /\ monitor[p] = "check"
    /\ ~Gone(p) /\ child[p] # "none"
    /\ p \in stale /\ health[p] = "Healthy"
    /\ health' = [health EXCEPT ![p] = "Unresponsive"]
    /\ Goto(p, "done")
    /\ UNCHANGED <<processes, restart_count, child, stale, spawned, shutdown,
                   dropped, history>>

\* Too many heartbeats were missed: only a process that was healthy is
\* declared unresponsive, and its exit is looked at in the next round.
CheckUnresponsive(p) ==
    /\ monitor[p] = "check"
    /\ ~Gone(p) /\ child[p] # "none"
    /\ p \in stale /\ health[p] = "Healthy"
    /\ health' = [health EXCEPT ![p] = "Unresponsive"]
    /\ Goto(p, "wait")
    /\ UNCHANGED <<processes, restart_count, child, stale, spawned, shutdown,
                   dropped, history>>

\* try_wait: the child runs, or has exited, or cannot be queried and is
\* killed.  The lock is released before a restart is considered.
CheckChild(p) ==
    /\ monitor[p] = "check"
    /\ ~Gone(p) /\ child[p] # "none"
    /\ ~(p \in stale /\ health[p] = "Healthy")
    /\ \/ /\ child[p] = "running"
          /\ Goto(p, "wait")
          /\ UNCHANGED record
       \/ \E queried \in BOOLEAN :
          /\ queried => child[p] \in Exited
          /\ ~queried => spawns[p] < MaxSpawns[p]
          /\ child' = [child EXCEPT ![p] = "none"]
          /\ health' = [health EXCEPT ![p] = "Dead"]
          /\ Goto(p, IF \/ Policy[p] = "always"
                        \/ Policy[p] = "on_failure" /\ (~queried \/ child[p] = "failed")
                     THEN "decide" ELSE "wait")
          /\ UNCHANGED restart_count
    /\ UNCHANGED <<processes, stale, spawned, shutdown, dropped, history>>

\* Mutant of Decide: one restart too many.
DecideOnceMore(p) ==
    /\ monitor[p] = "decide"
    /\ IF Gone(p)
         THEN Goto(p, "done") /\ UNCHANGED restart_count
         ELSE IF Policy[p] = "on_failure" /\ restart_count[p] > MaxRestarts
           THEN Goto(p, "wait") /\ UNCHANGED restart_count
           ELSE /\ Goto(p, "backoff")
                /\ restart_count' = [restart_count EXCEPT ![p] = @ + 1]
    /\ UNCHANGED <<processes, health, child, stale, spawned, shutdown, dropped,
                   spawns, late, stopped, heard>>

\* The restart decision, under the lock again; the attempt is counted, and
\* the backoff begins.
Decide(p) ==
    /\ monitor[p] = "decide"
    /\ IF Gone(p)
         THEN Goto(p, "done") /\ UNCHANGED restart_count
         ELSE IF Policy[p] = "on_failure" /\ restart_count[p] >= MaxRestarts
           THEN Goto(p, "wait") /\ UNCHANGED restart_count
           ELSE /\ Goto(p, "backoff")
                /\ restart_count' = [restart_count EXCEPT ![p] = @ + 1]
    /\ UNCHANGED <<processes, health, child, stale, spawned, shutdown, dropped,
                   spawns, late, stopped, heard>>

\* wait_for_monitor_signal returns from the backoff: it timed out, or the
\* condition variable was notified, for whatever reason.
BackoffEnds(p) ==
    /\ monitor[p] = "backoff"
    /\ Goto(p, IF shutdown THEN "done" ELSE "recheck")
    /\ UNCHANGED <<processes, record, stale, spawned, shutdown, dropped, history>>

\* Mutant of Recheck: the wrong way round.
RecheckInverted(p) ==
    /\ monitor[p] = "recheck"
    /\ Goto(p, IF Gone(p) \/ child[p] = "none" THEN "done" ELSE "spawn")
    /\ UNCHANGED <<processes, record, stale, spawned, shutdown, dropped, history>>

\* Under the lock again: stop() or a drop may have come during the backoff.
Recheck(p) ==
    /\ monitor[p] = "recheck"
    /\ Goto(p, IF Gone(p) \/ child[p] # "none" THEN "done" ELSE "spawn")
    /\ UNCHANGED <<processes, record, stale, spawned, shutdown, dropped, history>>

\* The spawner runs without the lock.
Respawn(p) ==
    /\ monitor[p] = "spawn"
    /\ \/ /\ spawned' = [spawned EXCEPT ![p] = "running"]
          /\ spawns' = [spawns EXCEPT ![p] = @ + 1]
       \/ /\ spawned' = [spawned EXCEPT ![p] = "error"]
          /\ UNCHANGED spawns
    /\ Goto(p, "attach")
    /\ UNCHANGED <<processes, record, stale, shutdown, dropped, late, stopped, heard>>

\* Mutant of Attach: the new child is attached whatever happened meanwhile.
AttachUnchecked(p) ==
    /\ monitor[p] = "attach"
    /\ spawned' = [spawned EXCEPT ![p] = "none"]
    /\ Goto(p, "wait")
    /\ IF spawned[p] = "error"
         THEN child' = [child EXCEPT ![p] = "none"] /\ UNCHANGED <<health, stale>>
         ELSE /\ child' = [child EXCEPT ![p] = spawned[p]]
              /\ health' = [health EXCEPT ![p] = "Starting"]
              /\ stale' = stale \ {p}
    /\ UNCHANGED <<processes, restart_count, shutdown, dropped, history>>

\* Under the lock: a new child nobody wants any more is killed; after a
\* failed spawn there is no child, and the next check ends the loop.
Attach(p) ==
    /\ monitor[p] = "attach"
    /\ spawned' = [spawned EXCEPT ![p] = "none"]
    /\ IF Gone(p)
         THEN Goto(p, "done") /\ UNCHANGED <<child, health, stale>>
         ELSE /\ Goto(p, "wait")
              /\ IF spawned[p] = "error"
                   THEN child' = [child EXCEPT ![p] = "none"] /\ UNCHANGED <<health, stale>>
                   ELSE /\ child' = [child EXCEPT ![p] = spawned[p]]
                        /\ health' = [health EXCEPT ![p] = "Starting"]
                        /\ stale' = stale \ {p}
    /\ UNCHANGED <<processes, restart_count, shutdown, dropped, history>>

MonitorStep(p) ==
    \/ MonitorWakes(p)
    \/ CheckGone(p) \/ CheckUnresponsive(p) \/ CheckChild(p)
    \/ Decide(p) \/ BackoffEnds(p) \/ Recheck(p) \/ Respawn(p) \/ Attach(p)

Next ==
    \/ \E p \in Processes :
        \/ Spawn(p) \/ Stop(p) \/ RecordHeartbeat(p)
        \/ ChildExits(p) \/ HeartbeatStale(p)
        \/ MonitorStep(p)
    \/ DropSignal \/ DropProcesses

Spec == Init /\ [][Next]_vars

\* Threads are scheduled, waits time out, and a drop that began completes.
Fairness ==
    /\ \A p \in Processes : WF_vars(MonitorStep(p))
    /\ WF_vars(DropProcesses)
FairSpec == Spec /\ Fairness

-----------------------------------------------------------------------------
\* After stop() no child of the process runs, wherever its monitor was: in
\* the backoff, at the re-check, in the spawn or about to attach ("a stopped
\* process must not restart after its backoff is interrupted",
\* supervisor.rs:881).
StoppedStaysDown == \A p \in stopped : child[p] = "none"

\* The supervisor never has two children for one process: a new child is
\* spawned, without the lock, only for a process that has none, and it has
\* none when the new one is attached.
OneChild == \A p \in Processes : spawned[p] \in Child \ {"none"} => child[p] = "none"

\* A child that is attached is watched, so that its exit will be noticed,
\* until the supervisor is dropped.
ChildIsWatched ==
    \A p \in Processes : child[p] # "none" /\ ~shutdown => monitor[p] \notin {"none", "done"}

\* A process that never sends a heartbeat is given up after max_restarts
\* restarts ("Maximum number of restart attempts before giving up",
\* process_model.rs:1490).
SilentIsGivenUp ==
    \A p \in Processes \ heard : Policy[p] = "on_failure" => spawns[p] <= 1 + MaxRestarts

\* After the drop of the supervisor no monitor and no child is left running,
\* not even one that a monitor was spawning at that moment.
NothingOutlivesDrop ==
    dropped ~> \A p \in Processes : /\ monitor[p] \in {"none", "done"}
                                    /\ child[p] = "none" /\ spawned[p] = "none"

\* A child that must be restarted and has exited is followed by another,
\* unless the process is stopped, the new child cannot be spawned, or the
\* supervisor is dropped.
AlwaysRestarted ==
    \A p \in Processes :
        Policy[p] = "always" /\ child[p] \in Exited
            ~> child[p] = "running" \/ p \in stopped \/ shutdown \/ spawned[p] = "error"

=============================================================================
