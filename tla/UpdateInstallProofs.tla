------------------------ MODULE UpdateInstallProofs ------------------------
(***************************************************************************)
(* Proofs about UpdateInstall: for any instances, versions and tokens, an  *)
(* instance installs only what it was offered last; and until an attempt   *)
(* takes a backup for the installation, the swap loses no version, and the *)
(* gap in which nothing is live belongs to one attempt.                    *)
(***************************************************************************)
EXTENDS UpdateInstall, TLAPS

\* An update an instance was offered is newer than what it runs.
Offered ==
    \A i \in Instances : latest_update[i] # None =>
        running[i] # None /\ latest_update[i] > running[i]

\* The staged copy is there from the end of the copy to the swap or the end
\* of the attempt, and is the update that was verified.
Attempt ==
    \A i \in Instances :
        /\ step[i] = "stage" => /\ downloaded_path[i] = latest_update[i]
                                /\ latest_update[i] # None
        /\ IF step[i] \in {"preflight", "backup", "swap_in", "restore"}
             THEN staged[i] = latest_update[i] /\ latest_update[i] # None
             ELSE staged[i] = None
        /\ IF step[i] \in {"idle", "stage"}
             THEN live[i] = None /\ backup[i] = None
             ELSE live[i] # None /\ backup[i] # None

\* An instance that is gone is in no attempt.
IdleWhenGone == \A i \in Instances : running[i] = None => step[i] = "idle"

IInv == TypeOK /\ Offered /\ Attempt /\ IdleWhenGone

\* What every attempt replaces is the installation, and no two attempts use
\* one backup path.
OnePlace ==
    /\ \A i \in Instances : live[i] \in {Installation, None}
    /\ \A i, j \in Instances : backup[i] = backup[j] /\ backup[i] # None => i = j

\* When nothing is at the installation, its last version is at a backup path
\* that no attempt is about to discard.
Kept ==
    /\ content[Installation] # None => content[Installation] = installed
    /\ content[Installation] = None =>
        \E t \in Tokens : /\ content[t] = installed
                          /\ \A i \in Instances : backup[i] = t => InGap(i)

\* An attempt in its gap is the only one, and its backup is the last version.
OneGapOnly ==
    \A i \in Instances : InGap(i) =>
        /\ content[Installation] = None /\ content[backup[i]] = installed
        /\ \A j \in Instances : InGap(j) => j = i

\* The invariant of the swap, until an attempt strays.
SwapInv == ~strayed => OnePlace /\ OneGapOnly /\ Kept

-----------------------------------------------------------------------------
\* Every step keeps the types.
LEMMA TypesKept == IInv /\ [Next]_vars => TypeOK'
<1> SUFFICES ASSUME TypeOK, Attempt, [Next]_vars PROVE TypeOK'
    BY DEF IInv
<1> USE UpdateInstallAssumption DEF TypeOK, Goto, EndAttempt, Steps, Paths, files, updater, plan
<1> DEFINE FilesOK == /\ content' \in [Paths -> Versions \cup {None}]
                      /\ exe' \in [Instances -> Paths \cup {None}]
                      /\ installed' \in Versions
           StepOK == /\ step' \in [Instances -> Steps]
                     /\ staged' \in [Instances -> Versions \cup {None}]
                     /\ live' \in [Instances -> Paths \cup {None}]
                     /\ backup' \in [Instances -> Tokens \cup {None}]
           UpdaterOK == /\ running' \in [Instances -> Versions \cup {None}]
                        /\ latest_update' \in [Instances -> Versions \cup {None}]
                        /\ downloaded_path' \in [Instances -> Versions \cup {None}]
<1>0. strayed' \in BOOLEAN
    BY DEF Next, vars, StartApp, CheckForUpdates, DownloadUpdate, InstallAndRestart, Stage,
           Preflight, Backup, SwapIn, Restore, DiscardBackup, Restart, Crash
<1>1. CASE UNCHANGED vars
    BY <1>0, <1>1 DEF vars
<1>2. ASSUME NEW p \in Paths, NEW v \in Versions \cup {None}, Put(p, v), Removed(p)
      PROVE FilesOK
    BY <1>2 DEF Put, Removed, Follows
<1>3. ASSUME NEW p \in Paths, NEW q \in Paths, content[p] # None, Rename(p, q)
      PROVE FilesOK
    BY <1>3 DEF Rename, Follows
<1>4. ASSUME NEW i \in Instances, NEW p \in Paths, Start(i, p) PROVE FilesOK /\ UpdaterOK
    BY <1>4 DEF Start
<1>5. ASSUME NEW i \in Instances,
             step[i] \in {"preflight", "backup", "swap_in", "restore", "discard", "restart"}
      PROVE live[i] \in Paths /\ backup[i] \in Tokens
    BY <1>5 DEF Attempt
<1>6. ASSUME NEW i \in Instances, StartApp(i) PROVE TypeOK'
    BY <1>0, <1>4, <1>6 DEF StartApp
<1>7. ASSUME NEW i \in Instances, CheckForUpdates(i) PROVE TypeOK'
    BY <1>0, <1>7 DEF CheckForUpdates
<1>8. ASSUME NEW i \in Instances, DownloadUpdate(i) PROVE TypeOK'
    BY <1>0, <1>8 DEF DownloadUpdate
<1>9. ASSUME NEW i \in Instances, InstallAndRestart(i) PROVE TypeOK'
    BY <1>0, <1>9 DEF InstallAndRestart
<1>10. ASSUME NEW i \in Instances, Stage(i) PROVE TypeOK'
    BY <1>0, <1>10 DEF Stage
<1>11. ASSUME NEW i \in Instances, Preflight(i) PROVE TypeOK'
    BY <1>0, <1>11 DEF Preflight
<1>12. ASSUME NEW i \in Instances, Backup(i) PROVE TypeOK'
  <2>1. FilesOK
    BY <1>3, <1>5, <1>12 DEF Backup
  <2>2. StepOK /\ UpdaterOK
    BY <1>12 DEF Backup
  <2> QED
    BY <1>0, <2>1, <2>2
<1>13. ASSUME NEW i \in Instances, SwapIn(i) PROVE TypeOK'
  <2>1. FilesOK
    BY <1>2, <1>5, <1>13 DEF SwapIn
  <2>2. StepOK /\ UpdaterOK
    BY <1>13 DEF SwapIn
  <2> QED
    BY <1>0, <2>1, <2>2
<1>14. ASSUME NEW i \in Instances, Restore(i) PROVE TypeOK'
  <2>1. FilesOK
    BY <1>2, <1>3, <1>5, <1>14 DEF Restore, Remove
  <2>2. StepOK /\ UpdaterOK
    BY <1>14 DEF Restore
  <2> QED
    BY <1>0, <2>1, <2>2
<1>15. ASSUME NEW i \in Instances, DiscardBackup(i) PROVE TypeOK'
  <2>1. FilesOK
    BY <1>2, <1>5, <1>15 DEF DiscardBackup, Remove
  <2>2. StepOK /\ UpdaterOK
    BY <1>15 DEF DiscardBackup
  <2> QED
    BY <1>0, <2>1, <2>2
<1>16. ASSUME NEW i \in Instances, Restart(i) PROVE TypeOK'
  <2>1. FilesOK /\ UpdaterOK
    BY <1>4, <1>5, <1>16 DEF Restart
  <2>2. StepOK
    BY <1>16 DEF Restart
  <2> QED
    BY <1>0, <2>1, <2>2
<1>17. ASSUME NEW i \in Instances, Crash(i) PROVE TypeOK'
    BY <1>0, <1>17 DEF Crash
<1> QED
    BY <1>1, <1>6, <1>7, <1>8, <1>9, <1>10, <1>11, <1>12, <1>13, <1>14, <1>15, <1>16, <1>17
    DEF Next

-----------------------------------------------------------------------------
\* An offer is made by a check, which knows the version that runs; it goes
\* with the process.
LEMMA OfferedKept == IInv /\ [Next]_vars => Offered'
<1> SUFFICES ASSUME TypeOK, Offered, [Next]_vars, NEW k \in Instances, latest_update'[k] # None
             PROVE running'[k] # None /\ latest_update'[k] > running'[k]
    BY DEF IInv, Offered
<1> USE DEF TypeOK, Offered
<1>1. CASE UNCHANGED updater
    BY <1>1 DEF updater
<1>2. ASSUME NEW i \in Instances, NEW p \in Paths \cup {None}, Start(i, p)
      PROVE k # i /\ UNCHANGED <<running[k], latest_update[k]>>
    BY <1>2 DEF Start
<1>3. ASSUME NEW i \in Instances, CheckForUpdates(i)
      PROVE running'[k] # None /\ latest_update'[k] > running'[k]
    BY <1>3 DEF CheckForUpdates, Idle
<1>4. ASSUME NEW i \in Instances, Crash(i) PROVE k # i /\ UNCHANGED <<running[k], latest_update[k]>>
    BY <1>4 DEF Crash
<1>5. ASSUME NEW i \in Instances, DownloadUpdate(i) PROVE UNCHANGED <<running, latest_update>>
    BY <1>5 DEF DownloadUpdate
<1>6. ASSUME NEW i \in Instances,
             \/ \E p \in Paths \cup {None} : Start(i, p)
             \/ Crash(i) \/ DownloadUpdate(i)
      PROVE running'[k] # None /\ latest_update'[k] > running'[k]
    BY <1>2, <1>4, <1>5, <1>6
<1>7. CASE UNCHANGED vars
    BY <1>1, <1>7 DEF vars
<1>8. ASSUME NEW i \in Instances,
             \/ InstallAndRestart(i) \/ Stage(i) \/ Preflight(i) \/ Backup(i) \/ SwapIn(i)
             \/ Restore(i) \/ DiscardBackup(i)
      PROVE UNCHANGED updater
    BY <1>8 DEF InstallAndRestart, Stage, Preflight, Backup, SwapIn, Restore, DiscardBackup
<1>9. ASSUME NEW i \in Instances, Restart(i)
      PROVE (\E p \in Paths \cup {None} : Start(i, p)) \/ UNCHANGED updater
    BY <1>9 DEF Restart, files, updater
<1>10. CASE Next
  <2>1. PICK i \in Instances :
            \/ StartApp(i) \/ CheckForUpdates(i) \/ DownloadUpdate(i) \/ InstallAndRestart(i)
            \/ Stage(i) \/ Preflight(i) \/ Backup(i) \/ SwapIn(i) \/ Restore(i)
            \/ DiscardBackup(i) \/ Restart(i) \/ Crash(i)
    BY <1>10 DEF Next
  <2>2. CASE StartApp(i) \/ Crash(i) \/ DownloadUpdate(i)
    BY <1>6, <2>2 DEF StartApp, Paths
  <2>3. CASE Restart(i)
    BY <1>1, <1>6, <1>9, <2>3
  <2> QED
    BY <1>1, <1>3, <1>8, <2>1, <2>2, <2>3
<1> QED
    BY <1>7, <1>10

\* A step of one instance leaves the attempts of the others alone, and its
\* own attempt with the copy its next step expects.
LEMMA AttemptKept == IInv /\ [Next]_vars => Attempt'
<1> SUFFICES ASSUME TypeOK, Attempt, IdleWhenGone, [Next]_vars PROVE Attempt'
    BY DEF IInv
<1> USE UpdateInstallAssumption DEF TypeOK, Attempt, Paths, Goto, EndAttempt, updater, files, plan
<1>1. CASE UNCHANGED vars
    BY <1>1 DEF vars
<1>2. ASSUME NEW i \in Instances, StartApp(i) PROVE Attempt'
  <2>1. step[i] \notin {"stage", "preflight", "backup", "swap_in", "restore"}
    BY <1>2 DEF IdleWhenGone, StartApp
  <2> QED
    BY <1>2, <2>1 DEF StartApp, Start
<1>3. ASSUME NEW i \in Instances, CheckForUpdates(i) PROVE Attempt'
    BY <1>3 DEF CheckForUpdates, Idle
<1>4. ASSUME NEW i \in Instances, DownloadUpdate(i) PROVE Attempt'
    BY <1>4 DEF DownloadUpdate, Idle
<1>5. ASSUME NEW i \in Instances, InstallAndRestart(i) PROVE Attempt'
    BY <1>5 DEF InstallAndRestart, Idle, VerifyDownloadedFile
<1>6. ASSUME NEW i \in Instances, Stage(i) PROVE Attempt'
    BY <1>6 DEF Stage
<1>7. ASSUME NEW i \in Instances, Preflight(i) PROVE Attempt'
    BY <1>7 DEF Preflight
<1>8. ASSUME NEW i \in Instances, Backup(i) PROVE Attempt'
    BY <1>8 DEF Backup
<1>9. ASSUME NEW i \in Instances, SwapIn(i) PROVE Attempt'
    BY <1>9 DEF SwapIn
<1>10. ASSUME NEW i \in Instances, Restore(i) PROVE Attempt'
    BY <1>10 DEF Restore
<1>11. ASSUME NEW i \in Instances, DiscardBackup(i) PROVE Attempt'
    BY <1>11 DEF DiscardBackup
<1>12. ASSUME NEW i \in Instances, Restart(i) PROVE Attempt'
    BY <1>12 DEF Restart, Start
<1>13. ASSUME NEW i \in Instances, Crash(i) PROVE Attempt'
    BY <1>13 DEF Crash
<1> QED
    BY <1>1, <1>2, <1>3, <1>4, <1>5, <1>6, <1>7, <1>8, <1>9, <1>10, <1>11, <1>12, <1>13 DEF Next

\* Only a crash ends a process, and it ends its attempt.
LEMMA IdleWhenGoneKept == IInv /\ [Next]_vars => IdleWhenGone'
<1> SUFFICES ASSUME TypeOK, IdleWhenGone, [Next]_vars PROVE IdleWhenGone'
    BY DEF IInv
<1> USE DEF TypeOK, IdleWhenGone, Goto, EndAttempt, updater
<1>1. CASE UNCHANGED <<running, step>>
    BY <1>1
<1>2. ASSUME NEW i \in Instances, UNCHANGED running, step[i] # "idle" \/ Idle(i),
             NEW s \in Steps, Goto(i, s)
      PROVE IdleWhenGone'
    BY <1>2 DEF Idle
<1>3. ASSUME NEW i \in Instances, StartApp(i) \/ Restart(i) \/ Crash(i) PROVE IdleWhenGone'
    BY <1>3 DEF StartApp, Restart, Start, Crash
<1>4. CASE \E i \in Instances : CheckForUpdates(i) \/ DownloadUpdate(i)
    BY <1>1, <1>4 DEF CheckForUpdates, DownloadUpdate
<1>5. CASE \E i \in Instances :
              \/ InstallAndRestart(i) \/ Stage(i) \/ Preflight(i) \/ Backup(i) \/ SwapIn(i)
              \/ Restore(i) \/ DiscardBackup(i)
    BY <1>2, <1>5 DEF InstallAndRestart, Stage, Preflight, Backup, SwapIn, Restore,
                      DiscardBackup, Steps
<1> QED
    BY <1>1, <1>3, <1>4, <1>5 DEF Next, vars

-----------------------------------------------------------------------------
\* The invariant holds at first, and in every step.
LEMMA InitInvariant == Init => IInv /\ SwapInv
    BY UpdateInstallAssumption
    DEF Init, Nothing, IInv, TypeOK, Steps, Paths, Offered, Attempt, IdleWhenGone, SwapInv,
        OnePlace, OneGapOnly, InGap, Kept

\* What the theorems below follow from.
LEMMA Invariance == Spec => []IInv
<1>1. IInv /\ [Next]_vars => IInv'
    BY TypesKept, OfferedKept, AttemptKept, IdleWhenGoneKept DEF IInv
<1> QED
    BY InitInvariant, <1>1, PTL DEF Spec

\* Every variable keeps its type; above all, what is swapped in, and what is
\* put back, is a version.
THEOREM UpdateTypes == Spec => []TypeOK
    BY Invariance, PTL DEF IInv

\* What is staged is what the feed offered last, and newer than what runs.
THEOREM LatestIsInstalled == Spec => []InstallsLatestUpdate
<1>1. IInv => InstallsLatestUpdate
    BY DEF IInv, Offered, Attempt, InstallsLatestUpdate
<1> QED
    BY Invariance, <1>1, PTL

-----------------------------------------------------------------------------
\* That an attempt took something else for the installation is not forgotten.
LEMMA StrayedLasts ==
    ASSUME [Next]_vars, strayed
    PROVE  strayed'
    BY DEF Next, vars, StartApp, CheckForUpdates, DownloadUpdate, InstallAndRestart, Stage,
           Preflight, Backup, SwapIn, Restore, DiscardBackup, Restart, Crash

\* An attempt that does not stray replaces the installation, and the path of
\* a fresh token is no other attempt's.
LEMMA OnePlaceKept ==
    ASSUME IInv, OnePlace, ~strayed', [Next]_vars
    PROVE  OnePlace'
<1> USE UpdateInstallAssumption
    DEF IInv, TypeOK, Attempt, OnePlace, Paths, Goto, EndAttempt, updater, plan
<1>1. ASSUME UNCHANGED <<live, backup>> PROVE OnePlace'
    BY <1>1
<1>2. ASSUME NEW i \in Instances,
             live' = [live EXCEPT ![i] = None], backup' = [backup EXCEPT ![i] = None]
      PROVE OnePlace'
    BY <1>2
<1>3. ASSUME NEW i \in Instances, Stage(i) PROVE OnePlace'
  <2>1. CASE EndAttempt(i)
    BY <1>2, <2>1
  <2>2. CASE ~EndAttempt(i)
    <3>1. exe[i] = Installation /\ live' = [live EXCEPT ![i] = exe[i]]
      BY <1>3, <2>2 DEF Stage
    <3>2. \E t \in Tokens : /\ backup' = [backup EXCEPT ![i] = t]
                            /\ \A j \in Instances : backup[j] # t
      BY <1>3, <2>2 DEF Stage, FreshToken
    <3> QED
      BY <3>1, <3>2
  <2> QED
    BY <2>1, <2>2
<1>4. ASSUME NEW i \in Instances,
             StartApp(i) \/ CheckForUpdates(i) \/ DownloadUpdate(i) \/ InstallAndRestart(i)
      PROVE OnePlace'
    BY <1>1, <1>4 DEF StartApp, CheckForUpdates, DownloadUpdate, InstallAndRestart
<1>5. ASSUME NEW i \in Instances, Preflight(i) \/ Backup(i) \/ SwapIn(i) PROVE OnePlace'
    BY <1>1, <1>2, <1>5 DEF Preflight, Backup, SwapIn
<1>6. ASSUME NEW i \in Instances,
             Restore(i) \/ DiscardBackup(i) \/ Restart(i) \/ Crash(i)
      PROVE OnePlace'
    BY <1>1, <1>2, <1>6 DEF Restore, DiscardBackup, Restart, Crash
<1>7. CASE UNCHANGED vars
    BY <1>1, <1>7 DEF vars
<1> QED
    BY <1>3, <1>4, <1>5, <1>6, <1>7 DEF Next

\* A gap opens by a rename that finds the installation there, which no
\* other gap allows; a backup path is touched by its own attempt only.
LEMMA GapKept ==
    ASSUME IInv, OnePlace, OneGapOnly, Kept, [Next]_vars
    PROVE  OneGapOnly'
<1> USE UpdateInstallAssumption
    DEF IInv, TypeOK, Attempt, OneGapOnly, InGap, Paths, Goto, EndAttempt, files, updater, plan
<1>1. CASE UNCHANGED <<content, step, backup, installed>>
    BY <1>1
<1>2. ASSUME NEW i \in Instances, UNCHANGED <<content, installed>>, ~InGap(i),
             \A j \in Instances \ {i} : backup'[j] = backup[j],
             NEW s \in Steps \ {"swap_in", "restore"}, Goto(i, s)
      PROVE OneGapOnly'
    BY <1>2
<1>3. ASSUME NEW i \in Instances, Backup(i) PROVE OneGapOnly'
  <2>1. CASE EndAttempt(i) /\ UNCHANGED files
    BY <1>3, <2>1
  <2>2. CASE /\ content[live[i]] # None
             /\ Rename(live[i], backup[i])
             /\ Goto(i, "swap_in")
             /\ UNCHANGED plan
    <3>1. live[i] = Installation /\ backup[i] \in Tokens
      BY <1>3 DEF Backup, OnePlace
    <3>2. \A j \in Instances : ~InGap(j)
      BY <2>2, <3>1
    <3>3. content[Installation] = installed
      BY <2>2, <3>1 DEF Kept
    <3>4. /\ content'[Installation] = None /\ content'[backup[i]] = installed
          /\ installed' = installed
      BY <2>2, <3>1, <3>3 DEF Rename
    <3> QED
      BY <2>2, <3>2, <3>4
  <2> QED
    BY <1>3, <2>1, <2>2 DEF Backup
<1>4. ASSUME NEW i \in Instances, SwapIn(i) \/ Restore(i) PROVE OneGapOnly'
  <2>1. InGap(i) /\ \A j \in Instances : InGap(j) => j = i
    BY <1>4 DEF SwapIn, Restore
  <2>2. CASE step'[i] \notin {"swap_in", "restore"}
    BY <1>4, <2>1, <2>2 DEF SwapIn, Restore
  <2>3. CASE step'[i] \in {"swap_in", "restore"}
    BY <1>4, <2>1, <2>3 DEF SwapIn, Restore
  <2> QED
    BY <2>2, <2>3
<1>5. ASSUME NEW i \in Instances, DiscardBackup(i) PROVE OneGapOnly'
  <2>1. \A j \in Instances : InGap(j) => backup[j] # backup[i] /\ j # i
    BY <1>5 DEF DiscardBackup, OnePlace
  <2>2. backup[i] \in Tokens
    BY <1>5 DEF DiscardBackup
  <2> QED
    BY <1>5, <2>1, <2>2 DEF DiscardBackup, Remove, Put
<1>6. ASSUME NEW i \in Instances, Crash(i) PROVE OneGapOnly'
    BY <1>6 DEF Crash
<1>7. ASSUME NEW i \in Instances, StartApp(i) \/ CheckForUpdates(i) \/ DownloadUpdate(i)
      PROVE OneGapOnly'
    BY <1>1, <1>7 DEF StartApp, Start, CheckForUpdates, DownloadUpdate
<1>8. ASSUME NEW i \in Instances, InstallAndRestart(i) \/ Stage(i) \/ Preflight(i)
      PROVE OneGapOnly'
    BY <1>2, <1>8 DEF InstallAndRestart, Idle, Stage, Preflight, Steps
<1>9. ASSUME NEW i \in Instances, Restart(i) PROVE OneGapOnly'
    BY <1>2, <1>9 DEF Restart, Start, Steps
<1> QED
    BY <1>1, <1>3, <1>4, <1>5, <1>6, <1>7, <1>8, <1>9 DEF Next, vars

\* The version that was last at the installation is moved, never removed:
\* to a backup path, and back, or left there by an attempt that ends.
LEMMA LastVersionKept ==
    ASSUME IInv, OnePlace, OneGapOnly, Kept, [Next]_vars
    PROVE  Kept'
<1> USE UpdateInstallAssumption
    DEF IInv, TypeOK, Attempt, InGap, Paths, Goto, EndAttempt, files, updater, plan
<1>1. ASSUME UNCHANGED <<content, installed>>,
             \A i \in Instances : \/ backup'[i] = None
                                  \/ backup'[i] = backup[i] /\ step'[i] = step[i]
                                  \/ backup'[i] = backup[i] /\ ~InGap(i)
                                  \/ backup'[i] = backup[i] /\ InGap(i)'
                                  \/ content[backup'[i]] = None
      PROVE Kept'
  <2>1. CASE content[Installation] # None
    BY <1>1, <2>1 DEF Kept
  <2>2. CASE content[Installation] = None
    <3>1. PICK t \in Tokens : /\ content[t] = installed
                              /\ \A i \in Instances : backup[i] = t => InGap(i)
      BY <2>2 DEF Kept
    <3>2. \A i \in Instances : backup'[i] = t => InGap(i)'
      BY <1>1, <3>1
    <3> QED
      BY <1>1, <2>2, <3>1, <3>2 DEF Kept
  <2> QED
    BY <2>1, <2>2
<1>2. ASSUME NEW i \in Instances,
             step[i] \in {"preflight", "backup", "swap_in", "restore", "discard", "restart"}
      PROVE live[i] = Installation /\ backup[i] \in Tokens
    BY <1>2 DEF OnePlace
<1>3. ASSUME NEW i \in Instances, Backup(i) PROVE Kept'
  <2>1. CASE EndAttempt(i) /\ UNCHANGED files
    BY <1>1, <1>3, <2>1
  <2>2. CASE /\ content[live[i]] # None
             /\ Rename(live[i], backup[i])
             /\ Goto(i, "swap_in")
             /\ UNCHANGED plan
    <3>1. /\ content'[Installation] = None /\ content'[backup[i]] = installed
          /\ installed' = installed
      BY <1>2, <1>3, <2>2 DEF Kept, Rename, Backup
    <3>2. \A j \in Instances : backup'[j] = backup[i] => InGap(j)'
      BY <1>2, <1>3, <2>2 DEF OnePlace, Backup
    <3> QED
      BY <1>2, <1>3, <3>1, <3>2 DEF Kept, Backup
  <2> QED
    BY <1>3, <2>1, <2>2 DEF Backup
<1>4. ASSUME NEW i \in Instances, SwapIn(i) PROVE Kept'
  <2>1. CASE Put(live[i], staged[i])
    BY <1>2, <1>4, <2>1 DEF SwapIn, Put, Kept
  <2>2. CASE Goto(i, "restore") /\ UNCHANGED <<files, staged>>
    BY <1>1, <1>4, <2>2 DEF SwapIn
  <2> QED
    BY <1>4, <2>1, <2>2 DEF SwapIn
<1>5. ASSUME NEW i \in Instances, Restore(i) PROVE Kept'
  <2>1. content[Installation] = None /\ content[backup[i]] = installed
    BY <1>5 DEF Restore, OneGapOnly
  <2>2. CASE Rename(backup[i], live[i])
    BY <1>2, <1>5, <2>1, <2>2 DEF Restore, Rename, Kept
  <2>3. CASE Remove(live[i]) \/ UNCHANGED files
    <3>1. UNCHANGED <<content, installed>>
      BY <1>2, <1>5, <2>1, <2>3 DEF Restore, Remove, Put
    <3> QED
      BY <1>1, <1>5, <3>1 DEF Restore
  <2> QED
    BY <1>5, <2>2, <2>3 DEF Restore
<1>6. ASSUME NEW i \in Instances, DiscardBackup(i) PROVE Kept'
  <2>1. CASE EndAttempt(i) /\ UNCHANGED files
    BY <1>1, <1>6, <2>1
  <2>2. CASE Remove(backup[i]) /\ Goto(i, "restart") /\ UNCHANGED plan
    <3>1. /\ content' = [content EXCEPT ![backup[i]] = None] /\ installed' = installed
          /\ backup[i] \in Tokens /\ step[i] = "discard"
      BY <1>2, <1>6, <2>2 DEF DiscardBackup, Remove, Put
    <3>2. \A j \in Instances : backup'[j] = backup[j] /\ (InGap(j) => InGap(j)')
      BY <2>2, <3>1
    <3>3. CASE content[Installation] # None
      BY <3>1, <3>3 DEF Kept
    <3>4. CASE content[Installation] = None
      <4>1. PICK t \in Tokens : /\ content[t] = installed
                                /\ \A j \in Instances : backup[j] = t => InGap(j)
        BY <3>4 DEF Kept
      <4>2. content'[Installation] = None /\ content'[t] = installed'
        BY <3>1, <3>4, <4>1
      <4> QED
        BY <3>2, <4>1, <4>2 DEF Kept
    <3> QED
      BY <3>3, <3>4
  <2> QED
    BY <1>6, <2>1, <2>2 DEF DiscardBackup
<1>7. ASSUME NEW i \in Instances, StartApp(i) \/ CheckForUpdates(i) \/ DownloadUpdate(i)
      PROVE Kept'
    BY <1>1, <1>7 DEF StartApp, Start, CheckForUpdates, DownloadUpdate
<1>8. ASSUME NEW i \in Instances, InstallAndRestart(i) \/ Preflight(i) PROVE Kept'
    BY <1>1, <1>8 DEF InstallAndRestart, Idle, Preflight
<1>9. ASSUME NEW i \in Instances, Restart(i) \/ Crash(i) PROVE Kept'
    BY <1>1, <1>9 DEF Restart, Start, Crash
<1>10. ASSUME NEW i \in Instances, Stage(i) PROVE Kept'
    BY <1>1, <1>10 DEF Stage, FreshToken
<1>11. CASE UNCHANGED vars
    BY <1>1, <1>11 DEF vars
<1> QED
    BY <1>3, <1>4, <1>5, <1>6, <1>7, <1>8, <1>9, <1>10, <1>11 DEF Next

\* What the two theorems below follow from.
LEMMA SwapInvariance == Spec => []SwapInv
<1>1. IInv /\ SwapInv /\ [Next]_vars => SwapInv'
    BY StrayedLasts, OnePlaceKept, GapKept, LastVersionKept DEF SwapInv
<1> QED
    BY InitInvariant, Invariance, <1>1, PTL DEF Spec

\* Whatever fails, whoever dies, and however many instances install at once,
\* the version that was last at the path of the installation is there or at
\* a backup path, until an attempt takes a backup for the installation.
THEOREM NoVersionIsLost == Spec => []NothingLost
<1>1. SwapInv => NothingLost
    BY DEF SwapInv, Kept, NothingLost
<1> QED
    BY SwapInvariance, <1>1, PTL

\* The gap between the backup and the swap belongs to one attempt, until one
\* takes a backup for the installation.
THEOREM OneGap == Spec => []GapIsExclusive
<1>1. SwapInv => GapIsExclusive
    BY DEF SwapInv, OneGapOnly, GapIsExclusive
<1> QED
    BY SwapInvariance, <1>1, PTL

=============================================================================
