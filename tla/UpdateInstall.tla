--------------------------- MODULE UpdateInstall ---------------------------
(***************************************************************************)
(* The auto updater (crates/kael/src/auto_updater.rs) over the swap of an  *)
(* installation (crates/kael_release/src/apply.rs).                        *)
(*                                                                         *)
(* Several instances of the application may run from one installation.    *)
(* Each checks the feed, downloads and installs on its own, without a lock *)
(* between them: what keeps them apart is that a rename of a path that is  *)
(* not there fails, and that each attempt has a token of its own in the    *)
(* names of its staged copy and of its backup.  Every step of the swap may *)
(* fail, and an instance may die between any two of them.                  *)
(*                                                                         *)
(* Each attempt asks anew where the installation is.  An AppImage knows it *)
(* from the environment, and macOS answers with the path a process was     *)
(* started from.  Linux answers, without APPIMAGE, with the path at which  *)
(* the executable of the process is now: after a rename, its backup.       *)
(***************************************************************************)
EXTENDS Integers

CONSTANTS
    Instances,     \* processes of the application
    Versions,      \* the releases there are, ordered as numbers
    Tokens,        \* of attempts: a bound on the attempts whose backup stays
    Installation,  \* the path of the installation
    FixedPath,     \* instances that are told the path they were started from
    None

\* The paths an executable is started from or moved to; a token stands for
\* the backup path of its attempt.
Paths == Tokens \cup {Installation}

ASSUME UpdateInstallAssumption ==
    /\ Versions \subseteq Int
    /\ FixedPath \subseteq Instances
    /\ None \notin Versions \cup Paths
    /\ Installation \notin Tokens

VARIABLES
    content,         \* path -> the version that is there
    running,         \* instance -> the version it runs, its current_version
    exe,             \* instance -> its executable's path, as it is told
    latest_update,   \* instance -> what the feed offered it last
    downloaded_path, \* instance -> the package it downloaded
    step,            \* instance -> where it is in install_and_restart
    staged,          \* instance -> the copy its attempt swaps in
    live,            \* instance -> the path its attempt replaces
    backup,          \* instance -> the path its attempt moves that to
    installed,       \* history: the last version that was at Installation
    strayed          \* history: an attempt took another path for the installation

files == <<content, exe, installed>>
updater == <<running, latest_update, downloaded_path>>
plan == <<staged, live, backup>>
vars == <<files, updater, step, plan, strayed>>

Steps == {"idle", "stage", "preflight", "backup", "swap_in", "restore", "discard", "restart"}

\* Between these an attempt has moved the installation away.
InGap(i) == step[i] \in {"swap_in", "restore"}

TypeOK ==
    /\ content \in [Paths -> Versions \cup {None}]
    /\ running \in [Instances -> Versions \cup {None}]
    /\ exe \in [Instances -> Paths \cup {None}]
    /\ latest_update \in [Instances -> Versions \cup {None}]
    /\ downloaded_path \in [Instances -> Versions \cup {None}]
    /\ step \in [Instances -> Steps]
    /\ staged \in [Instances -> Versions \cup {None}]
    /\ live \in [Instances -> Paths \cup {None}]
    /\ backup \in [Instances -> Tokens \cup {None}]
    /\ installed \in Versions
    /\ strayed \in BOOLEAN

Nothing == [i \in Instances |-> None]

Init ==
    /\ installed \in Versions
    /\ content = [p \in Paths |-> IF p = Installation THEN installed ELSE None]
    /\ running = Nothing
    /\ exe = Nothing
    /\ latest_update = Nothing
    /\ downloaded_path = Nothing
    /\ step = [i \in Instances |-> "idle"]
    /\ staged = Nothing
    /\ live = Nothing
    /\ backup = Nothing
    /\ strayed = FALSE

-----------------------------------------------------------------------------
\* The files, and what the system tells a process of its own.

\* What is at path p becomes v, and what is at Installation is on record.
Put(p, v) ==
    /\ content' = [content EXCEPT ![p] = v]
    /\ installed' = IF p = Installation /\ v # None THEN v ELSE installed

\* The executable of instance i is at path p, and the answer says so.
Follows(i, p) == i \notin FixedPath /\ exe[i] = p

\* An executable that is removed or replaced has no path any more.
Removed(p) == exe' = [i \in Instances |-> IF Follows(i, p) THEN None ELSE exe[i]]

Remove(p) == Put(p, None) /\ Removed(p)

Rename(p, q) ==
    /\ content' = [content EXCEPT ![p] = None, ![q] = content[p]]
    /\ installed' = IF q = Installation THEN content[p] ELSE installed
    /\ exe' = [i \in Instances |-> IF Follows(i, p) THEN q
                                   ELSE IF Follows(i, q) THEN None ELSE exe[i]]

-----------------------------------------------------------------------------
Goto(i, next) == step' = [step EXCEPT ![i] = next]

Idle(i) == running[i] # None /\ step[i] = "idle"

\* Instance i is a new process, started from path p.
Start(i, p) ==
    /\ content[p] # None
    /\ running' = [running EXCEPT ![i] = content[p]]
    /\ exe' = [exe EXCEPT ![i] = p]
    /\ latest_update' = [latest_update EXCEPT ![i] = None]
    /\ downloaded_path' = [downloaded_path EXCEPT ![i] = None]
    /\ UNCHANGED <<content, installed>>

\* Somebody starts the application.
StartApp(i) ==
    /\ running[i] = None
    /\ Start(i, Installation)
    /\ UNCHANGED <<step, plan, strayed>>

\* check_for_updates: the newest of the feed, if it is newer than the version
\* that runs; the feed may be unreachable, and may withdraw a version.
CheckForUpdates(i) ==
    /\ Idle(i)
    /\ \E found \in {v \in Versions : v > running[i]} \cup {None} :
        latest_update' = [latest_update EXCEPT ![i] = found]
    /\ UNCHANGED <<files, running, downloaded_path, step, plan, strayed>>

\* download_update: the package, when it passed its verification
DownloadUpdate(i) ==
    /\ Idle(i)
    /\ latest_update[i] # None
    /\ \E package \in {latest_update[i], None} :
        downloaded_path' = [downloaded_path EXCEPT ![i] = package]
    /\ UNCHANGED <<files, running, latest_update, step, plan, strayed>>

\* Mutant of VerifyDownloadedFile: the package is not verified again.
VerifyNothing(i) == downloaded_path[i] # None /\ latest_update[i] # None

\* verify_downloaded_file: the package is the one the latest update describes
VerifyDownloadedFile(i) == latest_update[i] # None /\ downloaded_path[i] = latest_update[i]

\* install_and_restart, up to the call of the platform's installer
InstallAndRestart(i) ==
    /\ Idle(i)
    /\ VerifyDownloadedFile(i)
    /\ Goto(i, "stage")
    /\ UNCHANGED <<files, updater, plan, strayed>>

\* An attempt ends; what it leaves at its backup path stays there, and its
\* staged copy is under a token that is never used again.
EndAttempt(i) ==
    /\ staged' = [staged EXCEPT ![i] = None]
    /\ live' = [live EXCEPT ![i] = None]
    /\ backup' = [backup EXCEPT ![i] = None]
    /\ Goto(i, "idle")

\* Nothing is at the path of the token, and nobody has to do with it.
FreshToken(t) ==
    /\ content[t] = None
    /\ \A j \in Instances : t \notin {exe[j], live[j], backup[j]}

\* The installer finds out what to replace, and copies the package next to
\* it under a fresh token; an error ends the attempt.
Stage(i) ==
    /\ step[i] = "stage"
    /\ \/ /\ exe[i] # None
          /\ live' = [live EXCEPT ![i] = exe[i]]
          /\ staged' = [staged EXCEPT ![i] = downloaded_path[i]]
          /\ \E t \in Tokens :
                FreshToken(t) /\ backup' = [backup EXCEPT ![i] = t]
          /\ strayed' = (strayed \/ exe[i] # Installation)
          /\ Goto(i, "preflight")
       \/ EndAttempt(i) /\ UNCHANGED strayed
    /\ UNCHANGED <<files, updater>>

\* FsInstaller::preflight
Preflight(i) ==
    /\ step[i] = "preflight"
    /\ \/ content[live[i]] # None /\ Goto(i, "backup") /\ UNCHANGED plan
       \/ EndAttempt(i)
    /\ UNCHANGED <<files, updater, strayed>>

\* Mutant of Backup: the outcome of the rename is ignored.
BackupUnchecked(i) ==
    /\ step[i] = "backup"
    /\ Rename(live[i], backup[i])
    /\ Goto(i, "swap_in")
    /\ UNCHANGED <<updater, plan, strayed>>

\* FsInstaller::backup: the rename needs something to be there still.
Backup(i) ==
    /\ step[i] = "backup"
    /\ \/ /\ content[live[i]] # None
          /\ Rename(live[i], backup[i])
          /\ Goto(i, "swap_in")
          /\ UNCHANGED plan
       \/ EndAttempt(i) /\ UNCHANGED files
    /\ UNCHANGED <<updater, strayed>>

\* FsInstaller::swap_in
SwapIn(i) ==
    /\ step[i] = "swap_in"
    /\ \/ /\ Put(live[i], staged[i])
          /\ Removed(live[i])
          /\ staged' = [staged EXCEPT ![i] = None]
          /\ Goto(i, "discard")
       \/ Goto(i, "restore") /\ UNCHANGED <<files, staged>>
    /\ UNCHANGED <<updater, live, backup, strayed>>

\* Mutant of Restore: the backup is removed when it cannot be moved.
RestoreDiscards(i) ==
    /\ step[i] = "restore"
    /\ Rename(backup[i], live[i]) \/ Remove(backup[i])
    /\ EndAttempt(i)
    /\ UNCHANGED <<updater, strayed>>

\* FsInstaller::restore: if the backup is there, what is at the path it came
\* from is removed, and the backup renamed.  Each may fail, and the error is
\* reported.
Restore(i) ==
    /\ step[i] = "restore"
    /\ \/ content[backup[i]] # None /\ Rename(backup[i], live[i])
       \/ content[backup[i]] # None /\ Remove(live[i])
       \/ UNCHANGED files
    /\ EndAttempt(i)
    /\ UNCHANGED <<updater, strayed>>

\* FsInstaller::discard_backup; with an error the attempt ends here, and the
\* instance runs on.
DiscardBackup(i) ==
    /\ step[i] = "discard"
    /\ \/ Remove(backup[i]) /\ Goto(i, "restart") /\ UNCHANGED plan
       \/ EndAttempt(i) /\ UNCHANGED files
    /\ UNCHANGED <<updater, strayed>>

\* The new version is started from the path it was installed at and this
\* instance ends; when it cannot be started, this one runs on.
Restart(i) ==
    /\ step[i] = "restart"
    /\ Start(i, live[i]) \/ UNCHANGED <<files, updater>>
    /\ EndAttempt(i)
    /\ UNCHANGED strayed

\* The instance is closed, is killed, or dies with the machine, in any step.
Crash(i) ==
    /\ running[i] # None
    /\ running' = [running EXCEPT ![i] = None]
    /\ exe' = [exe EXCEPT ![i] = None]
    /\ latest_update' = [latest_update EXCEPT ![i] = None]
    /\ downloaded_path' = [downloaded_path EXCEPT ![i] = None]
    /\ EndAttempt(i)
    /\ UNCHANGED <<content, installed, strayed>>

Next ==
    \E i \in Instances :
        \/ StartApp(i) \/ CheckForUpdates(i) \/ DownloadUpdate(i) \/ InstallAndRestart(i)
        \/ Stage(i) \/ Preflight(i) \/ Backup(i) \/ SwapIn(i) \/ Restore(i)
        \/ DiscardBackup(i) \/ Restart(i) \/ Crash(i)

Spec == Init /\ [][Next]_vars

-----------------------------------------------------------------------------
\* The swap removes nothing it cannot replace ("atomic swap with rollback",
\* apply.rs:167): whatever fails and whoever dies, the version that was last
\* at the path of the installation is there, or at a backup path.  Once an
\* attempt took a backup for the installation, no more: it swaps in there,
\* and discards what it found.
NothingLost ==
    ~strayed => /\ content[Installation] # None => content[Installation] = installed
                /\ content[Installation] = None => \E t \in Tokens : content[t] = installed

\* Of the instances that install at the same time, one at most is between
\* the backup and the swap; nothing is at the path meanwhile, so that its
\* restore removes nothing, and its backup is what it will put back: until
\* an attempt takes the backup of another for the installation.
GapIsExclusive ==
    ~strayed => \A i \in Instances : InGap(i) =>
        /\ content[Installation] = None /\ content[backup[i]] = installed
        /\ \A j \in Instances : InGap(j) => j = i

\* What an instance swaps in is what the feed offered it last, newer than
\* the version it runs: a check made after the download forbids to install
\* the older package.
InstallsLatestUpdate ==
    \A i \in Instances : staged[i] # None =>
        staged[i] = latest_update[i] /\ staged[i] > running[i]

=============================================================================
