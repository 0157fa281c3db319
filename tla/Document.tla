------------------------------ MODULE Document ------------------------------
(***************************************************************************)
(* A document and its files: crates/kael_document/src/document.rs,         *)
(* autosave.rs and versions.rs.                                            *)
(*                                                                         *)
(* The clones of a DocumentHandle share one DocumentState.  modify, undo   *)
(* and redo hold recovery_lock and the state from the change to the end of *)
(* the recovery snapshot's update: each is one step.  save, save_as, revert*)
(* and restore_version hold file_operation_lock, so at most one of them is *)
(* under way, but not the state: edits fall between their steps.  `op' is  *)
(* the one under way and what it captured.  The process may stop at any    *)
(* step, and the files, snapshots, versions and blobs are what is left.    *)
(*                                                                         *)
(* Contents stand for their serialized bytes and for the digests of these. *)
(* An error in an operation on a file leaves the file as it was or, when   *)
(* only the sync of its directory failed, replaced (autosave.rs:276).      *)
(***************************************************************************)
EXTENDS Naturals, Sequences, VersionStore

CONSTANTS
    Blank,            \* the content of D::new_untitled
    Untitled,         \* the place of the snapshot of an untitled document
    None,
    MaxHistoryDepth,  \* max_history_depth
    MaxSaves,         \* bound: saves begun, and mishaps, together
    MaxMishaps        \* bound: operations on files that fail, and writes of others

Snapshot == [content : Contents, baseline : Contents \cup {None}]

ASSUME DocumentAssumption ==
    /\ Blank \in Contents /\ None \notin Contents /\ None \notin Paths /\ None \notin Snapshot
    /\ Untitled \notin Paths
    /\ MaxHistoryDepth \in Nat \ {0}
    /\ MaxSaves \in Nat /\ MaxMishaps \in Nat

VARIABLES
    files,            \* path -> the content on disk, or None
    snapshots,        \* place -> the recovery snapshot there, or None
    is_open,
    content, last_saved_snapshot, last_saved_digest, file_path, dirty,
    undo_stack, redo_stack,
    op,               \* the operation that holds file_operation_lock; op.fresh is
                      \* history: no other program wrote to its path meanwhile
    saves, mishaps,
    recovery_ok,      \* history: the last update of the snapshot succeeded
    foreign           \* history: paths last written by others, or by a save that failed

disk    == <<files, snapshots, versions, blobs>>
saved   == <<last_saved_snapshot, last_saved_digest, file_path>>
stacks  == <<undo_stack, redo_stack>>
memory  == <<is_open, content, saved, dirty, stacks>>
history == <<saves, mishaps, recovery_ok, foreign>>
vars == <<disk, memory, op, history>>

Places == Paths \cup {Untitled}

Saving == {"write", "blob", "metadata", "prune", "finalize"}
Phases == Saving \cup {"idle", "revert", "restore"}
Operation == [phase : Phases, path : Paths \cup {None}, content : Contents \cup {None},
              loaded : Contents \cup {None}, stale : SUBSET Contents, fresh : BOOLEAN]
Idle == [phase |-> "idle", path |-> None, content |-> None, loaded |-> None,
         stale |-> {}, fresh |-> TRUE]

TypeOK ==
    /\ VersionStoreTypeOK
    /\ files \in [Paths -> Contents \cup {None}]
    /\ snapshots \in [Places -> Snapshot \cup {None}]
    /\ is_open \in BOOLEAN /\ dirty \in BOOLEAN
    /\ content \in Contents
    /\ last_saved_snapshot \in Contents /\ last_saved_digest \in Contents \cup {None}
    /\ file_path \in Paths \cup {None}
    /\ undo_stack \in Seq(Contents) /\ redo_stack \in Seq(Contents)
    /\ op \in Operation
    /\ saves \in Nat /\ mishaps \in Nat
    /\ recovery_ok \in BOOLEAN /\ foreign \subseteq Paths

-----------------------------------------------------------------------------
(* Memory without a document; what new_document puts there.                *)
Cleared ==
    /\ content' = Blank /\ last_saved_snapshot' = Blank
    /\ last_saved_digest' = None /\ file_path' = None /\ dirty' = FALSE
    /\ undo_stack' = <<>> /\ redo_stack' = <<>>

Init ==
    /\ VersionStoreInit
    /\ files = [p \in Paths |-> None]
    /\ snapshots = [s \in Places |-> None]
    /\ is_open = FALSE
    /\ content = Blank /\ last_saved_snapshot = Blank
    /\ last_saved_digest = None /\ file_path = None /\ dirty = FALSE
    /\ undo_stack = <<>> /\ redo_stack = <<>>
    /\ op = Idle
    /\ saves = 0 /\ mishaps = 0
    /\ recovery_ok = TRUE /\ foreign = {}

Mishap ==
    /\ mishaps < MaxMishaps /\ saves + mishaps < MaxSaves
    /\ mishaps' = mishaps + 1

autosave_path == IF file_path = None THEN Untitled ELSE file_path

Kept(c, d, baseline) ==
    IF d THEN [content |-> c, baseline |-> baseline] ELSE None

\* Mutant of UpdateSnapshot: the snapshot of a clean document is left.
UpdateSnapshotWhenDirty(c, d) ==
    /\ snapshots' = IF d
                    THEN [snapshots EXCEPT ![autosave_path] = Kept(c, d, last_saved_digest)]
                    ELSE snapshots
    /\ recovery_ok' = TRUE
    /\ UNCHANGED mishaps

(* write_autosave or clear_autosave at the end of an edit, which tells of  *)
(* its failure and stands.                                                 *)
UpdateSnapshot(c, d) ==
    \/ /\ snapshots' = [snapshots EXCEPT ![autosave_path] =
                            Kept(c, d, last_saved_digest)]
       /\ recovery_ok' = TRUE
       /\ UNCHANGED mishaps
    \/ /\ Mishap
       /\ recovery_ok' = FALSE
       /\ UNCHANGED snapshots

(* The content becomes c, whatever the stacks became.                      *)
Show(c) ==
    /\ content' = c
    /\ dirty' = (last_saved_snapshot # c)
    /\ UpdateSnapshot(c, last_saved_snapshot # c)
    /\ UNCHANGED <<files, versions, blobs, is_open, saved, saves, foreign>>

\* Mutant of PushHistoryEntry: an edit leaves what could be redone.
PushKeepsRedo ==
    /\ undo_stack' = IF Len(undo_stack) < MaxHistoryDepth
                     THEN Append(undo_stack, content)
                     ELSE Append(Tail(undo_stack), content)
    /\ UNCHANGED redo_stack

PushHistoryEntry ==
    /\ undo_stack' = IF Len(undo_stack) < MaxHistoryDepth
                     THEN Append(undo_stack, content)
                     ELSE Append(Tail(undo_stack), content)
    /\ redo_stack' = <<>>

-----------------------------------------------------------------------------
NewDocument ==
    /\ ~is_open
    /\ is_open' = TRUE
    /\ Cleared
    /\ recovery_ok' = TRUE
    /\ UNCHANGED <<disk, op, saves, mishaps, foreign>>

(* read_document_bytes fails when there is no file.                        *)
Readable(p) == files[p] # None

(* Does the snapshot of p extend what p holds now?                         *)
Extends(p) ==
    /\ snapshots[p] # None
    /\ snapshots[p].baseline = files[p]
    /\ snapshots[p].content # files[p]

(* What opening p shows.                                                   *)
Recovered(p) == IF Extends(p) THEN snapshots[p].content ELSE files[p]

(* A snapshot that is not applied is removed; a failure to is not told.    *)
Open(p) ==
    /\ ~is_open /\ Readable(p)
    /\ is_open' = TRUE
    /\ content' = Recovered(p) /\ dirty' = Extends(p)
    /\ last_saved_snapshot' = files[p] /\ last_saved_digest' = files[p]
    /\ file_path' = p
    /\ undo_stack' = <<>> /\ redo_stack' = <<>>
    /\ \/ /\ snapshots' = IF Extends(p) THEN snapshots ELSE [snapshots EXCEPT ![p] = None]
          /\ recovery_ok' = TRUE
          /\ UNCHANGED mishaps
       \/ /\ ~Extends(p) /\ snapshots[p] # None
          /\ Mishap
          /\ recovery_ok' = FALSE
          /\ UNCHANGED snapshots
    /\ foreign' = foreign \ {p}
    /\ UNCHANGED <<files, versions, blobs, op, saves>>

(* The process stops, or drops its last handle.                            *)
Crash ==
    /\ is_open
    /\ is_open' = FALSE
    /\ Cleared
    /\ op' = Idle
    /\ UNCHANGED <<disk, history>>

(* Another program writes, creates or removes a file.                      *)
ExternalWrite(p) ==
    /\ Mishap
    /\ \E c \in (Contents \cup {None}) \ {files[p]} : files' = [files EXCEPT ![p] = c]
    /\ foreign' = foreign \cup {p}
    /\ op' = IF p = op.path THEN [op EXCEPT !.fresh = FALSE] ELSE op
    /\ UNCHANGED <<snapshots, versions, blobs, memory, saves, recovery_ok>>

-----------------------------------------------------------------------------
Modify ==
    /\ is_open
    /\ \E c \in Contents \ {content} : Show(c)
    /\ PushHistoryEntry
    /\ UNCHANGED op

Undo ==
    /\ is_open /\ undo_stack # <<>>
    /\ Show(undo_stack[Len(undo_stack)])
    /\ undo_stack' = SubSeq(undo_stack, 1, Len(undo_stack) - 1)
    /\ redo_stack' = Append(redo_stack, content)
    /\ UNCHANGED op

Redo ==
    /\ is_open /\ redo_stack # <<>>
    /\ Show(redo_stack[Len(redo_stack)])
    /\ redo_stack' = SubSeq(redo_stack, 1, Len(redo_stack) - 1)
    /\ undo_stack' = Append(undo_stack, content)
    /\ UNCHANGED op

-----------------------------------------------------------------------------
Done == op' = Idle

(* save and save_as capture the content; later edits are not in this save. *)
BeginSave(p) ==
    /\ is_open /\ op.phase = "idle"
    /\ saves + mishaps < MaxSaves /\ saves' = saves + 1
    /\ op' = [Idle EXCEPT !.phase = "write", !.path = p, !.content = content]
    /\ UNCHANGED <<disk, memory, mishaps, recovery_ok, foreign>>

Save == file_path # None /\ BeginSave(file_path)

SaveAs(p) == BeginSave(p)

(* write_bytes_atomically; the save is over when it returns an error.      *)
WritePrimary ==
    /\ op.phase = "write"
    /\ \/ /\ files' = [files EXCEPT ![op.path] = op.content]
          /\ foreign' = foreign \ {op.path}
          /\ op' = [op EXCEPT !.phase = "blob"]
          /\ UNCHANGED mishaps
       \/ /\ Mishap /\ Done
          /\ \/ UNCHANGED <<files, foreign>>
             \/ /\ files' = [files EXCEPT ![op.path] = op.content]
                /\ foreign' = foreign \cup {op.path}
    /\ UNCHANGED <<snapshots, versions, blobs, memory, saves, recovery_ok>>

(* The recent-document list, then the blob.  An error of this bookkeeping, *)
(* here and below, is told at the end and keeps the save.                  *)
RecordBlob ==
    /\ op.phase = "blob"
    /\ \/ /\ WriteBlob(op.path, op.content)
          /\ op' = [op EXCEPT !.phase = IF IsNewest(op.path, op.content)
                                        THEN "finalize" ELSE "metadata"]
          /\ UNCHANGED mishaps
       \/ /\ Mishap
          /\ op' = [op EXCEPT !.phase = "finalize"]
          /\ \/ UNCHANGED <<versions, blobs>>
             \/ WriteBlob(op.path, op.content)
    /\ UNCHANGED <<files, snapshots, memory, saves, recovery_ok, foreign>>

RecordVersion ==
    /\ op.phase = "metadata"
    /\ \/ /\ PersistVersions(op.path, op.content)
          /\ op' = [op EXCEPT !.phase = "prune",
                              !.stale = Stale(versions[op.path], op.content)]
          /\ UNCHANGED mishaps
       \/ /\ Mishap
          /\ op' = [op EXCEPT !.phase = "finalize"]
          /\ \/ UNCHANGED <<versions, blobs>>
             \/ PersistVersions(op.path, op.content)
    /\ UNCHANGED <<files, snapshots, memory, saves, recovery_ok, foreign>>

PruneBlobs ==
    /\ op.phase = "prune"
    /\ op' = [op EXCEPT !.phase = "finalize", !.stale = {}]
    /\ \/ RemoveStale(op.path, op.stale) /\ UNCHANGED mishaps
       \/ Mishap /\ UNCHANGED <<versions, blobs>>
    /\ UNCHANGED <<files, snapshots, memory, saves, recovery_ok, foreign>>

(* What was captured becomes the baseline, and the snapshot of what is     *)
(* newer moves to the place of the path saved to.  An error of the first   *)
(* of the two operations on snapshots skips the second.                    *)
FinalizeWith(base, is_dirty) ==
    /\ op.phase = "finalize"
    /\ file_path' = op.path
    /\ last_saved_snapshot' = base /\ last_saved_digest' = base
    /\ dirty' = is_dirty
    /\ LET moved == [snapshots EXCEPT ![op.path] = Kept(content, is_dirty, base)]
       IN \/ /\ snapshots' = IF autosave_path # op.path
                             THEN [moved EXCEPT ![autosave_path] = None]
                             ELSE moved
             /\ recovery_ok' = TRUE
             /\ UNCHANGED mishaps
          \/ /\ Mishap
             /\ \/ snapshots' = snapshots /\ recovery_ok' = FALSE
                \/ snapshots' = moved /\ recovery_ok' = TRUE
    /\ Done
    /\ UNCHANGED <<files, versions, blobs, is_open, content, stacks, saves, foreign>>

\* Mutant of Finalize: a save that ends makes the document clean.
FinalizeClean == FinalizeWith(op.content, FALSE)

\* Mutant of Finalize: the content of the end of the save is taken as saved.
FinalizeNewer == FinalizeWith(content, FALSE)

Finalize == FinalizeWith(op.content, content # op.content)

-----------------------------------------------------------------------------
(* revert and restore_version read outside of the locks of the state.      *)
BeginRevert ==
    /\ is_open /\ op.phase = "idle" /\ file_path # None
    /\ Readable(file_path)
    /\ op' = [Idle EXCEPT !.phase = "revert", !.path = file_path, !.content = content,
                          !.loaded = files[file_path]]
    /\ UNCHANGED <<disk, memory, history>>

BeginRestore ==
    /\ is_open /\ op.phase = "idle" /\ file_path # None
    /\ \E c \in Named(versions[file_path]) \cap blobs[file_path] :
           op' = [Idle EXCEPT !.phase = "restore", !.path = file_path, !.content = content,
                              !.loaded = c]
    /\ UNCHANGED <<disk, memory, history>>

(* Has the content been replaced since the operation began?  The code      *)
(* compares the addresses of the two snapshots.  A content that was edited *)
(* away and edited back is refused by the code, and may be taken here: the *)
(* values are all the properties speak of.                                 *)
Unchanged == content = op.content

CommitRevert ==
    /\ op.phase = "revert" /\ Unchanged
    /\ snapshots' = [snapshots EXCEPT ![autosave_path] = None]
    /\ content' = op.loaded
    /\ last_saved_snapshot' = op.loaded /\ last_saved_digest' = op.loaded
    /\ dirty' = FALSE
    /\ undo_stack' = <<>> /\ redo_stack' = <<>>
    /\ recovery_ok' = TRUE
    /\ foreign' = IF op.fresh THEN foreign \ {op.path} ELSE foreign
    /\ Done
    /\ UNCHANGED <<files, versions, blobs, is_open, file_path, saves, mishaps>>

CommitRestore ==
    /\ op.phase = "restore" /\ Unchanged /\ op.loaded # content
    /\ Show(op.loaded)
    /\ PushHistoryEntry
    /\ Done

(* The content changed meanwhile, the version is the one shown, what was   *)
(* read cannot be parsed, or the snapshot to clear is not removed: nothing *)
(* changes.                                                                *)
GiveUp ==
    /\ op.phase \in {"revert", "restore"}
    /\ Done
    /\ UNCHANGED <<disk, memory, history>>

FileOperation ==
    \/ Save \/ (\E p \in Paths : SaveAs(p))
    \/ WritePrimary \/ RecordBlob \/ RecordVersion \/ PruneBlobs \/ Finalize
    \/ BeginRevert \/ CommitRevert \/ BeginRestore \/ CommitRestore \/ GiveUp

Next ==
    \/ NewDocument \/ (\E p \in Paths : Open(p))
    \/ Modify \/ Undo \/ Redo
    \/ FileOperation
    \/ Crash \/ (\E p \in Paths : ExternalWrite(p))

Spec == Init /\ [][Next]_vars

-----------------------------------------------------------------------------
(* Between the replacement of the file the document is at and the end of   *)
(* the save, the file is newer than the baseline.                          *)
Window == op.phase \in Saving \ {"write"} /\ op.path = file_path

(* The file of an open document holds the last content saved, or, in the   *)
(* window, the one being saved, unless something else wrote it.            *)
FileIsSaved ==
    is_open /\ file_path # None /\ file_path \notin foreign
        => files[file_path] = IF Window THEN op.content ELSE last_saved_snapshot

(* A document is dirty exactly when it differs from what was last saved,   *)
(* edits made during a save, and restored or undone ones, included.        *)
DirtyExact == dirty <=> content # last_saved_snapshot

(* The snapshot is that of the content shown, on the baseline last saved,  *)
(* and is there only for a dirty document; that of an untitled document    *)
(* that is not dirty may be an earlier process's.                          *)
RecoveryCurrent ==
    is_open /\ recovery_ok
        => IF dirty
           THEN snapshots[autosave_path] = [content |-> content, baseline |-> last_saved_digest]
           ELSE file_path # None => snapshots[file_path] = None

(* Wherever the process stops, opening the file shows the content, or, in  *)
(* the window, at least what was being saved.                              *)
CrashKeepsContent ==
    is_open /\ file_path # None /\ file_path \notin foreign /\ recovery_ok
        => \/ Recovered(file_path) = content
           \/ Window /\ Recovered(file_path) = op.content

(* README.md:120: an edit made while a save is in flight is recoverable.   *)
NewerContentRecoverable ==
    is_open /\ file_path # None /\ dirty => Recovered(file_path) = content

(* The stacks never hold more than the limit between them.                 *)
HistoryBounded == Len(undo_stack) + Len(redo_stack) <= MaxHistoryDepth

(* What the stacks and the content are to a reader of the history.         *)
Reversed(s) == [i \in 1 .. Len(s) |-> s[Len(s) + 1 - i]]

History == INSTANCE EditHistory WITH
    timeline <- IF is_open THEN undo_stack \o <<content>> \o Reversed(redo_stack) ELSE <<>>,
    cursor   <- IF is_open THEN Len(undo_stack) + 1 ELSE 0

(* Undo and redo move over one timeline that only edits and reloads change,*)
(* and that is cut to the limit from its oldest end.                       *)
HistorySpec == History!Spec
=============================================================================
