--------------------------- MODULE DocumentProofs ---------------------------
(***************************************************************************)
(* What Document keeps for any number of paths and contents, any limits,   *)
(* and any number of failures.  The inductive invariant IInv joins to the  *)
(* properties what the operation under way knows: its shape, what the file *)
(* it works on holds, and what its version's blobs are.                    *)
(***************************************************************************)
EXTENDS Document, SequenceTheorems, TLAPS

(* The operation under way is one of the open document.                    *)
OpShape ==
    /\ op.phase # "idle" => is_open /\ op.path \in Paths /\ op.content \in Contents
    /\ op.phase \in {"revert", "restore"} => op.path = file_path /\ op.loaded \in Contents

(* The digest is the one of what was last saved.                           *)
DigestIsSaved ==
    last_saved_digest = IF file_path = None THEN None ELSE last_saved_snapshot

(* After its write, a save finds its content in the file; what a revert    *)
(* read is still there; unless something else wrote.                       *)
OpFile ==
    /\ op.phase \in Saving \ {"write"} /\ op.path \notin foreign
           => files[op.path] = op.content
    /\ op.phase = "revert"
           => IF op.fresh THEN files[op.path] = op.loaded ELSE op.path \in foreign

(* The list is written after the blob it will name, and pruning spares the *)
(* blobs it names.                                                         *)
VersionSteps ==
    /\ op.phase = "metadata" => op.content \in blobs[op.path]
    /\ op.phase = "prune" => op.stale \cap Named(versions[op.path]) = {}

IInv ==
    /\ TypeOK /\ OpShape /\ DigestIsSaved /\ OpFile /\ VersionSteps
    /\ VersionsReadable /\ DirtyExact /\ FileIsSaved /\ RecoveryCurrent
    /\ HistoryBounded

-----------------------------------------------------------------------------
\* An empty list names no version.
LEMMA NamedEmpty == Named(<<>>) = {}
<1>1. Len(<<>>) = 0 /\ DOMAIN <<>> = 1 .. 0
  OBVIOUS
<1> QED
  BY <1>1 DEF Named

\* A list names contents.
LEMMA NamedType ==
    ASSUME NEW list \in Seq(Contents)
    PROVE  Named(list) \subseteq Contents
BY DEF Named

\* An appended list names at most one version more.
LEMMA AppendNamed ==
    ASSUME NEW list \in Seq(Contents), NEW c \in Contents
    PROVE  /\ Append(list, c) \in Seq(Contents)
           /\ Named(Append(list, c)) \subseteq Named(list) \cup {c}
<1>1. /\ Append(list, c) \in Seq(Contents) /\ Len(Append(list, c)) = Len(list) + 1
      /\ \A i \in 1 .. Len(list) + 1 :
            Append(list, c)[i] = IF i = Len(list) + 1 THEN c ELSE list[i]
  OBVIOUS
<1> QED
  BY <1>1 DEF Named

\* A list without its head names no version more.
LEMMA TailNamed ==
    ASSUME NEW list \in Seq(Contents), list # <<>>
    PROVE  Tail(list) \in Seq(Contents) /\ Named(Tail(list)) \subseteq Named(list)
<1>1. /\ Tail(list) \in Seq(Contents) /\ Len(Tail(list)) = Len(list) - 1
      /\ \A i \in 1 .. Len(list) - 1 : Tail(list)[i] = list[i + 1]
  OBVIOUS
<1> QED
  BY <1>1 DEF Named

(* The list with one more version names that one, and nothing else new.    *)
LEMMA RecordedType ==
    ASSUME NEW list \in Seq(Contents), NEW c \in Contents
    PROVE  /\ Recorded(list, c) \in Seq(Contents)
           /\ Named(Recorded(list, c)) \subseteq Named(list) \cup {c}
<1>1. CASE Len(list) < MaxVersions
  BY <1>1, AppendNamed DEF Recorded
<1>2. CASE ~(Len(list) < MaxVersions)
  <2>1. list # <<>>
    BY <1>2, VersionStoreAssumption
  <2> QED
    BY <1>2, <2>1, TailNamed, AppendNamed DEF Recorded
<1> QED
  BY <1>1, <1>2

\* No operation under way is an operation.
LEMMA IdleType == Idle \in Operation
BY DocumentAssumption DEF Idle, Operation, Phases

\* The types hold at first.
LEMMA InitTypes == Init => TypeOK
<1> SUFFICES ASSUME Init PROVE TypeOK
  OBVIOUS
<1>1. VersionStoreTypeOK
  BY DEF Init, VersionStoreInit, VersionStoreTypeOK
<1>2. files \in [Paths -> Contents \cup {None}]
  BY DEF Init
<1>3. snapshots \in [Places -> Snapshot \cup {None}]
  BY DEF Init
<1>4. /\ content \in Contents /\ last_saved_snapshot \in Contents
      /\ last_saved_digest \in Contents \cup {None} /\ file_path \in Paths \cup {None}
  BY DocumentAssumption DEF Init
<1>5. is_open \in BOOLEAN /\ dirty \in BOOLEAN /\ recovery_ok \in BOOLEAN
  BY Zenon DEF Init
<1>6. undo_stack \in Seq(Contents) /\ redo_stack \in Seq(Contents)
  BY DEF Init
<1>7. saves \in Nat /\ mishaps \in Nat /\ foreign \subseteq Paths
  BY DEF Init
<1>8. op \in Operation
  BY IdleType DEF Init
<1> QED
  BY <1>1, <1>2, <1>3, <1>4, <1>5, <1>6, <1>7, <1>8 DEF TypeOK

\* The invariant holds at first.
LEMMA InitInv == Init => IInv
<1> SUFFICES ASSUME Init PROVE IInv
  OBVIOUS
<1>1. TypeOK
  BY InitTypes
<1>2. op.phase = "idle"
  BY DEF Init, Idle
<1>3. OpShape /\ OpFile /\ VersionSteps
  BY <1>2 DEF OpShape, OpFile, VersionSteps, Saving
<1>4. VersionsReadable
  BY NamedEmpty DEF Init, VersionStoreInit, VersionsReadable
<1>5. Len(undo_stack) = 0 /\ Len(redo_stack) = 0
  BY DEF Init
<1>6. HistoryBounded
  BY <1>5, DocumentAssumption DEF HistoryBounded
<1>7. DigestIsSaved /\ DirtyExact /\ FileIsSaved /\ RecoveryCurrent
  BY DEF Init, DigestIsSaved, DirtyExact, FileIsSaved, RecoveryCurrent
<1> QED
  BY <1>1, <1>3, <1>4, <1>6, <1>7 DEF IInv

(* The edits, whatever they do to the stacks.                              *)
Edits == \E c \in Contents : Show(c) /\ op' \in {op, Idle}

\* The cases of a step the proofs go through.
LEMMA StepCases ==
    ASSUME TypeOK, OpShape, [Next]_vars
    PROVE  \/ NewDocument \/ (\E p \in Paths : Open(p))
           \/ Modify \/ Undo \/ Redo \/ CommitRestore
           \/ (\E p \in Paths : BeginSave(p))
           \/ WritePrimary \/ RecordBlob \/ RecordVersion \/ PruneBlobs \/ Finalize
           \/ BeginRevert \/ CommitRevert \/ BeginRestore \/ GiveUp
           \/ Crash \/ (\E p \in Paths : ExternalWrite(p)) \/ UNCHANGED vars
<1>1. CASE Save
  BY <1>1 DEF Save, TypeOK
<1>2. CASE \E p \in Paths : SaveAs(p)
  BY <1>2 DEF SaveAs
<1> QED
  BY <1>1, <1>2 DEF Next, FileOperation

\* Modify, undo, redo and a restored version are edits.
LEMMA EditCases ==
    ASSUME TypeOK, OpShape, Modify \/ Undo \/ Redo \/ CommitRestore
    PROVE  Edits
<1>1. CASE Modify
  BY <1>1 DEF Modify, Edits
<1>2. CASE Undo
  <2>1. undo_stack \in Seq(Contents) /\ undo_stack # <<>>
    BY <1>2 DEF Undo, TypeOK
  <2>2. undo_stack[Len(undo_stack)] \in Contents
    BY <2>1
  <2> QED
    BY <1>2, <2>2 DEF Undo, Edits
<1>3. CASE Redo
  <2>1. redo_stack \in Seq(Contents) /\ redo_stack # <<>>
    BY <1>3 DEF Redo, TypeOK
  <2>2. redo_stack[Len(redo_stack)] \in Contents
    BY <2>1
  <2> QED
    BY <1>3, <2>2 DEF Redo, Edits
<1>4. CASE CommitRestore
  BY <1>4 DEF CommitRestore, Edits, OpShape, Done
<1> QED
  BY <1>1, <1>2, <1>3, <1>4

-----------------------------------------------------------------------------
(* Types.                                                                  *)

\* The snapshot of the document has a place.
LEMMA PlaceType == ASSUME TypeOK PROVE autosave_path \in Places
BY DEF TypeOK, autosave_path, Places

\* The types an edit keeps, but for the stacks.
LEMMA EditTypes ==
    ASSUME TypeOK, Edits
    PROVE  /\ files' = files /\ versions' = versions /\ blobs' = blobs
           /\ snapshots' \in [Places -> Snapshot \cup {None}]
           /\ content' \in Contents /\ dirty' \in BOOLEAN
           /\ recovery_ok' \in BOOLEAN /\ mishaps' \in Nat
           /\ op' \in Operation
           /\ UNCHANGED <<is_open, saved, saves, foreign>>
<1> USE PlaceType
<1>1. PICK c \in Contents : Show(c) /\ op' \in {op, Idle}
  BY DEF Edits
<1>2. Kept(c, last_saved_snapshot # c, last_saved_digest) \in Snapshot \cup {None}
  BY DEF Kept, Snapshot, TypeOK
<1>3. snapshots' \in [Places -> Snapshot \cup {None}]
  BY <1>1, <1>2 DEF Show, UpdateSnapshot, TypeOK
<1>4. recovery_ok' \in BOOLEAN
  BY <1>1, Zenon DEF Show, UpdateSnapshot
<1>5. mishaps' \in Nat
  BY <1>1 DEF Show, UpdateSnapshot, Mishap, TypeOK
<1>6. op' \in Operation
  BY <1>1, IdleType DEF TypeOK
<1>7. dirty' \in BOOLEAN
  BY <1>1, Zenon DEF Show
<1> QED
  BY <1>1, <1>3, <1>4, <1>5, <1>6, <1>7 DEF Show

\* The stacks keep their types in an edit.
LEMMA StackTypes ==
    ASSUME TypeOK, Modify \/ Undo \/ Redo \/ CommitRestore
    PROVE  undo_stack' \in Seq(Contents) /\ redo_stack' \in Seq(Contents)
<1> USE DEF TypeOK
<1>1. ASSUME PushHistoryEntry
      PROVE  undo_stack' \in Seq(Contents) /\ redo_stack' \in Seq(Contents)
  <2>1. CASE Len(undo_stack) < MaxHistoryDepth
    BY <1>1, <2>1 DEF PushHistoryEntry
  <2>2. CASE ~(Len(undo_stack) < MaxHistoryDepth)
    <3>1. undo_stack # <<>>
      BY <2>2, DocumentAssumption
    <3>2. Tail(undo_stack) \in Seq(Contents)
      BY <3>1
    <3> QED
      BY <1>1, <2>2, <3>2 DEF PushHistoryEntry
  <2> QED
    BY <2>1, <2>2
<1>2. CASE Undo
  <2>1. /\ undo_stack' = SubSeq(undo_stack, 1, Len(undo_stack) - 1)
        /\ redo_stack' = Append(redo_stack, content)
        /\ undo_stack # <<>>
    BY <1>2 DEF Undo
  <2> QED
    BY <2>1
<1>3. CASE Redo
  <2>1. /\ redo_stack' = SubSeq(redo_stack, 1, Len(redo_stack) - 1)
        /\ undo_stack' = Append(undo_stack, content)
        /\ redo_stack # <<>>
    BY <1>3 DEF Redo
  <2> QED
    BY <2>1
<1> QED
  BY <1>1, <1>2, <1>3 DEF Modify, CommitRestore

(* The steps that change the versions: their types, and that every version *)
(* keeps its blob.                                                         *)
LEMMA VersionTypes ==
    ASSUME TypeOK, OpShape, WritePrimary \/ RecordBlob \/ RecordVersion \/ PruneBlobs
    PROVE  VersionStoreTypeOK'
<1> USE DEF VersionStoreTypeOK, Operation
<1>1. op.phase # "idle" /\ op.path \in Paths /\ op.content \in Contents
  BY DEF OpShape, WritePrimary, RecordBlob, RecordVersion, PruneBlobs
<1>2. CASE UNCHANGED <<versions, blobs>>
  BY <1>2 DEF TypeOK
<1>3. CASE WriteBlob(op.path, op.content)
  BY <1>1, <1>3 DEF WriteBlob, TypeOK
<1>4. CASE PersistVersions(op.path, op.content)
  <2>1. versions[op.path] \in Seq(Contents)
    BY <1>1 DEF TypeOK
  <2>2. Recorded(versions[op.path], op.content) \in Seq(Contents)
    BY <1>1, <2>1, RecordedType
  <2> QED
    BY <1>1, <1>4, <2>2 DEF PersistVersions, TypeOK
<1>5. CASE RemoveStale(op.path, op.stale)
  BY <1>1, <1>5 DEF RemoveStale, TypeOK
<1> QED
  BY <1>2, <1>3, <1>4, <1>5 DEF WritePrimary, RecordBlob, RecordVersion, PruneBlobs

\* The blobs a save prunes are contents.
LEMMA StaleType ==
    ASSUME TypeOK, op.path \in Paths
    PROVE  Stale(versions[op.path], op.content) \subseteq Contents
BY NamedType DEF Stale, TypeOK, VersionStoreTypeOK

\* The steps of a save, up to its end, keep the types.
LEMMA FileOpTypes ==
    ASSUME TypeOK, OpShape, WritePrimary \/ RecordBlob \/ RecordVersion \/ PruneBlobs
    PROVE  TypeOK'
<1>1. op.phase # "idle" /\ op.path \in Paths /\ op.content \in Contents
  BY DEF OpShape, WritePrimary, RecordBlob, RecordVersion, PruneBlobs
<1>2. VersionStoreTypeOK'
  BY VersionTypes
<1>3. op' \in Operation
  <2>1. CASE WritePrimary
    BY <2>1, IdleType DEF WritePrimary, Done, TypeOK, Operation, Phases, Saving
  <2>2. CASE RecordBlob
    BY <2>2 DEF RecordBlob, TypeOK, Operation, Phases, Saving
  <2>3. CASE RecordVersion
    BY <2>3, <1>1, StaleType DEF RecordVersion, TypeOK, Operation, Phases, Saving
  <2>4. CASE PruneBlobs
    BY <2>4 DEF PruneBlobs, TypeOK, Operation, Phases, Saving
  <2> QED
    BY <2>1, <2>2, <2>3, <2>4
<1>4. files' \in [Paths -> Contents \cup {None}] /\ foreign' \subseteq Paths
  BY <1>1 DEF WritePrimary, RecordBlob, RecordVersion, PruneBlobs, TypeOK
<1>5. mishaps' \in Nat
  BY DEF WritePrimary, RecordBlob, RecordVersion, PruneBlobs, TypeOK, Mishap
<1>6. UNCHANGED <<snapshots, memory, saves, recovery_ok>>
  BY DEF WritePrimary, RecordBlob, RecordVersion, PruneBlobs
<1> QED
  BY <1>2, <1>3, <1>4, <1>5, <1>6 DEF TypeOK, memory, saved, stacks

\* The end of a save keeps the types.
LEMMA FinalizeTypes ==
    ASSUME TypeOK, OpShape, Finalize
    PROVE  TypeOK'
<1>1. op.path \in Paths /\ op.content \in Contents
  BY DEF OpShape, Finalize, FinalizeWith
<1> DEFINE kept == Kept(content, content # op.content, op.content)
           moved == [snapshots EXCEPT ![op.path] = kept]
<1>2. kept \in Snapshot \cup {None}
  BY <1>1 DEF Kept, Snapshot, TypeOK
<1>3. moved \in [Places -> Snapshot \cup {None}]
  BY <1>1, <1>2 DEF TypeOK
<1>4. snapshots' \in {snapshots, moved, [moved EXCEPT ![autosave_path] = None]}
  BY DEF Finalize, FinalizeWith
<1>5. snapshots' \in [Places -> Snapshot \cup {None}]
  <2> HIDE DEF moved
  <2> QED
    BY <1>3, <1>4, PlaceType DEF TypeOK
<1>6. dirty' \in BOOLEAN /\ recovery_ok' \in BOOLEAN
  BY Zenon DEF Finalize, FinalizeWith
<1>7. mishaps' \in Nat
  BY DEF Finalize, FinalizeWith, Mishap, TypeOK
<1>8. op' \in Operation
  BY IdleType DEF Finalize, FinalizeWith, Done
<1>9. /\ last_saved_snapshot' \in Contents /\ last_saved_digest' \in Contents \cup {None}
      /\ file_path' \in Paths \cup {None}
  BY <1>1 DEF Finalize, FinalizeWith
<1>10. UNCHANGED <<files, versions, blobs, is_open, content, stacks, saves, foreign>>
  BY DEF Finalize, FinalizeWith
<1> QED
  BY <1>5, <1>6, <1>7, <1>8, <1>9, <1>10 DEF TypeOK, VersionStoreTypeOK, stacks

\* The begin of an operation, and giving it up, keep the types.
LEMMA BeginTypes ==
    ASSUME TypeOK, OpShape,
           (\E p \in Paths : BeginSave(p)) \/ BeginRevert \/ BeginRestore \/ GiveUp
    PROVE  TypeOK'
<1>1. op' \in Operation
  <2>1. CASE \E p \in Paths : BeginSave(p)
    BY <2>1, IdleType DEF BeginSave, TypeOK, Operation, Phases, Saving
  <2>2. CASE BeginRevert
    BY <2>2, IdleType DEF BeginRevert, Readable, TypeOK, Operation, Phases
  <2>3. CASE BeginRestore
    <3>1. PICK c \in Named(versions[file_path]) :
              op' = [Idle EXCEPT !.phase = "restore", !.path = file_path,
                                 !.content = content, !.loaded = c]
      BY <2>3 DEF BeginRestore
    <3>2. c \in Contents
      BY <2>3, <3>1, NamedType DEF BeginRestore, TypeOK, VersionStoreTypeOK
    <3> QED
      BY <3>1, <3>2, IdleType DEF TypeOK, Operation, Phases
  <2>4. CASE GiveUp
    BY <2>4, IdleType DEF GiveUp, Done
  <2> QED
    BY <2>1, <2>2, <2>3, <2>4
<1>2. saves' \in Nat
  <2>1. CASE \E p \in Paths : BeginSave(p)
    <3>1. saves' = saves + 1
      BY <2>1 DEF BeginSave
    <3> QED
      BY <3>1 DEF TypeOK
  <2>2. CASE BeginRevert \/ BeginRestore \/ GiveUp
    <3>1. saves' = saves
      BY <2>2 DEF BeginRevert, BeginRestore, GiveUp, history
    <3> QED
      BY <3>1 DEF TypeOK
  <2> QED
    BY <2>1, <2>2
<1>3. UNCHANGED <<disk, memory, mishaps, recovery_ok, foreign>>
  BY DEF BeginSave, BeginRevert, BeginRestore, GiveUp, history
<1> QED
  BY <1>1, <1>2, <1>3 DEF TypeOK, VersionStoreTypeOK, disk, memory, saved, stacks

\* Opening a document keeps the types.
LEMMA OpenTypes ==
    ASSUME TypeOK, NEW p \in Paths, Open(p)
    PROVE  TypeOK'
<1>1. files[p] \in Contents
  BY DEF Open, Readable, TypeOK
<1>2. Recovered(p) \in Contents
  <2>1. CASE Extends(p)
    <3>1. snapshots[p] \in Snapshot
      BY <2>1 DEF Extends, TypeOK, Places
    <3> QED
      BY <3>1, <2>1 DEF Recovered, Snapshot
  <2> QED
    BY <2>1, <1>1 DEF Recovered
<1>3. snapshots' \in [Places -> Snapshot \cup {None}]
  BY DEF Open, TypeOK, Places
<1>4. is_open' \in BOOLEAN /\ dirty' \in BOOLEAN /\ recovery_ok' \in BOOLEAN
  BY Zenon DEF Open, Extends
<1>5. mishaps' \in Nat
  BY DEF Open, Mishap, TypeOK
<1>6. undo_stack' \in Seq(Contents) /\ redo_stack' \in Seq(Contents)
  BY DEF Open
<1>7. /\ content' \in Contents /\ last_saved_snapshot' \in Contents
      /\ last_saved_digest' \in Contents \cup {None} /\ file_path' \in Paths \cup {None}
      /\ foreign' \subseteq Paths
  BY <1>1, <1>2 DEF Open, TypeOK
<1>8. UNCHANGED <<files, versions, blobs, op, saves>>
  BY DEF Open
<1> QED
  BY <1>3, <1>4, <1>5, <1>6, <1>7, <1>8 DEF TypeOK, VersionStoreTypeOK

\* A cleared document has its types.
LEMMA ClearedTypes ==
    ASSUME Cleared
    PROVE  /\ content' \in Contents /\ last_saved_snapshot' \in Contents
           /\ last_saved_digest' \in Contents \cup {None} /\ file_path' \in Paths \cup {None}
           /\ dirty' \in BOOLEAN
           /\ undo_stack' \in Seq(Contents) /\ redo_stack' \in Seq(Contents)
<1>1. dirty' \in BOOLEAN
  BY Zenon DEF Cleared
<1>2. undo_stack' \in Seq(Contents) /\ redo_stack' \in Seq(Contents)
  BY DEF Cleared
<1> QED
  BY <1>1, <1>2, DocumentAssumption DEF Cleared

\* The other steps keep the types.
LEMMA OtherTypes ==
    ASSUME TypeOK, OpShape,
           NewDocument \/ CommitRevert \/ Crash \/ (\E p \in Paths : ExternalWrite(p))
    PROVE  TypeOK'
<1>1. CASE NewDocument
  BY <1>1, ClearedTypes DEF NewDocument, TypeOK, VersionStoreTypeOK, disk
<1>2. CASE Crash
  BY <1>2, ClearedTypes, IdleType DEF Crash, TypeOK, VersionStoreTypeOK, disk, history
<1>3. CASE CommitRevert
  <2>1. op.loaded \in Contents
    BY <1>3 DEF CommitRevert, OpShape
  <2>2. snapshots' \in [Places -> Snapshot \cup {None}]
    BY <1>3, PlaceType DEF CommitRevert, TypeOK
  <2>3. op' \in Operation
    BY <1>3, IdleType DEF CommitRevert, Done
  <2>4. undo_stack' \in Seq(Contents) /\ redo_stack' \in Seq(Contents)
    BY <1>3 DEF CommitRevert
  <2>5. foreign' \subseteq Paths
    BY <1>3 DEF CommitRevert, TypeOK
  <2> QED
    BY <1>3, <2>1, <2>2, <2>3, <2>4, <2>5 DEF CommitRevert, TypeOK, VersionStoreTypeOK
<1>4. CASE \E p \in Paths : ExternalWrite(p)
  <2>1. PICK p \in Paths : ExternalWrite(p)
    BY <1>4
  <2>2. files' \in [Paths -> Contents \cup {None}]
    BY <2>1 DEF ExternalWrite, TypeOK
  <2>3. op' \in Operation
    BY <2>1 DEF ExternalWrite, TypeOK, Operation
  <2>4. mishaps' \in Nat /\ foreign' \subseteq Paths
    BY <2>1 DEF ExternalWrite, Mishap, TypeOK
  <2>5. UNCHANGED <<snapshots, versions, blobs, memory, saves, recovery_ok>>
    BY <2>1 DEF ExternalWrite
  <2> QED
    BY <2>2, <2>3, <2>4, <2>5 DEF TypeOK, VersionStoreTypeOK, memory, saved, stacks
<1> QED
  BY <1>1, <1>2, <1>3, <1>4

\* Every step keeps the types.
LEMMA TypeStep ==
    ASSUME TypeOK, OpShape, [Next]_vars
    PROVE  TypeOK'
<1>1. CASE Modify \/ Undo \/ Redo \/ CommitRestore
  <2>1. Edits
    BY <1>1, EditCases
  <2> QED
    BY <1>1, <2>1, EditTypes, StackTypes DEF TypeOK, VersionStoreTypeOK, saved
<1>2. CASE WritePrimary \/ RecordBlob \/ RecordVersion \/ PruneBlobs
  BY <1>2, FileOpTypes
<1>3. CASE Finalize
  BY <1>3, FinalizeTypes
<1>4. CASE (\E p \in Paths : BeginSave(p)) \/ BeginRevert \/ BeginRestore \/ GiveUp
  BY <1>4, BeginTypes
<1>5. CASE \E p \in Paths : Open(p)
  BY <1>5, OpenTypes
<1>6. CASE NewDocument \/ CommitRevert \/ Crash \/ (\E p \in Paths : ExternalWrite(p))
  BY <1>6, OtherTypes
<1>7. CASE UNCHANGED vars
  BY <1>7 DEF vars, disk, memory, saved, stacks, history, TypeOK, VersionStoreTypeOK
<1> QED
  BY <1>1, <1>2, <1>3, <1>4, <1>5, <1>6, <1>7, StepCases

-----------------------------------------------------------------------------
(* The operation under way.                                                *)

\* Every step keeps the shape of the operation under way.
LEMMA ShapeStep ==
    ASSUME TypeOK, OpShape, [Next]_vars
    PROVE  OpShape'
<1> USE DEF OpShape
<1>1. CASE Modify \/ Undo \/ Redo \/ CommitRestore
  <2>1. PICK c \in Contents : Show(c) /\ op' \in {op, Idle}
    BY <1>1, EditCases DEF Edits
  <2>2. is_open' = is_open /\ file_path' = file_path
    BY <2>1 DEF Show, saved
  <2> QED
    BY <2>1, <2>2 DEF Idle
<1>2. CASE WritePrimary \/ RecordBlob \/ RecordVersion \/ PruneBlobs
  <2>1. \/ /\ op'.path = op.path /\ op'.content = op.content
           /\ op'.phase \in Saving
        \/ op' = Idle
    BY <1>2 DEF WritePrimary, RecordBlob, RecordVersion, PruneBlobs, Done, Saving,
                TypeOK, Operation
  <2>2. is_open' = is_open /\ op.phase # "idle"
    BY <1>2 DEF WritePrimary, RecordBlob, RecordVersion, PruneBlobs, memory
  <2> QED
    BY <2>1, <2>2 DEF Saving, Idle
<1>3. CASE Finalize \/ CommitRevert \/ GiveUp \/ Crash
  BY <1>3 DEF Finalize, FinalizeWith, CommitRevert, GiveUp, Crash, Done, Idle
<1>4. CASE \E p \in Paths : BeginSave(p)
  BY <1>4 DEF BeginSave, Idle, memory, TypeOK
<1>5. CASE BeginRevert
  BY <1>5 DEF BeginRevert, Readable, Idle, memory, saved, TypeOK
<1>6. CASE BeginRestore
  <2>1. PICK c \in Named(versions[file_path]) :
            op' = [Idle EXCEPT !.phase = "restore", !.path = file_path,
                               !.content = content, !.loaded = c]
    BY <1>6 DEF BeginRestore
  <2>2. c \in Contents
    BY <1>6, <2>1, NamedType DEF BeginRestore, TypeOK, VersionStoreTypeOK
  <2>3. is_open' /\ file_path' = file_path /\ file_path \in Paths
    BY <1>6 DEF BeginRestore, memory, saved, TypeOK
  <2> QED
    BY <2>1, <2>2, <2>3 DEF Idle, TypeOK
<1>7. CASE NewDocument \/ (\E p \in Paths : Open(p))
  BY <1>7 DEF NewDocument, Open
<1>8. CASE \E p \in Paths : ExternalWrite(p)
  BY <1>8 DEF ExternalWrite, memory, saved, TypeOK, Operation
<1>9. CASE UNCHANGED vars
  BY <1>9 DEF vars, memory, saved
<1> QED
  BY <1>1, <1>2, <1>3, <1>4, <1>5, <1>6, <1>7, <1>8, <1>9, StepCases

\* Every step keeps the digest that of what was last saved.
LEMMA DigestStep ==
    ASSUME TypeOK, OpShape, DigestIsSaved, [Next]_vars
    PROVE  DigestIsSaved'
<1> USE DEF DigestIsSaved
<1>1. CASE Modify \/ Undo \/ Redo \/ CommitRestore
  BY <1>1, EditCases DEF Edits, Show, saved
<1>2. CASE WritePrimary \/ RecordBlob \/ RecordVersion \/ PruneBlobs
  BY <1>2 DEF WritePrimary, RecordBlob, RecordVersion, PruneBlobs, memory, saved
<1>3. CASE Finalize
  BY <1>3, DocumentAssumption DEF Finalize, FinalizeWith, OpShape
<1>4. CASE CommitRevert
  BY <1>4, DocumentAssumption DEF CommitRevert, OpShape
<1>5. CASE GiveUp \/ (\E p \in Paths : BeginSave(p)) \/ BeginRevert \/ BeginRestore
           \/ (\E p \in Paths : ExternalWrite(p))
  BY <1>5 DEF GiveUp, BeginSave, BeginRevert, BeginRestore, ExternalWrite, memory, saved
<1>6. CASE NewDocument \/ Crash
  BY <1>6 DEF NewDocument, Crash, Cleared
<1>7. CASE \E p \in Paths : Open(p)
  BY <1>7, DocumentAssumption DEF Open
<1>8. CASE UNCHANGED vars
  BY <1>8 DEF vars, memory, saved
<1> QED
  BY <1>1, <1>2, <1>3, <1>4, <1>5, <1>6, <1>7, <1>8, StepCases

\* Every step keeps what the operation under way knows of its file.
LEMMA OpFileStep ==
    ASSUME TypeOK, OpShape, OpFile, [Next]_vars
    PROVE  OpFile'
<1> USE DEF OpFile
<1>1. CASE Modify \/ Undo \/ Redo \/ CommitRestore
  <2>1. PICK c \in Contents : Show(c) /\ op' \in {op, Idle}
    BY <1>1, EditCases DEF Edits
  <2>2. files' = files /\ foreign' = foreign
    BY <2>1 DEF Show
  <2>3. CASE op' = op
    BY <2>2, <2>3
  <2>4. CASE op' = Idle
    BY <2>4 DEF Idle, Saving
  <2> QED
    BY <2>1, <2>3, <2>4
<1>2. CASE WritePrimary
  <2>1. CASE op' = Idle
    BY <2>1 DEF Idle, Saving
  <2>2. CASE op' # Idle
    <3>1. /\ files' = [files EXCEPT ![op.path] = op.content]
          /\ op' = [op EXCEPT !.phase = "blob"]
      BY <1>2, <2>2 DEF WritePrimary, Done
    <3>2. op.path \in Paths
      BY <1>2 DEF WritePrimary, OpShape
    <3> QED
      BY <3>1, <3>2 DEF TypeOK, Operation
  <2> QED
    BY <2>1, <2>2
<1>3. CASE RecordBlob \/ RecordVersion \/ PruneBlobs
  <2>1. /\ op'.path = op.path /\ op'.content = op.content
        /\ op'.phase \in Saving /\ op.phase \in Saving \ {"write"}
    BY <1>3 DEF RecordBlob, RecordVersion, PruneBlobs, Saving, TypeOK, Operation
  <2>2. files' = files /\ foreign' = foreign
    BY <1>3 DEF RecordBlob, RecordVersion, PruneBlobs
  <2> QED
    BY <2>1, <2>2 DEF Saving
<1>4. CASE Finalize \/ CommitRevert \/ GiveUp \/ Crash
  BY <1>4 DEF Finalize, FinalizeWith, CommitRevert, GiveUp, Crash, Done, Idle, Saving
<1>5. CASE (\E p \in Paths : BeginSave(p)) \/ BeginRestore
  BY <1>5 DEF BeginSave, BeginRestore, Idle, Saving
<1>6. CASE BeginRevert
  BY <1>6 DEF BeginRevert, Idle, Saving, disk
<1>7. CASE NewDocument \/ (\E p \in Paths : Open(p))
  <2>1. op' = op /\ op.phase = "idle"
    BY <1>7 DEF NewDocument, Open, OpShape
  <2> QED
    BY <2>1 DEF Saving
<1>8. CASE \E p \in Paths : ExternalWrite(p)
  <2>1. PICK p \in Paths : ExternalWrite(p)
    BY <1>8
  <2>2. PICK c : files' = [files EXCEPT ![p] = c]
    BY <2>1 DEF ExternalWrite
  <2>3. foreign' = foreign \cup {p}
    BY <2>1 DEF ExternalWrite
  <2>4. CASE p = op.path
    <3>1. /\ op'.phase = op.phase /\ op'.path = op.path /\ op'.fresh = FALSE
      BY <2>1, <2>4 DEF ExternalWrite, TypeOK, Operation
    <3> QED
      BY <2>3, <2>4, <3>1
  <2>5. CASE p # op.path
    <3>1. op' = op
      BY <2>1, <2>5 DEF ExternalWrite
    <3>2. op.phase # "idle" => files'[op.path] = files[op.path]
      BY <2>2, <2>5 DEF OpShape, TypeOK
    <3> QED
      BY <2>3, <2>5, <3>1, <3>2 DEF Saving
  <2> QED
    BY <2>4, <2>5
<1>9. CASE UNCHANGED vars
  BY <1>9 DEF vars, disk, history
<1> QED
  BY <1>1, <1>2, <1>3, <1>4, <1>5, <1>6, <1>7, <1>8, <1>9, StepCases

-----------------------------------------------------------------------------
(* Versions.                                                               *)

\* A step that leaves the version store alone keeps what is true of it.
LEMMA QuietVersions ==
    ASSUME VersionSteps, VersionsReadable, UNCHANGED <<versions, blobs>>,
           \/ op' = op
           \/ op'.phase \notin {"metadata", "prune"}
    PROVE  VersionSteps' /\ VersionsReadable'
BY DEF VersionSteps, VersionsReadable, Named

\* A blob more harms no version.
LEMMA BlobStep ==
    ASSUME TypeOK, OpShape, VersionsReadable, RecordBlob
    PROVE  VersionSteps' /\ VersionsReadable'
<1>1. op.path \in Paths /\ op.content \in Contents
  BY DEF OpShape, RecordBlob
<1>2. /\ op'.path = op.path /\ op'.content = op.content
      /\ op'.phase \in {"metadata", "finalize"}
  BY DEF RecordBlob, TypeOK, Operation
<1>3. versions' = versions /\ \A p \in Paths : blobs[p] \subseteq blobs'[p]
  BY <1>1 DEF RecordBlob, WriteBlob, TypeOK, VersionStoreTypeOK
<1>4. op'.phase = "metadata" => op.content \in blobs'[op.path]
  BY <1>1, <1>2 DEF RecordBlob, WriteBlob, TypeOK, VersionStoreTypeOK, Operation
<1> QED
  BY <1>1, <1>2, <1>3, <1>4 DEF VersionSteps, VersionsReadable

\* The list written after its blob names only readable versions.
LEMMA RecordStep ==
    ASSUME TypeOK, OpShape, VersionSteps, VersionsReadable, RecordVersion
    PROVE  VersionSteps' /\ VersionsReadable'
<1> DEFINE list == versions[op.path]
           next == Recorded(list, op.content)
<1>1. op.path \in Paths /\ op.content \in Contents /\ op.content \in blobs[op.path]
  BY DEF OpShape, RecordVersion, VersionSteps
<1>2. list \in Seq(Contents)
  BY <1>1 DEF TypeOK, VersionStoreTypeOK
<1>3. Named(next) \subseteq Named(list) \cup {op.content}
  BY <1>1, <1>2, RecordedType
<1>4. Named(next) \subseteq blobs[op.path]
  BY <1>1, <1>3 DEF VersionsReadable
<1>5. \/ versions' = versions /\ op'.phase = "finalize"
      \/ /\ versions' = [versions EXCEPT ![op.path] = next]
         /\ \/ op'.phase = "finalize"
            \/ op'.path = op.path /\ op'.stale = Stale(list, op.content) /\ op'.phase = "prune"
  BY DEF RecordVersion, PersistVersions, TypeOK, Operation
<1>6. blobs' = blobs
  BY DEF RecordVersion, PersistVersions
<1>7. VersionsReadable'
  <2>1. CASE versions' = versions
    BY <2>1, <1>6 DEF VersionsReadable
  <2>2. CASE versions' = [versions EXCEPT ![op.path] = next]
    <3>1. \A p \in Paths : versions'[p] = IF p = op.path THEN next ELSE versions[p]
      BY <2>2 DEF TypeOK, VersionStoreTypeOK
    <3> QED
      BY <3>1, <1>4, <1>6 DEF VersionsReadable
  <2> QED
    BY <2>1, <2>2, <1>5
<1>8. VersionSteps'
  <2>1. CASE op'.phase = "finalize"
    BY <2>1 DEF VersionSteps
  <2>2. CASE op'.phase # "finalize"
    <3>1. /\ versions' = [versions EXCEPT ![op.path] = next]
          /\ op'.path = op.path /\ op'.stale = Stale(list, op.content) /\ op'.phase = "prune"
      BY <2>2, <1>5
    <3>2. versions'[op'.path] = next
      BY <3>1, <1>1 DEF TypeOK, VersionStoreTypeOK
    <3>3. Stale(list, op.content) \cap Named(next) = {}
      BY DEF Stale
    <3> QED
      BY <3>1, <3>2, <3>3 DEF VersionSteps
  <2> QED
    BY <2>1, <2>2
<1> QED
  BY <1>7, <1>8

\* Pruning spares the blobs the list names.
LEMMA PruneStep ==
    ASSUME TypeOK, OpShape, VersionSteps, VersionsReadable, PruneBlobs
    PROVE  VersionSteps' /\ VersionsReadable'
<1>1. op.path \in Paths /\ op.stale \cap Named(versions[op.path]) = {}
  BY DEF OpShape, PruneBlobs, VersionSteps
<1>2. op'.phase = "finalize"
  BY DEF PruneBlobs, TypeOK, Operation
<1>3. versions' = versions
  BY DEF PruneBlobs, RemoveStale
<1>4. \A p \in Paths : (blobs'[p] = blobs[p]) \/ (p = op.path /\ blobs'[p] = (blobs[p] \ op.stale))
  BY <1>1 DEF PruneBlobs, RemoveStale, TypeOK, VersionStoreTypeOK
<1>5. VersionsReadable'
  <2> SUFFICES ASSUME NEW p \in Paths PROVE Named(versions[p]) \subseteq blobs'[p]
    BY <1>3 DEF VersionsReadable
  <2>1. Named(versions[p]) \subseteq blobs[p]
    BY DEF VersionsReadable
  <2> QED
    BY <1>1, <1>4, <2>1
<1> QED
  BY <1>2, <1>5 DEF VersionSteps

\* Every step keeps the versions of the list readable.
LEMMA VersionStep ==
    ASSUME TypeOK, OpShape, VersionSteps, VersionsReadable, [Next]_vars
    PROVE  VersionSteps' /\ VersionsReadable'
<1>1. CASE Modify \/ Undo \/ Redo \/ CommitRestore
  <2>1. PICK c \in Contents : Show(c) /\ op' \in {op, Idle}
    BY <1>1, EditCases DEF Edits
  <2> QED
    BY <2>1, QuietVersions DEF Show, Idle
<1>2. CASE RecordBlob \/ RecordVersion \/ PruneBlobs
  BY <1>2, BlobStep, RecordStep, PruneStep
<1>3. CASE WritePrimary
  <2>1. op'.phase \in {"blob", "idle"} /\ UNCHANGED <<versions, blobs>>
    BY <1>3 DEF WritePrimary, Done, Idle, TypeOK, Operation
  <2> QED
    BY <2>1, QuietVersions
<1>4. CASE Finalize \/ CommitRevert \/ GiveUp \/ Crash
  <2>1. op'.phase = "idle" /\ UNCHANGED <<versions, blobs>>
    BY <1>4 DEF Finalize, FinalizeWith, CommitRevert, GiveUp, Crash, Done, Idle, disk
  <2> QED
    BY <2>1, QuietVersions
<1>5. CASE (\E p \in Paths : BeginSave(p)) \/ BeginRestore \/ BeginRevert
  <2>1. op'.phase \in {"write", "restore", "revert"} /\ UNCHANGED <<versions, blobs>>
    BY <1>5 DEF BeginSave, BeginRestore, BeginRevert, Idle, disk
  <2> QED
    BY <2>1, QuietVersions
<1>6. CASE NewDocument \/ (\E p \in Paths : Open(p))
  BY <1>6, QuietVersions DEF NewDocument, Open, disk
<1>7. CASE \E p \in Paths : ExternalWrite(p)
  <2>1. /\ op'.phase = op.phase /\ op'.path = op.path /\ op'.content = op.content
        /\ op'.stale = op.stale
    BY <1>7 DEF ExternalWrite, TypeOK, Operation
  <2>2. UNCHANGED <<versions, blobs>>
    BY <1>7 DEF ExternalWrite
  <2> QED
    BY <2>1, <2>2 DEF VersionSteps, VersionsReadable
<1>8. CASE UNCHANGED vars
  BY <1>8, QuietVersions DEF vars, disk
<1> QED
  BY <1>1, <1>2, <1>3, <1>4, <1>5, <1>6, <1>7, <1>8, StepCases

-----------------------------------------------------------------------------
(* The state shown against what was saved, the file and the snapshot.      *)

\* Every step keeps the dirty flag exact.
LEMMA DirtyStep ==
    ASSUME TypeOK, OpShape, DirtyExact, [Next]_vars
    PROVE  DirtyExact'
<1> USE DEF DirtyExact
<1>1. CASE Modify \/ Undo \/ Redo \/ CommitRestore
  BY <1>1, EditCases, Zenon DEF Edits, Show, saved
<1>2. CASE Finalize
  BY <1>2, Zenon DEF Finalize, FinalizeWith
<1>3. CASE CommitRevert
  BY <1>3 DEF CommitRevert
<1>4. CASE WritePrimary \/ RecordBlob \/ RecordVersion \/ PruneBlobs \/ GiveUp
           \/ (\E p \in Paths : BeginSave(p)) \/ BeginRevert \/ BeginRestore
           \/ (\E p \in Paths : ExternalWrite(p))
  BY <1>4 DEF WritePrimary, RecordBlob, RecordVersion, PruneBlobs, GiveUp, BeginSave,
              BeginRevert, BeginRestore, ExternalWrite, memory, saved
<1>5. CASE NewDocument \/ Crash
  BY <1>5 DEF NewDocument, Crash, Cleared
<1>6. CASE \E p \in Paths : Open(p)
  <2>1. PICK p \in Paths : Open(p)
    BY <1>6
  <2>2. Extends(p) <=> Recovered(p) # files[p]
    BY DEF Extends, Recovered
  <2>3. /\ content' = Recovered(p) /\ last_saved_snapshot' = files[p]
        /\ dirty' = Extends(p)
    BY <2>1, Zenon DEF Open
  <2> QED
    BY <2>2, <2>3
<1>7. CASE UNCHANGED vars
  BY <1>7 DEF vars, memory, saved
<1> QED
  BY <1>1, <1>2, <1>3, <1>4, <1>5, <1>6, <1>7, StepCases

\* Every step keeps the file of a clean document what it shows.
LEMMA FileStep ==
    ASSUME TypeOK, OpShape, OpFile, FileIsSaved, [Next]_vars
    PROVE  FileIsSaved'
<1> USE DEF FileIsSaved, Window
<1>1. CASE Modify \/ Undo \/ Redo \/ CommitRestore
  <2>1. PICK c \in Contents : Show(c) /\ op' \in {op, Idle}
    BY <1>1, EditCases DEF Edits
  <2>2. UNCHANGED <<files, foreign, is_open, file_path, last_saved_snapshot>>
    BY <2>1 DEF Show, saved
  <2>3. op' # op => op.phase = "restore"
    BY <1>1 DEF Modify, Undo, Redo, CommitRestore
  <2> QED
    BY <2>1, <2>2, <2>3 DEF Idle, Saving
<1>2. CASE WritePrimary
  <2>1. op.path \in Paths /\ op.phase = "write"
    BY <1>2 DEF WritePrimary, OpShape
  <2>2. UNCHANGED <<is_open, file_path, last_saved_snapshot>>
    BY <1>2 DEF WritePrimary, memory, saved
  <2>3. CASE op' = Idle
    BY <1>2, <2>1, <2>2, <2>3 DEF WritePrimary, Idle, Saving, TypeOK
  <2>4. CASE op' # Idle
    <3>1. /\ files' = [files EXCEPT ![op.path] = op.content]
          /\ foreign' = foreign \ {op.path}
          /\ op' = [op EXCEPT !.phase = "blob"]
      BY <1>2, <2>4 DEF WritePrimary, Done
    <3>2. op'.path = op.path /\ op'.content = op.content /\ op'.phase = "blob"
      BY <3>1 DEF TypeOK, Operation
    <3> QED
      BY <2>1, <2>2, <3>1, <3>2 DEF Saving, TypeOK
  <2> QED
    BY <2>3, <2>4
<1>3. CASE RecordBlob \/ RecordVersion \/ PruneBlobs
  <2>1. /\ op'.path = op.path /\ op'.content = op.content
        /\ op'.phase \in Saving \ {"write"} /\ op.phase \in Saving \ {"write"}
    BY <1>3 DEF RecordBlob, RecordVersion, PruneBlobs, Saving, TypeOK, Operation
  <2>2. UNCHANGED <<files, foreign, is_open, file_path, last_saved_snapshot>>
    BY <1>3 DEF RecordBlob, RecordVersion, PruneBlobs, memory, saved
  <2> QED
    BY <2>1, <2>2
<1>4. CASE Finalize
  BY <1>4 DEF Finalize, FinalizeWith, Done, Idle, Saving, OpFile
<1>5. CASE CommitRevert
  BY <1>5 DEF CommitRevert, Done, Idle, Saving, OpFile, OpShape
<1>6. CASE GiveUp
  BY <1>6 DEF GiveUp, Done, Idle, Saving, disk, memory, saved, history
<1>7. CASE (\E p \in Paths : BeginSave(p)) \/ BeginRevert \/ BeginRestore
  <2>1. op.phase = "idle" /\ op'.phase \in {"write", "revert", "restore"}
    BY <1>7 DEF BeginSave, BeginRevert, BeginRestore, Idle
  <2>2. UNCHANGED <<files, foreign, is_open, file_path, last_saved_snapshot>>
    BY <1>7 DEF BeginSave, BeginRevert, BeginRestore, disk, memory, saved, history
  <2> QED
    BY <2>1, <2>2 DEF Saving
<1>8. CASE NewDocument \/ Crash
  BY <1>8 DEF NewDocument, Crash, Cleared
<1>9. CASE \E p \in Paths : Open(p)
  <2>1. op' = op /\ op.phase = "idle"
    BY <1>9 DEF Open, OpShape
  <2> QED
    BY <1>9, <2>1 DEF Open, Saving
<1>10. CASE \E p \in Paths : ExternalWrite(p)
  <2>1. PICK p \in Paths : ExternalWrite(p)
    BY <1>10
  <2>2. PICK c : files' = [files EXCEPT ![p] = c]
    BY <2>1 DEF ExternalWrite
  <2>3. foreign' = foreign \cup {p} /\ UNCHANGED <<is_open, file_path, last_saved_snapshot>>
    BY <2>1 DEF ExternalWrite, memory, saved
  <2>4. op'.phase = op.phase /\ op'.path = op.path /\ op'.content = op.content
    BY <2>1 DEF ExternalWrite, TypeOK, Operation
  <2> QED
    BY <2>2, <2>3, <2>4 DEF TypeOK
<1>11. CASE UNCHANGED vars
  BY <1>11 DEF vars, disk, memory, saved, history
<1> QED
  BY <1>1, <1>2, <1>3, <1>4, <1>5, <1>6, <1>7, <1>8, <1>9, <1>10, <1>11, StepCases

\* Every step keeps the snapshot what the edits left.
LEMMA RecoveryStep ==
    ASSUME TypeOK, OpShape, DirtyExact, RecoveryCurrent, [Next]_vars
    PROVE  RecoveryCurrent'
<1>1. CASE Modify \/ Undo \/ Redo \/ CommitRestore
  <2>1. PICK c \in Contents : Show(c)
    BY <1>1, EditCases DEF Edits
  <2>2. /\ autosave_path' = autosave_path /\ file_path' = file_path
        /\ last_saved_digest' = last_saved_digest /\ content' = c
    BY <2>1 DEF Show, saved, autosave_path
  <2>3. CASE ~recovery_ok'
    BY <2>3 DEF RecoveryCurrent
  <2>4. CASE recovery_ok'
    <3>1. snapshots' = [snapshots EXCEPT ![autosave_path] =
                            Kept(c, last_saved_snapshot # c, last_saved_digest)]
      BY <2>1, <2>4 DEF Show, UpdateSnapshot
    <3>2. snapshots'[autosave_path] = Kept(c, last_saved_snapshot # c, last_saved_digest)
      BY <3>1, PlaceType DEF TypeOK
    <3>3. dirty' <=> last_saved_snapshot # c
      BY <2>1, Zenon DEF Show
    <3>4. CASE last_saved_snapshot # c
      BY <2>2, <3>2, <3>3, <3>4 DEF RecoveryCurrent, Kept
    <3>5. CASE last_saved_snapshot = c
      BY <2>2, <3>2, <3>3, <3>5 DEF RecoveryCurrent, Kept, autosave_path
    <3> QED
      BY <3>4, <3>5
  <2> QED
    BY <2>3, <2>4
<1>2. CASE Finalize
  <2>1. op.path \in Paths /\ op.content \in Contents
    BY <1>2 DEF Finalize, FinalizeWith, OpShape
  <2> DEFINE kept == Kept(content, content # op.content, op.content)
             moved == [snapshots EXCEPT ![op.path] = kept]
  <2>2. /\ moved[op.path] = kept
        /\ autosave_path # op.path => [moved EXCEPT ![autosave_path] = None][op.path] = kept
    BY <2>1 DEF TypeOK, Places
  <2>3. CASE ~recovery_ok'
    BY <2>3 DEF RecoveryCurrent
  <2>4. CASE recovery_ok'
    <3>1. \/ snapshots' = moved
          \/ autosave_path # op.path /\ snapshots' = [moved EXCEPT ![autosave_path] = None]
      BY <1>2, <2>4 DEF Finalize, FinalizeWith
    <3>2. snapshots'[op.path] = kept
      BY <3>1, <2>2
    <3>3. /\ file_path' = op.path /\ content' = content /\ last_saved_digest' = op.content
          /\ (dirty' <=> content # op.content)
      BY <1>2, Zenon DEF Finalize, FinalizeWith
    <3>4. autosave_path' = op.path
      BY <2>1, <3>3, DocumentAssumption DEF autosave_path
    <3>5. CASE content # op.content
      BY <3>2, <3>3, <3>4, <3>5 DEF RecoveryCurrent, Kept
    <3>6. CASE content = op.content
      BY <3>2, <3>3, <3>4, <3>6 DEF RecoveryCurrent, Kept
    <3> QED
      BY <3>5, <3>6
  <2> QED
    BY <2>3, <2>4
<1>3. CASE CommitRevert
  BY <1>3, PlaceType DEF CommitRevert, RecoveryCurrent, TypeOK, autosave_path
<1>4. CASE WritePrimary \/ RecordBlob \/ RecordVersion \/ PruneBlobs \/ GiveUp
           \/ (\E p \in Paths : BeginSave(p)) \/ BeginRevert \/ BeginRestore
           \/ (\E p \in Paths : ExternalWrite(p)) \/ UNCHANGED vars
  <2>1. UNCHANGED <<snapshots, memory, recovery_ok>>
    BY <1>4 DEF WritePrimary, RecordBlob, RecordVersion, PruneBlobs, GiveUp, BeginSave,
                BeginRevert, BeginRestore, ExternalWrite, vars, disk, history
  <2> QED
    BY <2>1 DEF RecoveryCurrent, memory, saved, autosave_path
<1>5. CASE NewDocument \/ Crash
  BY <1>5 DEF NewDocument, Crash, Cleared, RecoveryCurrent
<1>6. CASE \E p \in Paths : Open(p)
  <2>1. PICK p \in Paths : Open(p)
    BY <1>6
  <2>2. /\ autosave_path' = p /\ file_path' = p
        /\ content' = Recovered(p) /\ last_saved_digest' = files[p]
    BY <2>1, DocumentAssumption DEF Open, autosave_path
  <2>3. dirty' <=> Extends(p)
    BY <2>1, Zenon DEF Open
  <2>4. CASE Extends(p)
    <3>1. snapshots' = snapshots
      BY <2>1, <2>4 DEF Open
    <3>2. snapshots[p] \in Snapshot /\ snapshots[p].baseline = files[p]
      BY <2>4 DEF Extends, TypeOK, Places
    <3>3. snapshots[p] = [content |-> Recovered(p), baseline |-> files[p]]
      BY <3>2, <2>4 DEF Snapshot, Recovered
    <3> QED
      BY <2>2, <2>3, <2>4, <3>1, <3>3 DEF RecoveryCurrent
  <2>5. CASE ~Extends(p)
    <3>1. recovery_ok' => snapshots' = [snapshots EXCEPT ![p] = None]
      BY <2>1, <2>5 DEF Open
    <3>2. recovery_ok' => snapshots'[p] = None
      BY <3>1 DEF TypeOK, Places
    <3> QED
      BY <2>2, <2>3, <2>5, <3>2 DEF RecoveryCurrent
  <2> QED
    BY <2>4, <2>5
<1> QED
  BY <1>1, <1>2, <1>3, <1>4, <1>5, <1>6, StepCases

-----------------------------------------------------------------------------
(* The history.                                                            *)

\* A sequence without its last element.
LEMMA DropLast ==
    ASSUME NEW s \in Seq(Contents), Len(s) > 0
    PROVE  /\ SubSeq(s, 1, Len(s) - 1) \in Seq(Contents)
           /\ Len(SubSeq(s, 1, Len(s) - 1)) = Len(s) - 1
           /\ \A i \in 1 .. Len(s) - 1 : SubSeq(s, 1, Len(s) - 1)[i] = s[i]
<1> DEFINE n == Len(s) - 1
<1>1. n \in Int /\ 1 \in Int /\ \A i \in 1 .. n : s[i] \in Contents
  OBVIOUS
<1>2. /\ SubSeq(s, 1, n) \in Seq(Contents)
      /\ Len(SubSeq(s, 1, n)) = IF 1 <= n THEN n - 1 + 1 ELSE 0
      /\ \A i \in 1 .. n - 1 + 1 : SubSeq(s, 1, n)[i] = s[1 + i - 1]
  <2> HIDE DEF n
  <2> QED
    BY <1>1, SubSeqProperties
<1>3. Len(s) \in Nat /\ n - 1 + 1 = n /\ \A i \in 1 .. n : 1 + i - 1 = i
  OBVIOUS
<1> QED
  BY <1>2, <1>3

\* Every step keeps the stacks within their limit.
LEMMA BoundStep ==
    ASSUME TypeOK, OpShape, HistoryBounded, [Next]_vars
    PROVE  HistoryBounded'
<1> USE DEF HistoryBounded
<1>1. undo_stack \in Seq(Contents) /\ redo_stack \in Seq(Contents) /\ content \in Contents
  BY DEF TypeOK
<1>2. ASSUME PushHistoryEntry
      PROVE  HistoryBounded'
  <2>1. Len(redo_stack') = 0
    BY <1>2 DEF PushHistoryEntry
  <2>2. CASE Len(undo_stack) < MaxHistoryDepth
    <3>1. Len(undo_stack') = Len(undo_stack) + 1
      BY <1>1, <1>2, <2>2 DEF PushHistoryEntry
    <3> QED
      BY <1>1, <2>1, <2>2, <3>1, DocumentAssumption
  <2>3. CASE ~(Len(undo_stack) < MaxHistoryDepth)
    <3>1. undo_stack # <<>>
      BY <2>3, DocumentAssumption
    <3>2. Tail(undo_stack) \in Seq(Contents) /\ Len(Tail(undo_stack)) = Len(undo_stack) - 1
      BY <1>1, <3>1
    <3>3. undo_stack' = Append(Tail(undo_stack), content)
      BY <1>2, <2>3 DEF PushHistoryEntry
    <3>4. Len(undo_stack') = Len(undo_stack)
      BY <1>1, <3>2, <3>3
    <3> QED
      BY <1>1, <2>1, <3>4, DocumentAssumption
  <2> QED
    BY <2>2, <2>3
<1>3. CASE Modify \/ CommitRestore
  BY <1>2, <1>3 DEF Modify, CommitRestore
<1>4. CASE Undo
  <2>1. /\ Len(undo_stack) > 0
        /\ undo_stack' = SubSeq(undo_stack, 1, Len(undo_stack) - 1)
        /\ redo_stack' = Append(redo_stack, content)
    BY <1>1, <1>4 DEF Undo
  <2>2. Len(undo_stack') = Len(undo_stack) - 1
    BY <1>1, <2>1, DropLast
  <2>3. Len(redo_stack') = Len(redo_stack) + 1
    BY <1>1, <2>1
  <2> QED
    BY <1>1, <2>2, <2>3
<1>5. CASE Redo
  <2>1. /\ Len(redo_stack) > 0
        /\ redo_stack' = SubSeq(redo_stack, 1, Len(redo_stack) - 1)
        /\ undo_stack' = Append(undo_stack, content)
    BY <1>1, <1>5 DEF Redo
  <2>2. Len(redo_stack') = Len(redo_stack) - 1
    BY <1>1, <2>1, DropLast
  <2>3. Len(undo_stack') = Len(undo_stack) + 1
    BY <1>1, <2>1
  <2> QED
    BY <1>1, <2>2, <2>3
<1>6. CASE NewDocument \/ Crash \/ CommitRevert \/ (\E p \in Paths : Open(p))
  <2>1. undo_stack' = <<>> /\ redo_stack' = <<>>
    BY <1>6 DEF NewDocument, Crash, Cleared, CommitRevert, Open
  <2>2. Len(undo_stack') = 0 /\ Len(redo_stack') = 0
    BY <2>1
  <2> QED
    BY <2>2, DocumentAssumption
<1>7. CASE WritePrimary \/ RecordBlob \/ RecordVersion \/ PruneBlobs \/ GiveUp \/ Finalize
           \/ (\E p \in Paths : BeginSave(p)) \/ BeginRevert \/ BeginRestore
           \/ (\E p \in Paths : ExternalWrite(p)) \/ UNCHANGED vars
  <2>1. UNCHANGED stacks
    BY <1>7 DEF WritePrimary, RecordBlob, RecordVersion, PruneBlobs, GiveUp, BeginSave, Finalize,
                FinalizeWith, BeginRevert, BeginRestore, ExternalWrite, vars, memory
  <2> QED
    BY <2>1 DEF stacks
<1> QED
  BY <1>3, <1>4, <1>5, <1>6, <1>7, StepCases

-----------------------------------------------------------------------------
\* Every step keeps the invariant.
LEMMA InvStep == IInv /\ [Next]_vars => IInv'
BY TypeStep, ShapeStep, DigestStep, OpFileStep, VersionStep, DirtyStep, FileStep,
   RecoveryStep, BoundStep DEF IInv

\* The invariant holds in every behaviour; the theorems follow from it.
LEMMA Invariance == Spec => []IInv
<1>1. Init => IInv
  BY InitInv
<1>2. IInv /\ [Next]_vars => IInv'
  BY InvStep
<1> QED
  BY <1>1, <1>2, PTL DEF Spec

(* The variables of a document and of its files keep their types.          *)
THEOREM DocumentTypes == Spec => []TypeOK
<1>1. IInv => TypeOK
  BY DEF IInv
<1> QED
  BY <1>1, Invariance, PTL

(* However edits, saves, reverts and restores interleave and fail, is_dirty*)
(* tells whether the content is the one last saved.                        *)
THEOREM DirtyIsExact == Spec => []DirtyExact
<1>1. IInv => DirtyExact
  BY DEF IInv
<1> QED
  BY <1>1, Invariance, PTL

(* A file that only this program wrote holds what was last saved, or what  *)
(* the save under way has just written.                                    *)
THEOREM SavedIsOnDisk == Spec => []FileIsSaved
<1>1. IInv => FileIsSaved
  BY DEF IInv
<1> QED
  BY <1>1, Invariance, PTL

(* The recovery snapshot follows every edit, undo, save and move.          *)
THEOREM SnapshotIsCurrent == Spec => []RecoveryCurrent
<1>1. IInv => RecoveryCurrent
  BY DEF IInv
<1> QED
  BY <1>1, Invariance, PTL

(* No crash, and no failure of a write, leaves a version without its blob. *)
THEOREM VersionsStayReadable == Spec => []VersionsReadable
<1>1. IInv => VersionsReadable
  BY DEF IInv
<1> QED
  BY <1>1, Invariance, PTL

(* Undo and redo never hold more than the limit between them.              *)
THEOREM HistoryIsBounded == Spec => []HistoryBounded
<1>1. IInv => HistoryBounded
  BY DEF IInv
<1> QED
  BY <1>1, Invariance, PTL

(* A process that stops anywhere but between the write and the end of a    *)
(* save loses nothing, and there loses at most what is newer than the save.*)
LEMMA CrashKeeps == IInv => CrashKeepsContent
<1> SUFFICES ASSUME IInv, is_open, file_path # None, file_path \notin foreign, recovery_ok
             PROVE  \/ Recovered(file_path) = content
                    \/ Window /\ Recovered(file_path) = op.content
  BY DEF CrashKeepsContent
<1>1. /\ TypeOK /\ DirtyExact /\ DigestIsSaved /\ FileIsSaved /\ RecoveryCurrent
  BY DEF IInv
<1>2. files[file_path] = IF Window THEN op.content ELSE last_saved_snapshot
  BY <1>1 DEF FileIsSaved
<1>3. last_saved_digest = last_saved_snapshot /\ autosave_path = file_path
  BY <1>1 DEF DigestIsSaved, autosave_path
<1>4. CASE dirty
  <2>1. snapshots[file_path] = [content |-> content, baseline |-> last_saved_snapshot]
    BY <1>1, <1>3, <1>4 DEF RecoveryCurrent
  <2>2. snapshots[file_path] # None
    BY <1>1, <2>1, DocumentAssumption DEF TypeOK, Snapshot
  <2>3. Recovered(file_path) \in {content, files[file_path]}
    BY <2>1 DEF Recovered, Extends
  <2>4. CASE Window
    BY <1>2, <2>3, <2>4
  <2>5. CASE ~Window
    <3>1. content # files[file_path] /\ snapshots[file_path].baseline = files[file_path]
      BY <1>1, <1>2, <1>4, <2>1, <2>5 DEF DirtyExact
    <3> QED
      BY <2>1, <2>2, <3>1 DEF Recovered, Extends
  <2> QED
    BY <2>4, <2>5
<1>5. CASE ~dirty
  <2>1. snapshots[file_path] = None
    BY <1>1, <1>5 DEF RecoveryCurrent
  <2>2. Recovered(file_path) = files[file_path]
    BY <2>1 DEF Recovered, Extends
  <2>3. content = last_saved_snapshot
    BY <1>1, <1>5 DEF DirtyExact
  <2> QED
    BY <1>2, <2>2, <2>3
<1> QED
  BY <1>4, <1>5

(* CrashKeeps, of every reachable state.                                   *)
THEOREM CrashesKeepContent == Spec => []CrashKeepsContent
BY CrashKeeps, Invariance, PTL

-----------------------------------------------------------------------------
(* Document implements EditHistory: whatever saves, reverts, restores and  *)
(* failures fall between them, edits, undo and redo move over one timeline.*)
(* The two stacks and the content between them are the timeline; the       *)
(* lemmas below say what is at each place of it before and after a step.   *)

Timeline(u, c, r) == u \o <<c>> \o Reversed(r)

At(u, c, r, i) ==
    IF i <= Len(u) THEN u[i]
    ELSE IF i = Len(u) + 1 THEN c
    ELSE r[Len(r) + 1 - (i - Len(u) - 1)]

\* A reversed sequence, place by place.
LEMMA ReversedType ==
    ASSUME NEW r \in Seq(Contents)
    PROVE  /\ Reversed(r) \in Seq(Contents)
           /\ Len(Reversed(r)) = Len(r)
           /\ \A i \in 1 .. Len(r) : Reversed(r)[i] = r[Len(r) + 1 - i]
<1>1. Len(r) \in Nat /\ \A i \in 1 .. Len(r) : r[Len(r) + 1 - i] \in Contents
  OBVIOUS
<1>2. Reversed(r) \in [1 .. Len(r) -> Contents]
  BY <1>1 DEF Reversed
<1> QED
  BY <1>1, <1>2 DEF Reversed

\* What is at each place of the timeline of two stacks and a content.
LEMMA TimelineAt ==
    ASSUME NEW u \in Seq(Contents), NEW c \in Contents, NEW r \in Seq(Contents)
    PROVE  /\ Timeline(u, c, r) \in Seq(Contents)
           /\ Len(Timeline(u, c, r)) = Len(u) + 1 + Len(r)
           /\ \A i \in 1 .. Len(u) + 1 + Len(r) : Timeline(u, c, r)[i] = At(u, c, r, i)
<1>1. /\ <<c>> \in Seq(Contents) /\ Len(<<c>>) = 1 /\ <<c>>[1] = c
      /\ Len(u) \in Nat /\ Len(r) \in Nat
  OBVIOUS
<1> DEFINE v == u \o <<c>>
           w == Reversed(r)
<1>2. /\ v \in Seq(Contents) /\ Len(v) = Len(u) + 1
      /\ \A i \in 1 .. Len(u) + 1 : v[i] = IF i <= Len(u) THEN u[i] ELSE <<c>>[i - Len(u)]
  BY <1>1, ConcatProperties
<1>3. \A i \in 1 .. Len(u) + 1 : v[i] = IF i <= Len(u) THEN u[i] ELSE c
  <2> SUFFICES ASSUME NEW i \in 1 .. Len(u) + 1, ~(i <= Len(u)) PROVE <<c>>[i - Len(u)] = c
    BY <1>2
  <2>1. i - Len(u) = 1
    BY <1>1
  <2> QED
    BY <1>1, <2>1
<1>4. w \in Seq(Contents) /\ Len(w) = Len(r) /\ \A i \in 1 .. Len(r) : w[i] = r[Len(r) + 1 - i]
  BY ReversedType
<1> HIDE DEF v, w
<1>5. /\ v \o w \in Seq(Contents) /\ Len(v \o w) = Len(v) + Len(w)
      /\ \A i \in 1 .. Len(v) + Len(w) :
            (v \o w)[i] = IF i <= Len(v) THEN v[i] ELSE w[i - Len(v)]
  <2>1. v \in Seq(Contents) /\ w \in Seq(Contents)
    BY <1>2, <1>4
  <2> QED
    BY <2>1, ConcatProperties, Zenon
<1>6. Timeline(u, c, r) = v \o w
  BY DEF Timeline, v, w
<1>7. ASSUME NEW i \in 1 .. Len(u) + 1 + Len(r)
      PROVE  (v \o w)[i] = At(u, c, r, i)
  <2>1. CASE i <= Len(u) + 1
    BY <1>1, <1>2, <1>3, <1>4, <1>5, <2>1 DEF At
  <2>2. CASE ~(i <= Len(u) + 1)
    <3>1. i - Len(v) \in 1 .. Len(r) /\ i - Len(v) = i - Len(u) - 1
      BY <1>1, <1>2, <2>2
    <3>2. (v \o w)[i] = w[i - Len(v)]
      BY <1>1, <1>2, <1>4, <1>5, <2>2
    <3>3. w[i - Len(v)] = r[Len(r) + 1 - (i - Len(u) - 1)]
      BY <1>4, <3>1
    <3> QED
      BY <1>1, <2>2, <3>2, <3>3 DEF At
  <2> QED
    BY <2>1, <2>2
<1> QED
  BY <1>1, <1>2, <1>4, <1>5, <1>6, <1>7

(* A timeline that was just loaded.                                        *)
LEMMA LoadedTimeline ==
    ASSUME NEW c \in Contents
    PROVE  Timeline(<<>>, c, <<>>) = <<c>>
<1>1. <<>> \in Seq(Contents) /\ Len(<<>>) = 0 /\ <<c>> \in Seq(Contents) /\ Len(<<c>>) = 1
  OBVIOUS
<1>2. /\ Timeline(<<>>, c, <<>>) \in Seq(Contents) /\ Len(Timeline(<<>>, c, <<>>)) = 1
      /\ \A i \in 1 .. 1 : Timeline(<<>>, c, <<>>)[i] = c
  <2> DEFINE e == <<>>
  <2>1. e \in Seq(Contents) /\ Len(e) = 0
    OBVIOUS
  <2> HIDE DEF e
  <2>2. /\ Timeline(e, c, e) \in Seq(Contents) /\ Len(Timeline(e, c, e)) = Len(e) + 1 + Len(e)
        /\ \A i \in 1 .. Len(e) + 1 + Len(e) : Timeline(e, c, e)[i] = At(e, c, e, i)
    BY <2>1, TimelineAt, Zenon
  <2>3. At(e, c, e, 1) = c
    BY <2>1 DEF At
  <2>4. /\ Timeline(e, c, e) \in Seq(Contents) /\ Len(Timeline(e, c, e)) = 1
        /\ \A i \in 1 .. 1 : Timeline(e, c, e)[i] = c
    BY <2>1, <2>2, <2>3
  <2> QED
    BY <2>4 DEF e
<1>3. \A i \in 1 .. 1 : <<c>>[i] = c
  OBVIOUS
<1> DEFINE t == Timeline(<<>>, c, <<>>)
           o == <<c>>
<1>4. /\ t \in Seq(Contents) /\ o \in Seq(Contents) /\ Len(t) = Len(o)
      /\ \A i \in 1 .. Len(t) : t[i] = o[i]
  BY <1>1, <1>2, <1>3
<1>5. t = o
  <2> HIDE DEF t, o
  <2> QED
    BY <1>4, SeqEqual
<1> QED
  BY <1>5

(* One content moved from one stack to the other.                          *)
LEMMA MovedTimeline ==
    ASSUME NEW u \in Seq(Contents), NEW c \in Contents, NEW r \in Seq(Contents),
           Len(u) > 0
    PROVE  Timeline(SubSeq(u, 1, Len(u) - 1), u[Len(u)], Append(r, c)) = Timeline(u, c, r)
<1> DEFINE v == SubSeq(u, 1, Len(u) - 1)
           d == u[Len(u)]
           s == Append(r, c)
<1>1. /\ v \in Seq(Contents) /\ Len(v) = Len(u) - 1
      /\ \A i \in 1 .. Len(u) - 1 : v[i] = u[i]
  BY DropLast
<1>2. /\ s \in Seq(Contents) /\ Len(s) = Len(r) + 1
      /\ \A i \in 1 .. Len(r) + 1 : s[i] = IF i = Len(r) + 1 THEN c ELSE r[i]
  OBVIOUS
<1>3. d \in Contents /\ Len(u) \in Nat /\ Len(r) \in Nat
  OBVIOUS
<1> HIDE DEF v, s
<1>4. /\ Timeline(v, d, s) \in Seq(Contents)
      /\ Len(Timeline(v, d, s)) = Len(u) + 1 + Len(r)
      /\ \A i \in 1 .. Len(u) + 1 + Len(r) : Timeline(v, d, s)[i] = At(v, d, s, i)
  <2> HIDE DEF d
  <2>1. Len(v) + 1 + Len(s) = Len(u) + 1 + Len(r)
    BY <1>1, <1>2, <1>3
  <2>2. v \in Seq(Contents) /\ d \in Contents /\ s \in Seq(Contents)
    BY <1>1, <1>2, <1>3 DEF d
  <2>3. /\ Timeline(v, d, s) \in Seq(Contents)
        /\ Len(Timeline(v, d, s)) = Len(v) + 1 + Len(s)
        /\ \A i \in 1 .. Len(v) + 1 + Len(s) : Timeline(v, d, s)[i] = At(v, d, s, i)
    BY <2>2, TimelineAt, Zenon
  <2> QED
    BY <2>1, <2>3
<1>5. ASSUME NEW i \in 1 .. Len(u) + 1 + Len(r)
      PROVE  At(v, d, s, i) = At(u, c, r, i)
  <2>1. CASE i < Len(u)
    BY <1>1, <1>3, <2>1 DEF At
  <2>2. CASE i = Len(u)
    BY <1>1, <1>3, <2>2 DEF At
  <2>3. CASE i = Len(u) + 1
    <3>1. At(v, d, s, i) = s[Len(s) + 1 - (i - Len(v) - 1)]
      BY <1>1, <1>3, <2>3 DEF At
    <3>2. Len(s) + 1 - (i - Len(v) - 1) = Len(r) + 1
      BY <1>1, <1>2, <1>3, <2>3
    <3>3. s[Len(r) + 1] = c
      BY <1>2, <1>3
    <3> QED
      BY <1>3, <2>3, <3>1, <3>2, <3>3 DEF At
  <2>4. CASE i > Len(u) + 1
    <3>1. At(v, d, s, i) = s[Len(s) + 1 - (i - Len(v) - 1)]
      BY <1>1, <1>3, <2>4 DEF At
    <3> DEFINE j == Len(r) + 1 - (i - Len(u) - 1)
    <3>2. Len(s) + 1 - (i - Len(v) - 1) = j /\ j \in 1 .. Len(r)
      BY <1>1, <1>2, <1>3, <2>4
    <3>3. s[j] = r[j]
      <4> HIDE DEF j
      <4> QED
        BY <1>2, <1>3, <3>2
    <3>4. At(u, c, r, i) = r[j]
      BY <1>3, <2>4 DEF At
    <3> QED
      BY <3>1, <3>2, <3>3, <3>4
  <2> QED
    BY <2>1, <2>2, <2>3, <2>4, <1>3
<1>6. /\ Timeline(u, c, r) \in Seq(Contents)
      /\ Len(Timeline(u, c, r)) = Len(u) + 1 + Len(r)
      /\ \A i \in 1 .. Len(u) + 1 + Len(r) : Timeline(u, c, r)[i] = At(u, c, r, i)
  BY TimelineAt
<1>7. Timeline(v, d, s) = Timeline(u, c, r)
  BY <1>4, <1>5, <1>6, SeqEqual
<1> QED
  BY <1>7 DEF v, s

\* An appended sequence, place by place.
LEMMA AppendAt ==
    ASSUME NEW s \in Seq(Contents), NEW c \in Contents
    PROVE  /\ Append(s, c) \in Seq(Contents) /\ Len(Append(s, c)) = Len(s) + 1
           /\ \A i \in 1 .. Len(s) + 1 : Append(s, c)[i] = IF i = Len(s) + 1 THEN c ELSE s[i]
OBVIOUS

(* An edit's timeline ends at its content.                                 *)
LEMMA EndedTimeline ==
    ASSUME NEW u \in Seq(Contents), NEW c \in Contents
    PROVE  Timeline(u, c, <<>>) = Append(u, c)
<1> DEFINE e == <<>>
           t == Timeline(u, c, e)
           s == Append(u, c)
<1>1. e \in Seq(Contents) /\ Len(e) = 0 /\ Len(u) \in Nat
  OBVIOUS
<1>2. /\ s \in Seq(Contents) /\ Len(s) = Len(u) + 1
      /\ \A i \in 1 .. Len(u) + 1 : s[i] = IF i = Len(u) + 1 THEN c ELSE u[i]
  BY AppendAt
<1> HIDE DEF e, s
<1>3. /\ t \in Seq(Contents) /\ Len(t) = Len(u) + 1 + Len(e)
      /\ \A i \in 1 .. Len(u) + 1 + Len(e) : t[i] = At(u, c, e, i)
  BY <1>1, TimelineAt, Zenon
<1> HIDE DEF t
<1>4. Len(t) = Len(s) /\ Len(t) = Len(u) + 1
  BY <1>1, <1>2, <1>3
<1>5. ASSUME NEW i \in 1 .. Len(t)
      PROVE  t[i] = s[i]
  BY <1>1, <1>2, <1>3, <1>4 DEF At
<1>6. t = s
  BY <1>2, <1>3, <1>4, <1>5, SeqEqual
<1> QED
  BY <1>6 DEF t, s, e

(* What is behind the cursor is cut.                                       *)
LEMMA CutTimeline ==
    ASSUME NEW u \in Seq(Contents), NEW c \in Contents, NEW r \in Seq(Contents)
    PROVE  SubSeq(Timeline(u, c, r), 1, Len(u) + 1) = Append(u, c)
<1> DEFINE n == Len(u) + 1
           t == Timeline(u, c, r)
           p == SubSeq(t, 1, n)
           s == Append(u, c)
<1>1. Len(u) \in Nat /\ Len(r) \in Nat
  OBVIOUS
<1>2. /\ t \in Seq(Contents) /\ Len(t) = Len(u) + 1 + Len(r)
      /\ \A i \in 1 .. Len(u) + 1 + Len(r) : t[i] = At(u, c, r, i)
  BY TimelineAt
<1>3. /\ s \in Seq(Contents) /\ Len(s) = n
      /\ \A i \in 1 .. n : s[i] = IF i = n THEN c ELSE u[i]
  BY AppendAt
<1> HIDE DEF t, s
<1>4. n \in Int /\ 1 \in Int /\ (\A i \in 1 .. n : t[i] \in Contents)
  BY <1>1, <1>2
<1>5. n - 1 + 1 = n /\ 1 <= n /\ \A i \in 1 .. n : 1 + i - 1 = i
  BY <1>1
<1>6. /\ p \in Seq(Contents) /\ Len(p) = IF 1 <= n THEN n - 1 + 1 ELSE 0
      /\ \A i \in 1 .. n - 1 + 1 : p[i] = t[1 + i - 1]
  <2> HIDE DEF n
  <2> QED
    BY <1>4, SubSeqProperties
<1>7. Len(p) = n /\ \A i \in 1 .. n : p[i] = t[i]
  <2> HIDE DEF n, p
  <2> QED
    BY <1>5, <1>6
<1>8. ASSUME NEW i \in 1 .. n
      PROVE  p[i] = s[i]
  <2>1. t[i] = At(u, c, r, i)
    BY <1>1, <1>2
  <2>2. At(u, c, r, i) = IF i = n THEN c ELSE u[i]
    BY <1>1 DEF At
  <2> HIDE DEF n, p
  <2> QED
    BY <2>1, <2>2, <1>3, <1>7
<1>9. p = s
  <2> HIDE DEF n, p
  <2> QED
    BY <1>3, <1>6, <1>7, <1>8, SeqEqual
<1> QED
  BY <1>9 DEF t, s

(* What the limit cuts from the old end of the undo stack, it cuts from the*)
(* timeline.                                                               *)
LEMMA PushedHistory ==
    ASSUME NEW u \in Seq(Contents), NEW c \in Contents, Len(u) <= MaxHistoryDepth
    PROVE  History!Newest(Append(u, c), MaxHistoryDepth) =
               IF Len(u) < MaxHistoryDepth THEN Append(u, c) ELSE Append(Tail(u), c)
<1> DEFINE s == Append(u, c)
<1>1. /\ s \in Seq(Contents) /\ Len(s) = Len(u) + 1
      /\ \A i \in 1 .. Len(u) + 1 : s[i] = IF i = Len(u) + 1 THEN c ELSE u[i]
  BY AppendAt
<1>2. Len(u) \in Nat /\ MaxHistoryDepth \in Nat \ {0}
  BY DocumentAssumption
<1>3. CASE Len(u) < MaxHistoryDepth
  <2>1. ~(Len(s) > MaxHistoryDepth)
    BY <1>1, <1>2, <1>3
  <2> QED
    BY <2>1, <1>3 DEF History!Newest
<1>4. CASE Len(u) = MaxHistoryDepth
  <2> DEFINE n == Len(u) + 1
             p == SubSeq(s, 2, n)
             t == Tail(u)
             q == Append(t, c)
  <2>1. u # <<>>
    BY <1>2, <1>4
  <2>2. /\ t \in Seq(Contents) /\ Len(t) = Len(u) - 1
        /\ \A i \in 1 .. Len(u) - 1 : t[i] = u[i + 1]
    BY <2>1
  <2> HIDE DEF t
  <2>3. /\ q \in Seq(Contents) /\ Len(q) = Len(t) + 1
        /\ \A i \in 1 .. Len(t) + 1 : q[i] = IF i = Len(t) + 1 THEN c ELSE t[i]
    BY <2>2, AppendAt
  <2> HIDE DEF q, s
  <2>4. n \in Int /\ 2 \in Int /\ (\A i \in 2 .. n : s[i] \in Contents)
    BY <1>1, <1>2
  <2>5. /\ p \in Seq(Contents) /\ Len(p) = IF 2 <= n THEN n - 2 + 1 ELSE 0
        /\ \A i \in 1 .. n - 2 + 1 : p[i] = s[2 + i - 1]
    <3> HIDE DEF n
    <3> QED
      BY <2>4, SubSeqProperties
  <2>6. n - 2 + 1 = Len(u) /\ 2 <= n /\ \A i \in 1 .. Len(u) : 2 + i - 1 = i + 1
    BY <1>2, <1>4
  <2>7. Len(p) = Len(u) /\ \A i \in 1 .. Len(u) : p[i] = s[i + 1]
    <3> HIDE DEF n, p
    <3> QED
      BY <2>5, <2>6
  <2>8. Len(q) = Len(u)
    BY <1>2, <2>2, <2>3
  <2>9. ASSUME NEW i \in 1 .. Len(u)
        PROVE  p[i] = q[i]
    <3>1. p[i] = IF i = Len(u) THEN c ELSE u[i + 1]
      <4>1. i + 1 \in 1 .. Len(u) + 1 /\ (i + 1 = Len(u) + 1 <=> i = Len(u))
        BY <1>2
      <4> HIDE DEF p
      <4> QED
        BY <1>1, <2>7, <4>1
    <3>2. q[i] = IF i = Len(u) THEN c ELSE u[i + 1]
      BY <1>2, <2>2, <2>3
    <3> QED
      BY <3>1, <3>2
  <2>10. p = q
    <3> HIDE DEF n, p
    <3> QED
      BY <2>3, <2>5, <2>7, <2>8, <2>9, SeqEqual
  <2>11. Len(s) - MaxHistoryDepth + 1 = 2 /\ Len(s) = n /\ Len(s) > MaxHistoryDepth
    BY <1>1, <1>2, <1>4
  <2>12. History!Newest(s, MaxHistoryDepth) = p
    BY <2>11 DEF History!Newest
  <2> QED
    BY <1>2, <1>4, <2>10, <2>12 DEF q, t, s
<1> QED
  BY <1>2, <1>3, <1>4

-----------------------------------------------------------------------------
Line == IF is_open THEN undo_stack \o <<content>> \o Reversed(redo_stack) ELSE <<>>
Cursor == IF is_open THEN Len(undo_stack) + 1 ELSE 0

\* While a document is open, the abstract line and cursor are those of its
\* stacks.
LEMMA LineOpen ==
    ASSUME TypeOK, is_open
    PROVE  /\ Line = Timeline(undo_stack, content, redo_stack)
           /\ Cursor = Len(undo_stack) + 1
           /\ Line \in Seq(Contents)
           /\ Len(Line) = Len(undo_stack) + 1 + Len(redo_stack)
           /\ Line[Len(undo_stack) + 1] = content
<1>1. /\ undo_stack \in Seq(Contents) /\ redo_stack \in Seq(Contents) /\ content \in Contents
      /\ Len(undo_stack) \in Nat /\ Len(redo_stack) \in Nat
  BY DEF TypeOK
<1>2. Line = Timeline(undo_stack, content, redo_stack)
  BY DEF Line, Timeline
<1>3. /\ Line \in Seq(Contents) /\ Len(Line) = Len(undo_stack) + 1 + Len(redo_stack)
      /\ \A i \in 1 .. Len(undo_stack) + 1 + Len(redo_stack) :
            Line[i] = At(undo_stack, content, redo_stack, i)
  BY <1>1, <1>2, TimelineAt
<1>4. Len(undo_stack) + 1 \in 1 .. Len(undo_stack) + 1 + Len(redo_stack)
  BY <1>1
<1>5. At(undo_stack, content, redo_stack, Len(undo_stack) + 1) = content
  BY <1>1 DEF At
<1> QED
  BY <1>2, <1>3, <1>4, <1>5 DEF Cursor

(* Opening, creating, reverting: a timeline of one content.                *)
LEMMA LoadStep ==
    ASSUME content' \in Contents, is_open', undo_stack' = <<>>, redo_stack' = <<>>
    PROVE  History!Load
<1>1. Line' = Timeline(<<>>, content', <<>>)
  BY DEF Line, Timeline
<1>2. Line' = <<content'>>
  BY <1>1, LoadedTimeline
<1>3. Cursor' = 1
  BY DEF Cursor
<1> QED
  BY <1>2, <1>3 DEF History!Load, Line, Cursor

\* push_history_entry, with its trim and its cleared redo stack, is an edit
\* of the abstract history.
LEMMA EditStep ==
    ASSUME TypeOK, TypeOK', HistoryBounded, is_open, is_open',
           content' # content, PushHistoryEntry
    PROVE  History!Edit
<1> DEFINE push == IF Len(undo_stack) < MaxHistoryDepth
                   THEN Append(undo_stack, content) ELSE Append(Tail(undo_stack), content)
<1>1. /\ undo_stack \in Seq(Contents) /\ redo_stack \in Seq(Contents) /\ content \in Contents
      /\ content' \in Contents /\ undo_stack' \in Seq(Contents)
      /\ Len(undo_stack) \in Nat /\ Len(redo_stack) \in Nat
      /\ Len(undo_stack) <= MaxHistoryDepth
  BY DocumentAssumption DEF TypeOK, HistoryBounded
<1>2. undo_stack' = push /\ redo_stack' = <<>>
  BY DEF PushHistoryEntry
<1>3. Line' = Timeline(undo_stack', content', <<>>)
  BY <1>2 DEF Line, Timeline
<1>4. Line' = Append(push, content')
  BY <1>1, <1>2, <1>3, EndedTimeline
<1>5. SubSeq(Line, 1, Cursor) = Append(undo_stack, content)
  BY <1>1, LineOpen, CutTimeline
<1>6. Line' = Append(History!Newest(SubSeq(Line, 1, Cursor), MaxHistoryDepth), content')
  BY <1>1, <1>4, <1>5, PushedHistory
<1>7. Cursor > 0 /\ Line[Cursor] = content
  BY <1>1, LineOpen
<1>8. Len(undo_stack') + 1 = Len(Line')
  <2>1. Len(Line') = Len(undo_stack') + 1
    BY <1>1, <1>3, EndedTimeline, AppendAt
  <2> QED
    BY <2>1
<1>9. Cursor' = Len(Line')
  BY <1>8 DEF Cursor
<1>10. content' \in Contents \ {Line[Cursor]}
  BY <1>1, <1>7
<1> QED
  BY <1>6, <1>7, <1>9, <1>10 DEF History!Edit, Line, Cursor

\* Undo moves the abstract cursor back.
LEMMA UndoStep ==
    ASSUME TypeOK, TypeOK', is_open' = is_open, Undo
    PROVE  History!Undo
<1>1. /\ undo_stack \in Seq(Contents) /\ redo_stack \in Seq(Contents) /\ content \in Contents
      /\ Len(undo_stack) \in Nat /\ is_open /\ Len(undo_stack) > 0
  BY DEF TypeOK, Undo
<1>2. /\ content' = undo_stack[Len(undo_stack)]
      /\ undo_stack' = SubSeq(undo_stack, 1, Len(undo_stack) - 1)
      /\ redo_stack' = Append(redo_stack, content)
  BY DEF Undo, Show
<1>3. Line' = Line
  <2>1. Line' = Timeline(undo_stack', content', redo_stack')
    BY <1>1 DEF Line, Timeline
  <2> QED
    BY <1>1, <1>2, <2>1, MovedTimeline, LineOpen
<1>4. Len(undo_stack') = Len(undo_stack) - 1
  BY <1>1, <1>2, DropLast
<1>5. Cursor > 1 /\ Cursor' = Cursor - 1
  BY <1>1, <1>4 DEF Cursor
<1> QED
  BY <1>3, <1>5 DEF History!Undo, Line, Cursor

\* Redo moves the abstract cursor forward.
LEMMA RedoStep ==
    ASSUME TypeOK, TypeOK', is_open' = is_open, Redo
    PROVE  History!Redo
<1> DEFINE u == undo_stack'
           c == content'
           r == redo_stack'
<1>1. /\ undo_stack \in Seq(Contents) /\ redo_stack \in Seq(Contents) /\ content \in Contents
      /\ Len(undo_stack) \in Nat /\ Len(redo_stack) \in Nat /\ is_open /\ Len(redo_stack) > 0
  BY DEF TypeOK, Redo
<1>2. /\ c = redo_stack[Len(redo_stack)]
      /\ r = SubSeq(redo_stack, 1, Len(redo_stack) - 1)
      /\ u = Append(undo_stack, content)
  BY DEF Redo, Show
<1>3. u \in Seq(Contents) /\ r \in Seq(Contents) /\ c \in Contents
  BY DEF TypeOK
<1>4. Len(u) = Len(undo_stack) + 1 /\ u[Len(u)] = content
  BY <1>1, <1>2
<1>5. SubSeq(u, 1, Len(u) - 1) = undo_stack
  <2>1. Len(u) - 1 = Len(undo_stack)
    BY <1>1, <1>4
  <2>2. /\ SubSeq(u, 1, Len(u) - 1) \in Seq(Contents)
        /\ Len(SubSeq(u, 1, Len(u) - 1)) = Len(u) - 1
        /\ \A i \in 1 .. Len(u) - 1 : SubSeq(u, 1, Len(u) - 1)[i] = u[i]
    <3>1. Len(u) > 0
      BY <1>1, <1>4
    <3> QED
      BY <1>3, <3>1, DropLast
  <2>3. \A i \in 1 .. Len(undo_stack) : u[i] = undo_stack[i]
    BY <1>1, <1>2
  <2> QED
    BY <1>1, <2>1, <2>2, <2>3, SeqEqual
<1>6. Append(r, c) = redo_stack
  <2>1. /\ r \in Seq(Contents) /\ Len(r) = Len(redo_stack) - 1
        /\ \A i \in 1 .. Len(redo_stack) - 1 : r[i] = redo_stack[i]
    BY <1>1, <1>2, DropLast
  <2>2. /\ Append(r, c) \in Seq(Contents) /\ Len(Append(r, c)) = Len(r) + 1
        /\ \A i \in 1 .. Len(r) + 1 : Append(r, c)[i] = IF i = Len(r) + 1 THEN c ELSE r[i]
    BY <1>3, AppendAt
  <2>3. Len(Append(r, c)) = Len(redo_stack)
    BY <1>1, <2>1, <2>2
  <2>4. \A i \in 1 .. Len(redo_stack) : Append(r, c)[i] = redo_stack[i]
    BY <1>1, <1>2, <2>1, <2>2
  <2> QED
    BY <1>1, <2>2, <2>3, <2>4, SeqEqual
<1>7. Timeline(undo_stack, content, redo_stack) = Timeline(u, c, r)
  <2>1. Len(u) > 0
    BY <1>1, <1>4
  <2>2. Timeline(SubSeq(u, 1, Len(u) - 1), u[Len(u)], Append(r, c)) = Timeline(u, c, r)
    BY <1>3, <2>1, MovedTimeline
  <2> QED
    BY <1>4, <1>5, <1>6, <2>2
<1>8. Line' = Line
  <2>1. Line' = Timeline(u, c, r)
    BY <1>1 DEF Line, Timeline
  <2> QED
    BY <1>1, <1>7, <2>1, LineOpen
<1>9. Cursor > 0 /\ Cursor < Len(Line) /\ Cursor' = Cursor + 1
  <2>1. Cursor = Len(undo_stack) + 1 /\ Cursor' = Len(u) + 1
    BY <1>1 DEF Cursor
  <2> QED
    BY <1>1, <1>4, <2>1, LineOpen
<1> QED
  BY <1>8, <1>9 DEF History!Redo, Line, Cursor

\* Every step of Document is a step of the abstract history, or none.
LEMMA HistoryStep ==
    ASSUME IInv, IInv', [Next]_vars
    PROVE  [History!Next]_(History!vars)
<1>1. TypeOK /\ TypeOK' /\ OpShape /\ HistoryBounded
  BY DEF IInv
<1>2. CASE Modify
  <2>1. is_open /\ is_open' /\ content' # content /\ PushHistoryEntry
    BY <1>2 DEF Modify, Show
  <2> QED
    BY <1>1, <2>1, EditStep DEF History!Next
<1>3. CASE CommitRestore
  <2>1. is_open /\ is_open' /\ content' # content /\ PushHistoryEntry
    BY <1>1, <1>3 DEF CommitRestore, Show, OpShape
  <2> QED
    BY <1>1, <2>1, EditStep DEF History!Next
<1>4. CASE Undo
  BY <1>1, <1>4, UndoStep DEF Undo, Show, History!Next
<1>5. CASE Redo
  BY <1>1, <1>5, RedoStep DEF Redo, Show, History!Next
<1>6. CASE NewDocument \/ CommitRevert \/ (\E p \in Paths : Open(p))
  <2>1. is_open' /\ undo_stack' = <<>> /\ redo_stack' = <<>>
    BY <1>1, <1>6 DEF NewDocument, Cleared, CommitRevert, Open, OpShape
  <2>2. content' \in Contents
    BY <1>1 DEF TypeOK
  <2> QED
    BY <2>1, <2>2, LoadStep DEF History!Next
<1>7. CASE Crash
  <2>1. ~is_open'
    BY <1>7 DEF Crash
  <2> QED
    BY <2>1 DEF History!Next, History!Close
<1>8. CASE WritePrimary \/ RecordBlob \/ RecordVersion \/ PruneBlobs \/ GiveUp \/ Finalize
           \/ (\E p \in Paths : BeginSave(p)) \/ BeginRevert \/ BeginRestore
           \/ (\E p \in Paths : ExternalWrite(p)) \/ UNCHANGED vars
  <2>1. UNCHANGED <<is_open, content, undo_stack, redo_stack>>
    BY <1>8 DEF WritePrimary, RecordBlob, RecordVersion, PruneBlobs, GiveUp, BeginSave, Finalize,
                FinalizeWith, BeginRevert, BeginRestore, ExternalWrite, vars, memory, stacks
  <2> QED
    BY <2>1 DEF History!vars, Reversed
<1> QED
  BY <1>1, <1>2, <1>3, <1>4, <1>5, <1>6, <1>7, <1>8, StepCases

(* A document has the history EditHistory specifies.                       *)
THEOREM DocumentImplementsHistory == Spec => HistorySpec
<1>1. Init => History!Init
  BY DEF Init, History!Init
<1>2. IInv /\ IInv' /\ [Next]_vars => [History!Next]_(History!vars)
  BY HistoryStep
<1> QED
  BY <1>1, <1>2, Invariance, PTL DEF Spec, HistorySpec, History!Spec

=============================================================================
