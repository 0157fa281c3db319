---------------------------- MODULE VersionStore ----------------------------
(***************************************************************************)
(* The versions kept of a saved document: crates/kael_document/src/        *)
(* versions.rs.  A document has a list of versions, in one metadata file,  *)
(* and one blob per digest.  `record' writes the blob, then the list, then *)
(* removes the blobs the list no longer names; each is a step here, since  *)
(* the machine may stop between any two.  Contents stand for their digests.*)
(***************************************************************************)
EXTENDS Naturals, Sequences

CONSTANTS
    Paths,            \* where documents are saved
    Contents,         \* what a document may hold
    MaxVersions       \* max_versions

ASSUME VersionStoreAssumption == MaxVersions \in Nat \ {0}

VARIABLES
    versions,         \* path -> contents in versions.json, oldest first
    blobs             \* path -> contents with a .bin file

Named(list) == {list[i] : i \in DOMAIN list}

VersionStoreTypeOK ==
    /\ versions \in [Paths -> Seq(Contents)]
    /\ blobs \in [Paths -> SUBSET Contents]

VersionStoreInit ==
    /\ versions = [p \in Paths |-> <<>>]
    /\ blobs = [p \in Paths |-> {}]

(* record returns the newest version when it has the same digest.          *)
IsNewest(p, c) == versions[p] # <<>> /\ versions[p][Len(versions[p])] = c

(* The list with one more version, and without the oldest beyond the bound.*)
Recorded(list, c) ==
    IF Len(list) < MaxVersions THEN Append(list, c) ELSE Append(Tail(list), c)

WriteBlob(p, c) ==
    /\ blobs' = [blobs EXCEPT ![p] = @ \cup {c}]
    /\ UNCHANGED versions

PersistVersions(p, c) ==
    /\ versions' = [versions EXCEPT ![p] = Recorded(@, c)]
    /\ UNCHANGED blobs

\* Mutant of Stale: without the check that no version left has the digest.
StaleHead(list, c) == IF Len(list) < MaxVersions THEN {} ELSE {Head(list)}

(* The version the list lost is stale unless the list still names it.      *)
Stale(list, c) == Named(list) \ Named(Recorded(list, c))

RemoveStale(p, stale) ==
    /\ blobs' = [blobs EXCEPT ![p] = @ \ stale]
    /\ UNCHANGED versions

(* Every version listed can be restored: its blob is there, whatever write *)
(* the machine stopped after.                                              *)
VersionsReadable ==
    \A p \in Paths : Named(versions[p]) \subseteq blobs[p]
=============================================================================
