-------------------------------- MODULE Volume --------------------------------
(***************************************************************************)
(* A durable volume (crates/botroster-store/src/lib.rs): the workspace a     *)
(* guest works in, and the snapshots it can be rolled back to.               *)
(*                                                                         *)
(* The state is what is on the disk.  Processes come and go: each opens the   *)
(* volume, takes snapshots, restores or prunes under the mutation lock, or    *)
(* attaches and writes; any of them may die or meet an I/O error between any  *)
(* two file operations, and the locks of a process die with it.  A file that  *)
(* is written aside and renamed into place changes in one step, and a         *)
(* directory is renamed or removed in one.                                    *)
(*                                                                         *)
(* A tree says what each file holds; content is its own hash, so the blob     *)
(* store is the set of the contents it keeps.                                 *)
(***************************************************************************)
EXTENDS Integers, FiniteSets

CONSTANTS Procs,     \* processes that open the volume
          Files,     \* paths in the workspace
          Contents,  \* what a file may hold
          Labels,    \* labels callers give to snapshots
          Safety,    \* the label of the snapshots restore takes
          Keeps,     \* how many snapshots a prune may be told to keep
          MaxSeq,    \* bound on the snapshots ever taken
          Absent,    \* a file that is not there
          None

ASSUME VolumeAssumption ==
    /\ MaxSeq \in Nat
    /\ Keeps \subseteq Nat
    /\ Absent \notin Contents
    /\ Safety # None /\ None \notin Labels \cup Procs
    /\ None \notin {"snapshot", "restore", "prune"}

Ids   == 0 .. MaxSeq - 1
Trees == [Files -> Contents \cup {Absent}]
Empty == [f \in Files |-> Absent]

\* None is no tree; the assumption says so for the proofs' sake.
ASSUME NoTreeAssumption == None \notin Trees

Present(tree) == {f \in Files : tree[f] # Absent}
Held(tree)    == {tree[f] : f \in Present(tree)}

VARIABLES
    current, staging, retired,  \* the directories current, .new and .old
    nextSeq, listed,            \* meta.json: next_seq, and label by snapshot
    manifests,                  \* the tree each manifest describes
    blobs,                      \* the blob store
    mutator,                    \* who holds mutate.lock
    guest,                      \* who holds attached.lock
    proc,                       \* every process and its local variables
    versions,                   \* what the workspace may rightly hold
    raced,                      \* a volume was opened in the middle of a restore
    late                        \* a guest attached in the middle of a restore

dirs  == <<current, staging, retired>>
index == <<nextSeq, listed, manifests, blobs>>
locks == <<mutator, guest>>
ghost == <<versions, raced, late>>
vars  == <<current, staging, retired, nextSeq, listed, manifests, blobs,
           mutator, guest, proc, versions, raced, late>>

Index == [Ids -> Labels \cup {Safety, None}]

Opening  == {"adopt", "putBack", "dropOld", "dropNew", "make"}
Swapping == {"stage", "copy", "swapIn", "clean"}
Mutating == {"begin", "ingest", "index", "unlist", "collect"} \cup Swapping

\* "seq" and "was" are the metadata as the operation read it, "tree" the
\* manifest it is building, "target" the one it restores, and "todo" the files,
\* snapshots or blobs it still has to deal with.
Proc == [pc : {"closed", "ready"} \cup Opening \cup Mutating,
         op : {"snapshot", "restore", "prune", None},
         label : Labels \cup {Safety, None}, seq : 0 .. MaxSeq, was : Index,
         tree : Trees, target : Trees,
         todo : (SUBSET Files) \cup (SUBSET Ids) \cup (SUBSET Contents)]

Between(pc) == [pc |-> pc, op |-> None, label |-> None, seq |-> 0,
                was |-> [i \in Ids |-> None], tree |-> Empty, target |-> Empty,
                todo |-> {}]

\* The last conjunct: whoever is in the middle of a mutation holds its lock.
TypeOK ==
    /\ {current, staging, retired} \subseteq Trees \cup {None}
    /\ nextSeq \in 0 .. MaxSeq
    /\ listed \in Index
    /\ manifests \in [Ids -> Trees \cup {None}]
    /\ blobs \subseteq Contents
    /\ mutator \in Procs \cup {None}
    /\ guest \in Procs \cup {None}
    /\ proc \in [Procs -> Proc]
    /\ versions \subseteq Trees
    /\ raced \in BOOLEAN
    /\ late \in BOOLEAN
    /\ \A p \in Procs : proc[p].pc \in Mutating <=> mutator = p

Init ==
    /\ current = None /\ staging = None /\ retired = None
    /\ nextSeq = 0
    /\ listed = [i \in Ids |-> None]
    /\ manifests = [i \in Ids |-> None]
    /\ blobs = {}
    /\ mutator = None
    /\ guest = None
    /\ proc = [p \in Procs |-> Between("closed")]
    /\ versions = {Empty}
    /\ raced = FALSE
    /\ late = FALSE

At(p, pc)   == proc[p].pc = pc
Goto(p, pc) == proc' = [proc EXCEPT ![p].pc = pc]

\* The versions restores on their way will put in place.
Pending == {proc[q].target : q \in {r \in Procs : /\ proc[r].op = "restore"
                                                  /\ proc[r].pc # "clean"}}

\* The mutation lock is dropped with its guard.
Leave(p, pc) ==
    /\ proc' = [proc EXCEPT ![p] = Between(pc)]
    /\ mutator' = IF mutator = p THEN None ELSE mutator

-----------------------------------------------------------------------------
(***************************************************************************)
(* Store::volume, and recover_interrupted_restore.  Neither takes a lock.   *)
(***************************************************************************)

Open(p) ==
    /\ At(p, "closed")
    /\ Goto(p, "adopt")
    /\ UNCHANGED <<dirs, index, locks, ghost>>

\* One step of it, and whether it came in the middle of a restore.
OpenStep(p, from, to) ==
    /\ At(p, from)
    /\ Goto(p, to)
    /\ raced' = (raced \/ \E q \in Procs \ {p} : proc[q].pc \in Swapping)
    /\ UNCHANGED <<index, locks, late>>

\* Whatever is staged is taken for complete.
AdoptAnyStaging(p) ==
    /\ OpenStep(p, "adopt", "putBack")
    /\ IF staging # None
       THEN current' = staging /\ staging' = None
       ELSE UNCHANGED <<current, staging>>
    /\ UNCHANGED <<retired, versions>>

\* The new state is ready: complete the move.
Adopt(p) ==
    /\ OpenStep(p, "adopt", "putBack")
    /\ IF current = None /\ staging # None
       THEN current' = staging /\ staging' = None
       ELSE UNCHANGED <<current, staging>>
    /\ UNCHANGED <<retired, versions>>

\* Or the old one is put back.
PutBack(p) ==
    /\ OpenStep(p, "putBack", "dropOld")
    /\ IF current = None /\ retired # None
       THEN current' = retired /\ retired' = None
       ELSE UNCHANGED <<current, retired>>
    /\ UNCHANGED <<staging, versions>>

DropOld(p) ==
    /\ OpenStep(p, "dropOld", "dropNew")
    /\ retired' = None
    /\ UNCHANGED <<current, staging, versions>>

DropNew(p) ==
    /\ OpenStep(p, "dropNew", "make")
    /\ staging' = IF current # None THEN None ELSE staging
    /\ UNCHANGED <<current, retired, versions>>

\* The volume is open: whichever version it holds is the one there is, but
\* for the restores still on their way.
Make(p) ==
    /\ OpenStep(p, "make", "ready")
    /\ current' = IF current = None THEN Empty ELSE current
    /\ versions' = IF current \in versions THEN {current} \cup Pending
                                           ELSE versions
    /\ UNCHANGED <<staging, retired>>

-----------------------------------------------------------------------------
(***************************************************************************)
(* The guest.                                                              *)
(***************************************************************************)

\* attach: restores that are under way have already looked.
Attach(p) ==
    /\ At(p, "ready")
    /\ guest = None
    /\ guest' = p
    /\ late' = (late \/ \E q \in Procs : proc[q].op = "restore")
    /\ UNCHANGED <<dirs, index, mutator, proc, versions, raced>>

Detach(p) ==
    /\ guest = p
    /\ guest' = None
    /\ UNCHANGED <<dirs, index, mutator, proc, ghost>>

\* A tool of the guest writes or removes a file.
Write(p) ==
    /\ guest = p
    /\ current # None
    /\ \E f \in Files, c \in Contents \cup {Absent} :
         /\ current' = [current EXCEPT ![f] = c]
         /\ versions' = {[v EXCEPT ![f] = c] : v \in versions} \cup Pending
    /\ UNCHANGED <<staging, retired, index, locks, proc, raced, late>>

-----------------------------------------------------------------------------
(***************************************************************************)
(* Snapshots.                                                              *)
(***************************************************************************)

\* The first half of snapshot_locked, up to the walk of the workspace.
Reading(p, op, label) ==
    [Between("ingest") EXCEPT !.op = op, !.label = label, !.seq = nextSeq,
                              !.was = listed, !.todo = Present(current),
                              !.target = proc[p].target]

\* snapshot: the lock, the metadata and the names of the files.
BeginSnapshot(p) ==
    /\ At(p, "ready")
    /\ mutator = None
    /\ current # None
    /\ nextSeq < MaxSeq
    /\ mutator' = p
    /\ \E label \in Labels : proc' = [proc EXCEPT ![p] = Reading(p, "snapshot", label)]
    /\ UNCHANGED <<dirs, index, guest, ghost>>

\* ingest: one file is copied into the blob store, unless it has gone.
Ingest(p) ==
    /\ At(p, "ingest")
    /\ \E f \in proc[p].todo :
         LET gone == current = None \/ current[f] = Absent IN
         /\ blobs' = IF gone THEN blobs ELSE blobs \cup {current[f]}
         /\ proc' = [proc EXCEPT ![p].todo = @ \ {f},
                                 ![p].tree[f] = IF gone THEN @ ELSE current[f]]
    /\ UNCHANGED <<dirs, nextSeq, listed, manifests, locks, ghost>>

WriteManifest(p) ==
    /\ At(p, "ingest")
    /\ proc[p].todo = {}
    /\ manifests' = [manifests EXCEPT ![proc[p].seq] = proc[p].tree]
    /\ Goto(p, "index")
    /\ UNCHANGED <<dirs, nextSeq, listed, blobs, locks, ghost>>

\* The number is not written back.
IndexUncounted(p) ==
    /\ listed' = [proc[p].was EXCEPT ![proc[p].seq] = proc[p].label]
    /\ UNCHANGED nextSeq

\* What meta.json says with the new snapshot in it.
Indexed(p) ==
    /\ listed' = [proc[p].was EXCEPT ![proc[p].seq] = proc[p].label]
    /\ nextSeq' = proc[p].seq + 1

WriteIndex(p) ==
    /\ At(p, "index")
    /\ Indexed(p)
    /\ IF proc[p].op = "snapshot"
       THEN Leave(p, "ready")
       ELSE Goto(p, "stage") /\ UNCHANGED mutator
    /\ UNCHANGED <<dirs, manifests, blobs, guest, ghost>>

-----------------------------------------------------------------------------
(***************************************************************************)
(* Rollback.                                                               *)
(***************************************************************************)

\* The snapshot is there and no guest is running.
Restorable(id) == listed[id] # None /\ manifests[id] # None /\ guest = None

\* restore: the lock and the checks.
BeginRestore(p) ==
    /\ At(p, "ready")
    /\ mutator = None
    /\ mutator' = p
    /\ \E id \in Ids :
         /\ Restorable(id)
         /\ proc' = [proc EXCEPT ![p] = [Between("begin") EXCEPT
                        !.op = "restore", !.target = manifests[id]]]
         /\ versions' = versions \cup {manifests[id]}
    /\ late' = FALSE
    /\ UNCHANGED <<dirs, index, guest, raced>>

\* The safety snapshot of what is there now.
BeginSafety(p) ==
    /\ At(p, "begin")
    /\ current # None
    /\ nextSeq < MaxSeq
    /\ proc' = [proc EXCEPT ![p] = Reading(p, "restore", Safety)]
    /\ UNCHANGED <<dirs, index, locks, ghost>>

\* A staging directory left behind is removed first.
Stage(p) ==
    /\ At(p, "stage")
    /\ staging' = Empty
    /\ proc' = [proc EXCEPT ![p].pc = "copy", ![p].todo = Present(proc[p].target)]
    /\ UNCHANGED <<current, retired, index, locks, ghost>>

\* One file; its directory is made again if it is missing.
CopyOut(p) ==
    /\ At(p, "copy")
    /\ \E f \in proc[p].todo :
         LET content == proc[p].target[f]
             onto    == IF staging = None THEN Empty ELSE staging IN
         /\ content \in blobs
         /\ staging' = [onto EXCEPT ![f] = content]
         /\ proc' = [proc EXCEPT ![p].todo = @ \ {f}]
    /\ UNCHANGED <<current, retired, index, locks, ghost>>

\* A directory is renamed over nothing, or over an empty directory.
SwapOut(p) ==
    /\ At(p, "copy")
    /\ proc[p].todo = {}
    /\ current # None
    /\ retired \in {None, Empty}
    /\ retired' = current
    /\ current' = None
    /\ Goto(p, "swapIn")
    /\ raced' = (raced \/ \E q \in Procs : proc[q].pc \in Opening)
    /\ UNCHANGED <<staging, index, locks, versions, late>>

SwapIn(p) ==
    /\ At(p, "swapIn")
    /\ staging # None
    /\ current \in {None, Empty}
    /\ current' = staging
    /\ staging' = None
    /\ Goto(p, "clean")
    /\ UNCHANGED <<retired, index, locks, ghost>>

Clean(p) ==
    /\ At(p, "clean")
    /\ retired' = None
    /\ Leave(p, "ready")
    /\ UNCHANGED <<current, staging, index, guest, ghost>>

-----------------------------------------------------------------------------
(***************************************************************************)
(* Pruning.                                                                *)
(***************************************************************************)

\* All but the newest "keep" of the snapshots with that label, or of all.
Doomed(keep, label) ==
    LET mine == {i \in Ids : listed[i] # None /\ label \in {None, listed[i]}} IN
    {i \in mine : Cardinality({j \in mine : j >= i}) > keep}

\* A prune that does not wait for the mutation lock.
PruneUnlocked(p) ==
    /\ At(p, "ready")
    /\ mutator' = p
    /\ \E keep \in Keeps, label \in Labels \cup {None} :
         /\ Doomed(keep, label) # {}
         /\ proc' = [proc EXCEPT ![p] = [Between("unlist") EXCEPT
                        !.op = "prune", !.seq = nextSeq, !.was = listed,
                        !.todo = Doomed(keep, label)]]
    /\ UNCHANGED <<dirs, index, guest, ghost>>

\* prune and prune_labelled.
BeginPrune(p) ==
    /\ At(p, "ready")
    /\ mutator = None
    /\ mutator' = p
    /\ \E keep \in Keeps, label \in Labels \cup {None} :
         /\ Doomed(keep, label) # {}
         /\ proc' = [proc EXCEPT ![p] = [Between("unlist") EXCEPT
                        !.op = "prune", !.seq = nextSeq, !.was = listed,
                        !.todo = Doomed(keep, label)]]
    /\ UNCHANGED <<dirs, index, guest, ghost>>

\* prune_where: one manifest, the oldest first.
Unlist(p) ==
    /\ At(p, "unlist")
    /\ \E i \in proc[p].todo :
         /\ \A j \in proc[p].todo : i <= j
         /\ manifests' = [manifests EXCEPT ![i] = None]
         /\ proc' = [proc EXCEPT ![p].todo = @ \ {i}, ![p].was[i] = None]
    /\ UNCHANGED <<dirs, nextSeq, listed, blobs, locks, ghost>>

\* The blobs of the manifests that are left.
Live(index_) == UNION {Held(manifests[i]) :
                         i \in {j \in Ids : index_[j] # None /\ manifests[j] # None}}

\* The metadata, and then what gc_blobs finds unreferenced.
Reindex(p) ==
    /\ At(p, "unlist")
    /\ proc[p].todo = {}
    /\ listed' = proc[p].was
    /\ nextSeq' = proc[p].seq
    /\ proc' = [proc EXCEPT ![p].pc = "collect",
                            ![p].todo = blobs \ Live(proc[p].was)]
    /\ UNCHANGED <<dirs, manifests, blobs, locks, ghost>>

Collect(p) ==
    /\ At(p, "collect")
    /\ IF proc[p].todo = {}
       THEN Leave(p, "ready") /\ UNCHANGED blobs
       ELSE \E c \in proc[p].todo :
              /\ blobs' = blobs \ {c}
              /\ proc' = [proc EXCEPT ![p].todo = @ \ {c}]
              /\ UNCHANGED mutator
    /\ UNCHANGED <<dirs, nextSeq, listed, manifests, guest, ghost>>

-----------------------------------------------------------------------------
(***************************************************************************)
(* Failure.                                                                *)
(***************************************************************************)

\* A file operation fails: the error ends the operation and leaves the disk as
\* it is.
Fail(p) ==
    /\ proc[p].pc \in Mutating
    /\ Leave(p, "ready")
    /\ UNCHANGED <<dirs, index, guest, ghost>>

\* The process dies, and the system releases its locks.
Crash(p) ==
    /\ ~At(p, "closed")
    /\ Leave(p, "closed")
    /\ guest' = IF guest = p THEN None ELSE guest
    /\ UNCHANGED <<dirs, index, ghost>>

Opens(p)     == Open(p) \/ Adopt(p) \/ PutBack(p) \/ DropOld(p) \/ DropNew(p) \/ Make(p)
Uses(p)      == Attach(p) \/ Detach(p) \/ Write(p)
Snapshots(p) == BeginSnapshot(p) \/ Ingest(p) \/ WriteManifest(p) \/ WriteIndex(p)
Restores(p)  == BeginRestore(p) \/ BeginSafety(p) \/ Stage(p) \/ CopyOut(p)
                \/ SwapOut(p) \/ SwapIn(p) \/ Clean(p)
Prunes(p)    == BeginPrune(p) \/ Unlist(p) \/ Reindex(p) \/ Collect(p)

Next == \E p \in Procs : \/ Opens(p) \/ Uses(p) \/ Snapshots(p) \/ Restores(p)
                         \/ Prunes(p) \/ Fail(p) \/ Crash(p)

Spec == Init /\ [][Next]_vars

-----------------------------------------------------------------------------
(***************************************************************************)
(* What a volume promises.                                                 *)
(***************************************************************************)

\* Every blob a listed snapshot's manifest names is there, through prunes that
\* stop half way and snapshots taken while one runs (lock_mutations, gc_blobs).
SnapshotsKeepTheirBytes ==
    \A i \in Ids : listed[i] # None /\ manifests[i] # None => Held(manifests[i]) \subseteq blobs

\* A listed snapshot is never overwritten: no two snapshots share a number,
\* whatever died in between (lock_mutations, write_meta).
ManifestsKept ==
    \A i \in Ids : listed[i] # None /\ manifests[i] # None /\ manifests'[i] # None
                   => manifests'[i] = manifests[i]

SnapshotsNeverChange == [][ManifestsKept]_vars

\* A restore moves a workspace aside only when a listed snapshot holds exactly
\* what was in it, unless a guest came in after the restore had looked.
WorkIsSaved ==
    \A p \in Procs :
        At(p, "swapIn") /\ ~late /\ ~raced =>
            \E i \in Ids : listed[i] # None /\ manifests[i] = retired

\* Whatever a restore was doing when it stopped, the workspace is the version
\* before it or the one it restores, whole; unless somebody opened the volume
\* while the restore ran (recover_interrupted_restore).
WholeUnlessRaced == raced \/ current = None \/ current \in versions

\* A restore that succeeds has put back the whole snapshot, unless a guest came
\* in while it ran or somebody opened the volume and took away what it had
\* copied (Volume::restore, recover_interrupted_restore).
RestoredInFull ==
    \A p \in Procs : At(p, "clean") /\ ~late /\ ~raced => current = proc[p].target

\* What was snapshotted can be restored, and what is thrown away was snapshotted.
NothingIsLost == TypeOK /\ SnapshotsKeepTheirBytes /\ WorkIsSaved

\* A workspace is some snapshot's or somebody's work, whole, whatever a restore went through.
RestoresAreWhole == WholeUnlessRaced /\ RestoredInFull

=============================================================================
