----------------------------- MODULE VolumeProofs -----------------------------
(***************************************************************************)
(* Theorems about Volume, for every set of processes, files, contents and     *)
(* labels and every bound on the snapshots taken: snapshots keep their bytes   *)
(* and never change, what a restore moves aside was snapshotted, and a         *)
(* restore leaves a whole version in place whatever it went through.          *)
(***************************************************************************)
EXTENDS Volume, TLAPS

-----------------------------------------------------------------------------
(***************************************************************************)
(* The inductive invariant, in parts.                                       *)
(***************************************************************************)

\* What an operation has left to do is of the kind it deals with.
Todos ==
    \A p \in Procs :
        /\ At(p, "ingest") => proc[p].todo \subseteq Files
        /\ At(p, "copy")   => proc[p].todo \subseteq Present(proc[p].target)
        /\ At(p, "unlist") => proc[p].todo \subseteq Ids

\* Restores and snapshots are where those operations can be.
Ops ==
    \A p \in Procs :
        /\ proc[p].op = "restore" => proc[p].pc \in {"begin", "ingest", "index"} \cup Swapping
        /\ proc[p].pc \in {"begin"} \cup Swapping => proc[p].op = "restore"
        /\ proc[p].pc \in {"ingest", "index"} => proc[p].op \in {"snapshot", "restore"}

\* Between the reading of meta.json and its writing under the mutation lock,
\* what was read stays true; a prune takes away from it only.
IndexAsRead ==
    \A p \in Procs :
        /\ proc[p].pc \in {"ingest", "index"} => /\ proc[p].seq = nextSeq
                                                 /\ proc[p].was = listed
                                                 /\ nextSeq < MaxSeq
                                                 /\ proc[p].label # None
        /\ At(p, "unlist") => /\ proc[p].seq = nextSeq
                              /\ \A i \in Ids : proc[p].was[i] \in {listed[i], None}

\* The next number is nobody's.
NumbersAhead == \A i \in Ids : listed[i] # None => i < nextSeq

Shape == TypeOK /\ Todos /\ Ops /\ IndexAsRead /\ NumbersAhead

\* A step of one process.
Does(p) == \/ Opens(p) \/ Uses(p) \/ Snapshots(p) \/ Restores(p)
           \/ Prunes(p) \/ Fail(p) \/ Crash(p)

\* The steps that need no mutation lock, and the steps that end its holding.
Idles(p) == Opens(p) \/ Uses(p) \/ Fail(p) \/ Crash(p)

-----------------------------------------------------------------------------
(***************************************************************************)
(* Types.                                                                  *)
(***************************************************************************)

LEMMA BetweenTyped ==
    ASSUME NEW pc \in {"closed", "ready"} \cup Opening \cup Mutating
    PROVE  /\ Between(pc) \in Proc
           /\ Between(pc).pc = pc /\ Between(pc).op = None
           /\ Between(pc).todo = {} /\ Between(pc).target = Empty
           /\ Between(pc).tree = Empty
<1>1. Empty \in Trees
  BY DEF Empty, Trees
<1>2. [i \in Ids |-> None] \in Index
  BY DEF Index
<1>3. 0 \in 0 .. MaxSeq
  BY VolumeAssumption
<1>4. QED
  BY <1>1, <1>2, <1>3 DEF Between, Proc

\* One process moves, and only its own locals change.
Moves(p) == /\ proc' \in [Procs -> Proc]
            /\ \A q \in Procs \ {p} : proc'[q] = proc[q]

LEMMA SetOne ==
    ASSUME TypeOK, NEW p \in Procs, NEW x \in Proc, proc' = [proc EXCEPT ![p] = x]
    PROVE  Moves(p) /\ proc'[p] = x
BY DEF TypeOK, Moves

LEMMA GotoOne ==
    ASSUME TypeOK, NEW p \in Procs, NEW pc \in {"closed", "ready"} \cup Opening \cup Mutating,
           Goto(p, pc)
    PROVE  /\ Moves(p)
           /\ proc'[p] = [proc[p] EXCEPT !.pc = pc]
           /\ proc'[p].pc = pc
           /\ \A q \in Procs : /\ proc'[q].op = proc[q].op /\ proc'[q].label = proc[q].label
                               /\ proc'[q].seq = proc[q].seq /\ proc'[q].was = proc[q].was
                               /\ proc'[q].tree = proc[q].tree
                               /\ proc'[q].target = proc[q].target
                               /\ proc'[q].todo = proc[q].todo
<1>1. proc[p] \in Proc
  BY DEF TypeOK
<1>2. [proc[p] EXCEPT !.pc = pc] \in Proc
  BY <1>1 DEF Proc
<1>3. proc' = [proc EXCEPT ![p] = [proc[p] EXCEPT !.pc = pc]]
  BY DEF Goto
<1>4. Moves(p) /\ proc'[p] = [proc[p] EXCEPT !.pc = pc]
  BY <1>2, <1>3, SetOne
<1>5. QED
  BY <1>1, <1>4 DEF Moves, Proc

LEMMA LeaveOne ==
    ASSUME TypeOK, NEW p \in Procs, NEW pc \in {"closed", "ready"}, Leave(p, pc)
    PROVE  Moves(p) /\ proc'[p] = Between(pc)
<1>1. Between(pc) \in Proc
  BY BetweenTyped
<1>2. QED
  BY <1>1, SetOne DEF Leave

LEMMA ReadingTyped ==
    ASSUME TypeOK, NEW p \in Procs, NEW op \in {"snapshot", "restore"},
           NEW label \in Labels \cup {Safety}, current # None
    PROVE  LET x == Reading(p, op, label) IN
           /\ x \in Proc
           /\ x.pc = "ingest" /\ x.op = op /\ x.label = label /\ x.seq = nextSeq
           /\ x.was = listed /\ x.todo = Present(current) /\ x.tree = Empty
           /\ x.target = proc[p].target
<1>1. Empty \in Trees
  BY DEF Empty, Trees
<1>2. Present(current) \in SUBSET Files
  BY DEF Present
<1>3. proc[p].target \in Trees /\ listed \in Index /\ nextSeq \in 0 .. MaxSeq
  BY DEF TypeOK, Proc
<1>4. Between("ingest") \in Proc
  BY BetweenTyped DEF Mutating
<1>5. QED
  BY <1>1, <1>2, <1>3, <1>4 DEF Reading, Between, Proc, Mutating

LEMMA IngestOne ==
    ASSUME TypeOK, Todos, NEW p \in Procs, Ingest(p)
    PROVE  /\ Moves(p)
           /\ proc'[p].pc = "ingest"
           /\ \A q \in Procs : /\ proc'[q].pc = proc[q].pc
                               /\ proc'[q].op = proc[q].op /\ proc'[q].label = proc[q].label
                               /\ proc'[q].seq = proc[q].seq /\ proc'[q].was = proc[q].was
                               /\ proc'[q].target = proc[q].target
           /\ \E f \in proc[p].todo :
                /\ f \in Files
                /\ proc'[p].todo = proc[p].todo \ {f}
                /\ \/ /\ current = None \/ current[f] = Absent
                      /\ blobs' = blobs
                      /\ proc'[p].tree = proc[p].tree
                   \/ /\ current # None /\ current[f] \in Contents
                      /\ blobs' = blobs \cup {current[f]}
                      /\ proc'[p].tree = [proc[p].tree EXCEPT ![f] = current[f]]
<1>0. proc[p] \in Proc /\ At(p, "ingest") /\ proc[p].todo \subseteq Files
  BY DEF TypeOK, Ingest, Todos
<1>1. PICK f \in proc[p].todo :
        LET gone == current = None \/ current[f] = Absent IN
         /\ blobs' = IF gone THEN blobs ELSE blobs \cup {current[f]}
         /\ proc' = [proc EXCEPT ![p].todo = proc[p].todo \ {f},
                                 ![p].tree[f] = IF gone THEN proc[p].tree[f] ELSE current[f]]
  BY DEF Ingest
<1>2. f \in Files
  BY <1>0
<1>3. CASE current = None \/ current[f] = Absent
  <2>1. [proc[p].tree EXCEPT ![f] = proc[p].tree[f]] = proc[p].tree
    BY <1>0 DEF Proc, Trees
  <2> DEFINE x == [proc[p] EXCEPT !.todo = proc[p].todo \ {f}]
  <2>2. proc[p].todo \ {f} \in SUBSET Files
    BY <1>0
  <2>3. x \in Proc
    BY <1>0, <2>2 DEF Proc
  <2>4. proc' = [proc EXCEPT ![p] = x]
    BY <1>0, <1>1, <1>3, <2>1 DEF Proc, TypeOK
  <2>5. Moves(p) /\ proc'[p] = x
    BY <2>3, <2>4, SetOne
  <2>6. x.pc = "ingest" /\ x.tree = proc[p].tree /\ x.todo = proc[p].todo \ {f}
        /\ x.op = proc[p].op /\ x.label = proc[p].label /\ x.seq = proc[p].seq
        /\ x.was = proc[p].was /\ x.target = proc[p].target
    BY <1>0 DEF Proc, At
  <2>7. \A q \in Procs : /\ proc'[q].pc = proc[q].pc
                         /\ proc'[q].op = proc[q].op /\ proc'[q].label = proc[q].label
                         /\ proc'[q].seq = proc[q].seq /\ proc'[q].was = proc[q].was
                         /\ proc'[q].target = proc[q].target
    BY <1>0, <2>5, <2>6 DEF Moves, At
  <2>8. QED
    BY <1>1, <1>2, <1>3, <2>5, <2>6, <2>7
<1>4. CASE ~(current = None \/ current[f] = Absent)
  <2>1. current[f] \in Contents
    BY <1>2, <1>4 DEF TypeOK, Trees
  <2>2. [proc[p].tree EXCEPT ![f] = current[f]] \in Trees
    BY <1>0, <2>1 DEF Proc, Trees
  <2> DEFINE x == [proc[p] EXCEPT !.todo = proc[p].todo \ {f},
                                  !.tree = [proc[p].tree EXCEPT ![f] = current[f]]]
  <2>3. proc[p].todo \ {f} \in SUBSET Files
    BY <1>0
  <2>4. x \in Proc
    BY <1>0, <2>2, <2>3 DEF Proc
  <2>5. proc' = [proc EXCEPT ![p] = x]
    BY <1>0, <1>1, <1>4 DEF Proc, TypeOK
  <2>6. Moves(p) /\ proc'[p] = x
    BY <2>4, <2>5, SetOne
  <2>7. x.pc = "ingest" /\ x.tree = [proc[p].tree EXCEPT ![f] = current[f]]
        /\ x.todo = proc[p].todo \ {f}
        /\ x.op = proc[p].op /\ x.label = proc[p].label /\ x.seq = proc[p].seq
        /\ x.was = proc[p].was /\ x.target = proc[p].target
    BY <1>0 DEF Proc, At
  <2>8. \A q \in Procs : /\ proc'[q].pc = proc[q].pc
                         /\ proc'[q].op = proc[q].op /\ proc'[q].label = proc[q].label
                         /\ proc'[q].seq = proc[q].seq /\ proc'[q].was = proc[q].was
                         /\ proc'[q].target = proc[q].target
    BY <1>0, <2>6, <2>7 DEF Moves, At
  <2>9. QED
    BY <1>1, <1>2, <1>4, <2>1, <2>6, <2>7, <2>8
<1>5. QED
  BY <1>3, <1>4

\* The other steps that change more than where the process is.
LEMMA BeginRestoreOne ==
    ASSUME TypeOK, NEW p \in Procs, BeginRestore(p)
    PROVE  /\ Moves(p)
           /\ \E id \in Ids :
                /\ Restorable(id)
                /\ versions' = versions \cup {manifests[id]}
                /\ manifests[id] \in Trees
                /\ proc'[p].target = manifests[id]
           /\ proc'[p].pc = "begin" /\ proc'[p].op = "restore"
<1>1. PICK id \in Ids :
         /\ Restorable(id)
         /\ proc' = [proc EXCEPT ![p] = [Between("begin") EXCEPT
                        !.op = "restore", !.target = manifests[id]]]
         /\ versions' = versions \cup {manifests[id]}
  BY DEF BeginRestore
<1>2. manifests[id] \in Trees
  BY <1>1 DEF Restorable, TypeOK
<1>3. Between("begin") \in Proc /\ Between("begin").pc = "begin"
  BY BetweenTyped DEF Mutating
<1> DEFINE x == [Between("begin") EXCEPT !.op = "restore", !.target = manifests[id]]
<1>4. x \in Proc /\ x.pc = "begin" /\ x.op = "restore" /\ x.target = manifests[id]
  BY <1>2, <1>3 DEF Proc
<1>5. Moves(p) /\ proc'[p] = x
  BY <1>1, <1>4, SetOne
<1>6. QED
  BY <1>1, <1>2, <1>4, <1>5

LEMMA StageOne ==
    ASSUME TypeOK, NEW p \in Procs, Stage(p)
    PROVE  /\ Moves(p)
           /\ proc'[p].pc = "copy" /\ proc'[p].op = proc[p].op
           /\ proc'[p].target = proc[p].target
           /\ proc'[p].todo = Present(proc[p].target)
<1>1. proc[p] \in Proc /\ Present(proc[p].target) \in SUBSET Files
  BY DEF TypeOK, Present
<1> DEFINE x == [proc[p] EXCEPT !.pc = "copy", !.todo = Present(proc[p].target)]
<1>2. /\ x \in Proc /\ x.pc = "copy" /\ x.op = proc[p].op /\ x.target = proc[p].target
      /\ x.todo = Present(proc[p].target)
  BY <1>1 DEF Proc, Mutating, Swapping
<1>3. proc' = [proc EXCEPT ![p] = x]
  BY <1>1 DEF Stage, TypeOK
<1>4. Moves(p) /\ proc'[p] = x
  BY <1>2, <1>3, SetOne
<1>5. QED
  BY <1>2, <1>4

LEMMA CopyOutOne ==
    ASSUME TypeOK, Todos, NEW p \in Procs, CopyOut(p)
    PROVE  /\ Moves(p)
           /\ proc'[p].pc = "copy" /\ proc'[p].op = proc[p].op
           /\ proc'[p].target = proc[p].target
           /\ \E f \in proc[p].todo :
                LET onto == IF staging = None THEN Empty ELSE staging IN
                /\ f \in Files /\ proc[p].target[f] \in Contents
                /\ proc'[p].todo = proc[p].todo \ {f}
                /\ onto \in Trees
                /\ staging' = [onto EXCEPT ![f] = proc[p].target[f]]
<1>1. proc[p] \in Proc /\ At(p, "copy") /\ proc[p].todo \subseteq Present(proc[p].target)
  BY DEF TypeOK, CopyOut, Todos
<1>2. PICK f \in proc[p].todo :
         /\ staging' = [IF staging = None THEN Empty ELSE staging EXCEPT ![f] = proc[p].target[f]]
         /\ proc' = [proc EXCEPT ![p].todo = proc[p].todo \ {f}]
  BY DEF CopyOut
<1>3. f \in Files /\ proc[p].target[f] \in Contents
  BY <1>1 DEF Present, Proc, Trees
<1>4. (IF staging = None THEN Empty ELSE staging) \in Trees
  BY DEF TypeOK, Empty, Trees
<1>5. proc[p].todo \ {f} \in SUBSET Files
  BY <1>1 DEF Present
<1> DEFINE x == [proc[p] EXCEPT !.todo = proc[p].todo \ {f}]
<1>6. /\ x \in Proc /\ x.pc = "copy" /\ x.op = proc[p].op /\ x.target = proc[p].target
      /\ x.todo = proc[p].todo \ {f}
  BY <1>1, <1>5 DEF Proc, At
<1>7. proc' = [proc EXCEPT ![p] = x]
  BY <1>1, <1>2 DEF TypeOK
<1>8. Moves(p) /\ proc'[p] = x
  BY <1>6, <1>7, SetOne
<1>9. QED
  BY <1>2, <1>3, <1>4, <1>6, <1>8

LEMMA BeginPruneOne ==
    ASSUME TypeOK, NEW p \in Procs, BeginPrune(p)
    PROVE  /\ Moves(p)
           /\ proc'[p].pc = "unlist" /\ proc'[p].op = "prune"
           /\ proc'[p].seq = nextSeq /\ proc'[p].was = listed
           /\ proc'[p].todo \subseteq Ids
<1>1. PICK keep \in Keeps, label \in Labels \cup {None} :
         proc' = [proc EXCEPT ![p] = [Between("unlist") EXCEPT
                        !.op = "prune", !.seq = nextSeq, !.was = listed,
                        !.todo = Doomed(keep, label)]]
  BY DEF BeginPrune
<1>2. Doomed(keep, label) \in SUBSET Ids
  BY DEF Doomed
<1>3. Between("unlist") \in Proc /\ Between("unlist").pc = "unlist"
  BY BetweenTyped DEF Mutating
<1> DEFINE x == [Between("unlist") EXCEPT !.op = "prune", !.seq = nextSeq, !.was = listed,
                                          !.todo = Doomed(keep, label)]
<1>4. /\ x \in Proc /\ x.pc = "unlist" /\ x.op = "prune" /\ x.seq = nextSeq /\ x.was = listed
      /\ x.todo = Doomed(keep, label)
  BY <1>2, <1>3 DEF Proc, TypeOK
<1>5. Moves(p) /\ proc'[p] = x
  BY <1>1, <1>4, SetOne
<1>6. QED
  BY <1>2, <1>4, <1>5

LEMMA UnlistOne ==
    ASSUME TypeOK, Todos, NEW p \in Procs, Unlist(p)
    PROVE  /\ Moves(p)
           /\ proc'[p].pc = "unlist" /\ proc'[p].op = proc[p].op
           /\ proc'[p].seq = proc[p].seq
           /\ \E i \in Ids : /\ manifests' = [manifests EXCEPT ![i] = None]
                             /\ proc'[p].todo = proc[p].todo \ {i}
                             /\ proc'[p].was = [proc[p].was EXCEPT ![i] = None]
<1>1. proc[p] \in Proc /\ At(p, "unlist") /\ proc[p].todo \subseteq Ids
  BY DEF TypeOK, Unlist, Todos
<1>2. PICK i \in proc[p].todo :
         /\ manifests' = [manifests EXCEPT ![i] = None]
         /\ proc' = [proc EXCEPT ![p].todo = proc[p].todo \ {i}, ![p].was[i] = None]
  BY DEF Unlist
<1>3. proc[p].todo \ {i} \in SUBSET Ids /\ [proc[p].was EXCEPT ![i] = None] \in Index
  BY <1>1 DEF Proc, Index
<1> DEFINE x == [proc[p] EXCEPT !.todo = proc[p].todo \ {i},
                                !.was = [proc[p].was EXCEPT ![i] = None]]
<1>4. /\ x \in Proc /\ x.pc = "unlist" /\ x.op = proc[p].op /\ x.seq = proc[p].seq
      /\ x.todo = proc[p].todo \ {i} /\ x.was = [proc[p].was EXCEPT ![i] = None]
  BY <1>1, <1>3 DEF Proc, At
<1>5. proc' = [proc EXCEPT ![p] = x]
  BY <1>1, <1>2 DEF TypeOK, Proc
<1>6. Moves(p) /\ proc'[p] = x
  BY <1>4, <1>5, SetOne
<1>7. QED
  BY <1>1, <1>2, <1>4, <1>6

LEMMA ReindexOne ==
    ASSUME TypeOK, NEW p \in Procs, Reindex(p)
    PROVE  /\ Moves(p)
           /\ proc'[p].pc = "collect" /\ proc'[p].op = proc[p].op
           /\ proc'[p].todo = blobs \ Live(proc[p].was)
<1>1. proc[p] \in Proc /\ blobs \ Live(proc[p].was) \in SUBSET Contents
  BY DEF TypeOK
<1> DEFINE x == [proc[p] EXCEPT !.pc = "collect", !.todo = blobs \ Live(proc[p].was)]
<1>2. /\ x \in Proc /\ x.pc = "collect" /\ x.op = proc[p].op
      /\ x.todo = blobs \ Live(proc[p].was)
  BY <1>1 DEF Proc, Mutating
<1>3. proc' = [proc EXCEPT ![p] = x]
  BY <1>1 DEF Reindex, TypeOK
<1>4. Moves(p) /\ proc'[p] = x
  BY <1>2, <1>3, SetOne
<1>5. QED
  BY <1>2, <1>4

\* One blob is collected.
LEMMA CollectOne ==
    ASSUME TypeOK, NEW p \in Procs, Collect(p), proc[p].todo # {}
    PROVE  /\ proc'[p].pc = "collect" /\ proc'[p].op = proc[p].op
           /\ UNCHANGED mutator
           /\ \E c \in proc[p].todo : /\ blobs' = blobs \ {c}
                                      /\ proc'[p].todo = proc[p].todo \ {c}
           /\ Moves(p)
<1>1. proc[p] \in Proc /\ At(p, "collect")
  BY DEF TypeOK, Collect
<1>2. PICK c \in proc[p].todo :
         /\ blobs' = blobs \ {c}
         /\ proc' = [proc EXCEPT ![p].todo = proc[p].todo \ {c}]
         /\ UNCHANGED mutator
  BY DEF Collect
<1>3. proc[p].todo \ {c} \in (SUBSET Files) \cup (SUBSET Ids) \cup (SUBSET Contents)
  BY <1>1 DEF Proc
<1> DEFINE x == [proc[p] EXCEPT !.todo = proc[p].todo \ {c}]
<1>4. x \in Proc /\ x.pc = "collect" /\ x.op = proc[p].op /\ x.todo = proc[p].todo \ {c}
  BY <1>1, <1>3 DEF Proc, At
<1>5. proc' = [proc EXCEPT ![p] = x]
  BY <1>1, <1>2 DEF TypeOK
<1>6. Moves(p) /\ proc'[p] = x
  BY <1>4, <1>5, SetOne
<1>7. QED
  BY <1>2, <1>4, <1>6

-----------------------------------------------------------------------------
(***************************************************************************)
(* Only the holder of the mutation lock mutates.                            *)
(***************************************************************************)

LEMMA HolderOnly ==
    ASSUME TypeOK, NEW p \in Procs, Does(p), NEW q \in Procs \ {p}, proc[q].pc \in Mutating
    PROVE  /\ Opens(p) \/ Uses(p) \/ Crash(p)
           /\ UNCHANGED <<index, mutator>>
           /\ mutator = q
           /\ proc[p].pc \notin Mutating
<1>1. mutator = q /\ mutator # None /\ mutator # p
  BY VolumeAssumption DEF TypeOK
<1>2. proc[p].pc \notin Mutating
  BY <1>1 DEF TypeOK
<1>3. ~Fail(p)
  BY <1>2 DEF Fail
<1>4. ~Snapshots(p)
  BY <1>1, <1>2 DEF Snapshots, BeginSnapshot, Ingest, WriteManifest, WriteIndex, At, Mutating
<1>5. ~Restores(p)
  BY <1>1, <1>2 DEF Restores, BeginRestore, BeginSafety, Stage, CopyOut, SwapOut, SwapIn, Clean,
     At, Mutating, Swapping
<1>6. ~Prunes(p)
  BY <1>1, <1>2 DEF Prunes, BeginPrune, Unlist, Reindex, Collect, At, Mutating
<1>7. Opens(p) \/ Uses(p) \/ Crash(p)
  BY <1>3, <1>4, <1>5, <1>6 DEF Does
<1>8. UNCHANGED <<index, mutator>>
  <2>1. CASE Opens(p)
    BY <2>1 DEF Opens, Open, Adopt, PutBack, DropOld, DropNew, Make, OpenStep, locks
  <2>2. CASE Uses(p)
    BY <2>2 DEF Uses, Attach, Detach, Write, locks
  <2>3. CASE Crash(p)
    BY <1>1, <2>3 DEF Crash, Leave
  <2>4. QED
    BY <1>7, <2>1, <2>2, <2>3
<1>9. QED
  BY <1>1, <1>2, <1>7, <1>8

\* Where an opening or a use leaves its process, and what it leaves alone.
LEMMA OpensOne ==
    ASSUME TypeOK, NEW p \in Procs, Opens(p)
    PROVE  /\ Moves(p)
           /\ UNCHANGED <<index, locks>>
           /\ proc[p].pc \in {"closed"} \cup Opening
           /\ proc'[p].pc \in {"ready"} \cup Opening
           /\ \A r \in Procs : /\ proc'[r].op = proc[r].op /\ proc'[r].target = proc[r].target
                               /\ proc'[r].todo = proc[r].todo
<1>1. PICK pc \in {"ready"} \cup Opening : Goto(p, pc)
  BY DEF Opens, Open, Adopt, PutBack, DropOld, DropNew, Make, OpenStep, Opening
<1>2. UNCHANGED <<index, locks>> /\ proc[p].pc \in {"closed"} \cup Opening
  BY DEF Opens, Open, Adopt, PutBack, DropOld, DropNew, Make, OpenStep, Opening, At
<1>3. QED
  BY <1>1, <1>2, GotoOne

LEMMA UsesOne ==
    ASSUME TypeOK, NEW p \in Procs, Uses(p)
    PROVE  UNCHANGED <<proc, index, mutator, staging, retired, raced>>
BY DEF Uses, Attach, Detach, Write, dirs, index, locks, ghost

LEMMA AlwaysMoves ==
    ASSUME TypeOK, Todos, NEW p \in Procs, Does(p)
    PROVE  Moves(p)
<1>1. CASE Opens(p)
  BY <1>1, OpensOne
<1>2. CASE Uses(p)
  BY <1>2, UsesOne DEF Moves, TypeOK
<1>3. CASE Snapshots(p)
  <2>1. CASE BeginSnapshot(p)
    <3>1. PICK label \in Labels : proc' = [proc EXCEPT ![p] = Reading(p, "snapshot", label)]
      BY <2>1 DEF BeginSnapshot
    <3>2. Reading(p, "snapshot", label) \in Proc
      BY <2>1, ReadingTyped DEF BeginSnapshot
    <3>3. QED
      BY <3>1, <3>2, SetOne
  <2>2. CASE Ingest(p)
    BY <2>2, IngestOne
  <2>3. CASE WriteManifest(p)
    BY <2>3, GotoOne DEF WriteManifest, Mutating
  <2>4. CASE WriteIndex(p)
    <3>1. Leave(p, "ready") \/ Goto(p, "stage")
      BY <2>4 DEF WriteIndex
    <3>2. QED
      BY <3>1, GotoOne, LeaveOne DEF Mutating, Swapping
  <2>5. QED
    BY <1>3, <2>1, <2>2, <2>3, <2>4 DEF Snapshots
<1>4. CASE Restores(p)
  <2>1. CASE BeginSafety(p)
    <3>1. Reading(p, "restore", Safety) \in Proc
      BY <2>1, ReadingTyped DEF BeginSafety
    <3>2. QED
      BY <2>1, <3>1, SetOne DEF BeginSafety
  <2>2. CASE SwapOut(p)
    BY <2>2, GotoOne DEF SwapOut, Mutating, Swapping
  <2>3. CASE SwapIn(p)
    BY <2>3, GotoOne DEF SwapIn, Mutating, Swapping
  <2>4. CASE Clean(p)
    BY <2>4, LeaveOne DEF Clean
  <2>5. QED
    BY <1>4, <2>1, <2>2, <2>3, <2>4, BeginRestoreOne, StageOne, CopyOutOne DEF Restores
<1>5. CASE Prunes(p)
  <2>1. CASE Collect(p)
    <3>1. CASE proc[p].todo = {}
      BY <2>1, <3>1, LeaveOne DEF Collect
    <3>2. QED
      BY <2>1, <3>1, CollectOne
  <2>2. QED
    BY <1>5, <2>1, BeginPruneOne, UnlistOne, ReindexOne DEF Prunes
<1>6. CASE Fail(p) \/ Crash(p)
  BY <1>6, LeaveOne DEF Fail, Crash
<1>7. QED
  BY <1>1, <1>2, <1>3, <1>4, <1>5, <1>6 DEF Does

-----------------------------------------------------------------------------
(***************************************************************************)
(* The shape of the state is kept.                                          *)
(***************************************************************************)

\* Whoever is in the middle of a mutation holds its lock.
Locked == \A q \in Procs : proc[q].pc \in Mutating <=> mutator = q

LEMMA LockKept ==
    ASSUME TypeOK, Todos, NEW p \in Procs, Does(p)
    PROVE  Locked' /\ mutator' \in Procs \cup {None}
<1>1. Moves(p)
  BY AlwaysMoves
<1>2. Locked /\ None \notin Procs /\ mutator \in Procs \cup {None}
  BY VolumeAssumption DEF TypeOK, Locked
<1>3. ASSUME proc[p].pc \notin Mutating, UNCHANGED mutator, proc'[p].pc \notin Mutating
      PROVE  Locked' /\ mutator' \in Procs \cup {None}
  BY <1>1, <1>2, <1>3 DEF Locked, Moves
<1>4. ASSUME proc[p].pc \in Mutating, UNCHANGED mutator, proc'[p].pc \in Mutating
      PROVE  Locked' /\ mutator' \in Procs \cup {None}
  BY <1>1, <1>2, <1>4 DEF Locked, Moves
<1>5. ASSUME mutator = None, mutator' = p, proc'[p].pc \in Mutating
      PROVE  Locked' /\ mutator' \in Procs \cup {None}
  BY <1>1, <1>2, <1>5 DEF Locked, Moves
<1>6. ASSUME NEW pc \in {"ready", "closed"}, Leave(p, pc)
      PROVE  Locked' /\ mutator' \in Procs \cup {None}
  <2>1. proc'[p].pc \notin Mutating
    BY <1>6, LeaveOne, BetweenTyped DEF Mutating, Swapping
  <2>2. mutator' = IF mutator = p THEN None ELSE mutator
    BY <1>6 DEF Leave
  <2>3. QED
    BY <1>1, <1>2, <2>1, <2>2 DEF Locked, Moves
<1>7. CASE Opens(p)
  BY <1>3, <1>7, OpensOne DEF locks, Opening, Mutating, Swapping
<1>8. CASE Uses(p)
  BY <1>2, <1>8, UsesOne DEF Locked
<1>9. CASE Snapshots(p)
  <2>1. CASE BeginSnapshot(p)
    <3>1. PICK label \in Labels : proc' = [proc EXCEPT ![p] = Reading(p, "snapshot", label)]
      BY <2>1 DEF BeginSnapshot
    <3>2. Reading(p, "snapshot", label) \in Proc /\ Reading(p, "snapshot", label).pc = "ingest"
      BY <2>1, ReadingTyped DEF BeginSnapshot
    <3>3. proc'[p].pc \in Mutating
      BY <3>1, <3>2, SetOne DEF Mutating
    <3>4. QED
      BY <1>5, <2>1, <3>3 DEF BeginSnapshot
  <2>2. CASE Ingest(p)
    BY <1>4, <2>2, IngestOne DEF Ingest, At, Mutating, locks
  <2>3. CASE WriteManifest(p)
    BY <1>4, <2>3, GotoOne DEF WriteManifest, At, Mutating, locks
  <2>4. CASE WriteIndex(p)
    <3>1. CASE Leave(p, "ready")
      BY <1>6, <3>1
    <3>2. CASE Goto(p, "stage") /\ UNCHANGED mutator
      BY <1>4, <2>4, <3>2, GotoOne DEF WriteIndex, At, Mutating, Swapping
    <3>3. QED
      BY <2>4, <3>1, <3>2 DEF WriteIndex
  <2>5. QED
    BY <1>9, <2>1, <2>2, <2>3, <2>4 DEF Snapshots
<1>10. CASE Restores(p)
  <2>1. CASE BeginRestore(p)
    BY <1>5, <2>1, BeginRestoreOne DEF BeginRestore, Mutating
  <2>2. CASE BeginSafety(p)
    <3>1. Reading(p, "restore", Safety) \in Proc /\ Reading(p, "restore", Safety).pc = "ingest"
      BY <2>2, ReadingTyped DEF BeginSafety
    <3>2. proc'[p].pc \in Mutating
      BY <2>2, <3>1, SetOne DEF BeginSafety, Mutating
    <3>3. QED
      BY <1>4, <2>2, <3>2 DEF BeginSafety, At, Mutating, locks
  <2>3. CASE Stage(p)
    BY <1>4, <2>3, StageOne DEF Stage, At, Mutating, Swapping, locks
  <2>4. CASE CopyOut(p)
    BY <1>4, <2>4, CopyOutOne DEF CopyOut, At, Mutating, Swapping, locks
  <2>5. CASE SwapOut(p)
    BY <1>4, <2>5, GotoOne DEF SwapOut, At, Mutating, Swapping, locks
  <2>6. CASE SwapIn(p)
    BY <1>4, <2>6, GotoOne DEF SwapIn, At, Mutating, Swapping, locks
  <2>7. CASE Clean(p)
    BY <1>6, <2>7 DEF Clean
  <2>8. QED
    BY <1>10, <2>1, <2>2, <2>3, <2>4, <2>5, <2>6, <2>7 DEF Restores
<1>11. CASE Prunes(p)
  <2>1. CASE BeginPrune(p)
    BY <1>5, <2>1, BeginPruneOne DEF BeginPrune, Mutating
  <2>2. CASE Unlist(p)
    BY <1>4, <2>2, UnlistOne DEF Unlist, At, Mutating, locks
  <2>3. CASE Reindex(p)
    BY <1>4, <2>3, ReindexOne DEF Reindex, At, Mutating, locks
  <2>4. CASE Collect(p)
    <3>1. CASE proc[p].todo = {}
      BY <1>6, <2>4, <3>1 DEF Collect
    <3>2. CASE proc[p].todo # {}
      BY <1>4, <2>4, <3>2, CollectOne DEF Collect, At, Mutating
    <3>3. QED
      BY <3>1, <3>2
  <2>5. QED
    BY <1>11, <2>1, <2>2, <2>3, <2>4 DEF Prunes
<1>12. CASE Fail(p) \/ Crash(p)
  BY <1>6, <1>12 DEF Fail, Crash
<1>13. QED
  BY <1>7, <1>8, <1>9, <1>10, <1>11, <1>12 DEF Does

\* The directories, the versions and the guest.
LEMMA TreesKept ==
    ASSUME TypeOK, Todos, NEW p \in Procs, Does(p)
    PROVE  /\ {current', staging', retired'} \subseteq Trees \cup {None}
           /\ versions' \subseteq Trees
           /\ guest' \in Procs \cup {None} /\ raced' \in BOOLEAN /\ late' \in BOOLEAN
<1>1. /\ Empty \in Trees
      /\ Pending \subseteq Trees
      /\ \A t \in Trees, f \in Files, c \in Contents \cup {Absent} : [t EXCEPT ![f] = c] \in Trees
  BY DEF Empty, Trees, Pending, TypeOK, Proc
<1>2. /\ {current, staging, retired} \subseteq Trees \cup {None} /\ versions \subseteq Trees
      /\ guest \in Procs \cup {None} /\ raced \in BOOLEAN /\ late \in BOOLEAN
  BY DEF TypeOK
<1>3. CASE Opens(p)
  BY <1>1, <1>2, <1>3 DEF Opens, Open, Adopt, PutBack, DropOld, DropNew, Make, OpenStep, dirs, locks,
     ghost
<1>4. CASE Write(p)
  <2>1. PICK f \in Files, c \in Contents \cup {Absent} :
         /\ current' = [current EXCEPT ![f] = c]
         /\ versions' = {[v EXCEPT ![f] = c] : v \in versions} \cup Pending
    BY <1>4 DEF Write
  <2>2. current \in Trees
    BY <1>2, <1>4 DEF Write
  <2>3. \A v \in versions : [v EXCEPT ![f] = c] \in Trees
    BY <1>1, <1>2
  <2>4. current' \in Trees /\ versions' \subseteq Trees
    BY <1>1, <2>1, <2>2, <2>3
  <2>5. QED
    BY <1>2, <1>4, <2>4 DEF Write, locks
<1>5. CASE Attach(p) \/ Detach(p)
  BY <1>2, <1>5 DEF Attach, Detach, dirs, ghost
<1>6. CASE Snapshots(p) \/ Prunes(p) \/ Fail(p) \/ Crash(p)
  BY <1>2, <1>6 DEF Snapshots, BeginSnapshot, Ingest, WriteManifest, WriteIndex, Prunes, BeginPrune,
     Unlist, Reindex, Collect, Fail, Crash, dirs, ghost, locks
<1>7. CASE BeginRestore(p)
  BY <1>2, <1>7, BeginRestoreOne DEF BeginRestore, dirs
<1>8. CASE CopyOut(p)
  <2>1. staging' \in Trees
    BY <1>1, <1>8, CopyOutOne
  <2>2. QED
    BY <1>2, <1>8, <2>1 DEF CopyOut, locks, ghost
<1>9. CASE BeginSafety(p) \/ Stage(p) \/ SwapOut(p) \/ SwapIn(p) \/ Clean(p)
  BY <1>1, <1>2, <1>9 DEF BeginSafety, Stage, SwapOut, SwapIn, Clean, dirs, locks, ghost
<1>10. QED
  BY <1>3, <1>4, <1>5, <1>6, <1>7, <1>8, <1>9 DEF Does, Uses, Restores

\* The steps that write the index, the manifests or the blobs.
LEMMA IndexTouched ==
    ASSUME NEW p \in Procs, Does(p)
    PROVE  \/ UNCHANGED index
           \/ Ingest(p) \/ WriteManifest(p) \/ WriteIndex(p)
           \/ Unlist(p) \/ Reindex(p) \/ Collect(p)
<1>1. CASE Opens(p)
  BY <1>1 DEF Opens, Open, Adopt, PutBack, DropOld, DropNew, Make, OpenStep
<1>2. CASE Uses(p) \/ Fail(p) \/ Crash(p)
  BY <1>2 DEF Uses, Attach, Detach, Write, Fail, Crash
<1>3. CASE BeginSnapshot(p) \/ BeginPrune(p)
  BY <1>3 DEF BeginSnapshot, BeginPrune
<1>4. CASE Restores(p)
  BY <1>4 DEF Restores, BeginRestore, BeginSafety, Stage, CopyOut, SwapOut, SwapIn, Clean
<1>5. QED
  BY <1>1, <1>2, <1>3, <1>4 DEF Does, Snapshots, Prunes

LEMMA IndexTyped ==
    ASSUME Shape, NEW p \in Procs, Does(p)
    PROVE  /\ nextSeq' \in 0 .. MaxSeq /\ listed' \in Index
           /\ manifests' \in [Ids -> Trees \cup {None}] /\ blobs' \subseteq Contents
<1>1. /\ nextSeq \in 0 .. MaxSeq /\ listed \in Index /\ proc[p] \in Proc
      /\ manifests \in [Ids -> Trees \cup {None}] /\ blobs \subseteq Contents
  BY DEF Shape, TypeOK
<1>2. CASE UNCHANGED index
  BY <1>1, <1>2 DEF index
<1>3. CASE Ingest(p)
  <2>1. blobs' \subseteq Contents
    BY <1>1, <1>3, IngestOne DEF Shape
  <2>2. QED
    BY <1>1, <1>3, <2>1 DEF Ingest
<1>4. CASE WriteManifest(p)
  <2>1. proc[p].tree \in Trees
    BY <1>1 DEF Proc
  <2>2. [manifests EXCEPT ![proc[p].seq] = proc[p].tree] \in [Ids -> Trees \cup {None}]
    BY <1>1, <2>1
  <2>3. QED
    BY <1>1, <1>4, <2>2 DEF WriteManifest
<1>5. CASE WriteIndex(p)
  <2>1. proc[p].seq = nextSeq /\ proc[p].was = listed /\ nextSeq < MaxSeq
    BY <1>5 DEF WriteIndex, At, Shape, IndexAsRead
  <2>2. nextSeq + 1 \in 0 .. MaxSeq
    BY <1>1, <2>1, VolumeAssumption
  <2>3. proc[p].label \in Labels \cup {Safety, None}
    BY <1>1 DEF Proc
  <2>4. [listed EXCEPT ![nextSeq] = proc[p].label] \in Index
    BY <1>1, <2>3 DEF Index
  <2>5. QED
    BY <1>1, <1>5, <2>1, <2>2, <2>4 DEF WriteIndex, Indexed
<1>6. CASE Unlist(p)
  <2>1. PICK i \in Ids : manifests' = [manifests EXCEPT ![i] = None]
    BY <1>6, UnlistOne DEF Shape
  <2>2. manifests' \in [Ids -> Trees \cup {None}]
    BY <1>1, <2>1
  <2>3. QED
    BY <1>1, <1>6, <2>2 DEF Unlist
<1>7. CASE Reindex(p)
  <2>1. proc[p].was \in Index /\ proc[p].seq \in 0 .. MaxSeq
    BY <1>1 DEF Proc
  <2>2. QED
    BY <1>1, <1>7, <2>1 DEF Reindex
<1>8. CASE Collect(p)
  BY <1>1, <1>8 DEF Collect
<1>9. QED
  BY <1>2, <1>3, <1>4, <1>5, <1>6, <1>7, <1>8, IndexTouched

LEMMA TypesKept ==
    ASSUME Shape, NEW p \in Procs, Does(p)
    PROVE  TypeOK'
<1>1. proc' \in [Procs -> Proc]
  BY AlwaysMoves DEF Moves, Shape
<1>2. Locked' /\ mutator' \in Procs \cup {None}
  BY LockKept DEF Shape
<1>3. QED
  BY <1>1, <1>2, TreesKept, IndexTyped DEF TypeOK, Shape, Locked

\* What the locals of a mutating process say, one process at a time.
TodosOf(p) ==
    /\ At(p, "ingest") => proc[p].todo \subseteq Files
    /\ At(p, "copy")   => proc[p].todo \subseteq Present(proc[p].target)
    /\ At(p, "unlist") => proc[p].todo \subseteq Ids

OpsOf(p) ==
    /\ proc[p].op = "restore" => proc[p].pc \in {"begin", "ingest", "index"} \cup Swapping
    /\ proc[p].pc \in {"begin"} \cup Swapping => proc[p].op = "restore"
    /\ proc[p].pc \in {"ingest", "index"} => proc[p].op \in {"snapshot", "restore"}

ReadOf(p) ==
    /\ proc[p].pc \in {"ingest", "index"} => /\ proc[p].seq = nextSeq
                                             /\ proc[p].was = listed
                                             /\ nextSeq < MaxSeq
                                             /\ proc[p].label # None
    /\ At(p, "unlist") => /\ proc[p].seq = nextSeq
                          /\ \A i \in Ids : proc[p].was[i] \in {listed[i], None}

LEMMA Apart ==
    /\ Todos <=> \A p \in Procs : TodosOf(p)
    /\ Ops <=> \A p \in Procs : OpsOf(p)
    /\ IndexAsRead <=> \A p \in Procs : ReadOf(p)
BY DEF Todos, TodosOf, Ops, OpsOf, IndexAsRead, ReadOf

\* A process that is not in the middle of a mutation has nothing to answer for.
LEMMA IdleIsFine ==
    ASSUME TypeOK', NEW p \in Procs, proc'[p].pc \notin Mutating, proc'[p].op = None
    PROVE  TodosOf(p)' /\ OpsOf(p)' /\ ReadOf(p)'
BY VolumeAssumption DEF TodosOf, OpsOf, ReadOf, At, Mutating, Swapping

LEMMA OthersFine ==
    ASSUME Shape, NEW p \in Procs, Does(p), NEW q \in Procs \ {p}
    PROVE  TodosOf(q)' /\ OpsOf(q)' /\ ReadOf(q)'
<1>1. proc'[q] = proc[q]
  BY AlwaysMoves DEF Moves, Shape
<1>2. TodosOf(q) /\ OpsOf(q) /\ ReadOf(q)
  BY Apart DEF Shape
<1>3. TodosOf(q)' /\ OpsOf(q)'
  BY <1>1, <1>2 DEF TodosOf, OpsOf, At
<1>4. CASE proc[q].pc \in Mutating
  <2>1. UNCHANGED <<nextSeq, listed>>
    BY <1>4, HolderOnly DEF Shape, index
  <2>2. QED
    BY <1>1, <1>2, <1>3, <2>1 DEF ReadOf, At
<1>5. CASE proc[q].pc \notin Mutating
  BY <1>1, <1>3, <1>5 DEF ReadOf, At, Mutating
<1>6. QED
  BY <1>4, <1>5

LEMMA OneIsFine ==
    ASSUME Shape, NEW p \in Procs, Does(p)
    PROVE  TodosOf(p)' /\ OpsOf(p)' /\ ReadOf(p)'
<1>0. TypeOK' /\ TypeOK /\ Todos
  BY TypesKept DEF Shape
<1>1. TodosOf(p) /\ OpsOf(p) /\ ReadOf(p) /\ proc[p] \in Proc /\ listed \in Index
  BY Apart DEF Shape, TypeOK
<1>2. ASSUME NEW pc \in {"ready", "closed"}, Leave(p, pc)
      PROVE  TodosOf(p)' /\ OpsOf(p)' /\ ReadOf(p)'
  <2>1. proc'[p].pc \notin Mutating /\ proc'[p].op = None
    BY <1>0, <1>2, LeaveOne, BetweenTyped DEF Mutating, Swapping
  <2>2. QED
    BY <1>0, <2>1, IdleIsFine
<1>3. CASE Opens(p)
  BY <1>0, <1>1, <1>3, OpensOne DEF Opening, TodosOf, OpsOf, ReadOf, At, Swapping
<1>4. CASE Uses(p)
  BY <1>0, <1>1, <1>4, UsesOne DEF TodosOf, OpsOf, ReadOf, At, index
<1>5. CASE BeginSnapshot(p)
  <2>1. PICK label \in Labels : proc' = [proc EXCEPT ![p] = Reading(p, "snapshot", label)]
    BY <1>5 DEF BeginSnapshot
  <2>2. proc'[p] = Reading(p, "snapshot", label)
    BY <1>0, <2>1 DEF TypeOK
  <2>3. /\ proc'[p].pc = "ingest" /\ proc'[p].op = "snapshot" /\ proc'[p].seq = nextSeq
        /\ proc'[p].label = label /\ proc'[p].was = listed /\ proc'[p].todo = Present(current)
    BY <1>0, <1>5, <2>2, ReadingTyped DEF BeginSnapshot
  <2>4. UNCHANGED <<nextSeq, listed>> /\ nextSeq < MaxSeq /\ label # None
    BY <1>5, VolumeAssumption DEF BeginSnapshot, index
  <2>5. Present(current) \subseteq Files
    BY DEF Present
  <2>6. QED
    BY <2>3, <2>4, <2>5 DEF TodosOf, OpsOf, ReadOf, At, Swapping
<1>6. CASE BeginSafety(p)
  <2>1. proc'[p] = Reading(p, "restore", Safety)
    BY <1>0, <1>6 DEF TypeOK, BeginSafety
  <2>2. /\ proc'[p].pc = "ingest" /\ proc'[p].op = "restore" /\ proc'[p].seq = nextSeq
        /\ proc'[p].label = Safety /\ proc'[p].was = listed /\ proc'[p].todo = Present(current)
    BY <1>0, <1>6, <2>1, ReadingTyped DEF BeginSafety
  <2>3. UNCHANGED <<nextSeq, listed>> /\ nextSeq < MaxSeq /\ Safety # None
    BY <1>6, VolumeAssumption DEF BeginSafety, index
  <2>4. Present(current) \subseteq Files
    BY DEF Present
  <2>5. QED
    BY <2>2, <2>3, <2>4 DEF TodosOf, OpsOf, ReadOf, At, Swapping
<1>7. CASE Ingest(p)
  <2>1. /\ proc'[p].pc = "ingest" /\ proc'[p].op = proc[p].op /\ proc'[p].seq = proc[p].seq
        /\ proc'[p].label = proc[p].label /\ proc'[p].was = proc[p].was
        /\ proc'[p].todo \subseteq proc[p].todo
    BY <1>0, <1>7, IngestOne
  <2>2. At(p, "ingest") /\ UNCHANGED <<nextSeq, listed>>
    BY <1>7 DEF Ingest
  <2>3. QED
    BY <1>1, <2>1, <2>2 DEF TodosOf, OpsOf, ReadOf, At, Swapping
<1>8. CASE WriteManifest(p)
  <2>1. /\ proc'[p].pc = "index" /\ proc'[p].op = proc[p].op /\ proc'[p].seq = proc[p].seq
        /\ proc'[p].label = proc[p].label /\ proc'[p].was = proc[p].was
    BY <1>0, <1>8, GotoOne DEF WriteManifest, Mutating
  <2>2. At(p, "ingest") /\ UNCHANGED <<nextSeq, listed>>
    BY <1>8 DEF WriteManifest
  <2>3. QED
    BY <1>1, <2>1, <2>2 DEF TodosOf, OpsOf, ReadOf, At, Swapping
<1>9. CASE WriteIndex(p)
  <2>1. CASE Leave(p, "ready")
    BY <1>2, <2>1
  <2>2. CASE Goto(p, "stage") /\ proc[p].op # "snapshot"
    <3>1. proc'[p].pc = "stage" /\ proc'[p].op = proc[p].op
      BY <1>0, <2>2, GotoOne DEF Mutating, Swapping
    <3>2. proc[p].op = "restore"
      BY <1>1, <1>9, <2>2 DEF OpsOf, WriteIndex, At
    <3>3. QED
      BY <3>1, <3>2 DEF TodosOf, OpsOf, ReadOf, At, Swapping
  <2>3. QED
    BY <1>9, <2>1, <2>2 DEF WriteIndex
<1>10. CASE BeginRestore(p)
  BY <1>0, <1>10, BeginRestoreOne DEF TodosOf, OpsOf, ReadOf, At, Swapping
<1>11. CASE Stage(p)
  BY <1>0, <1>1, <1>11, StageOne DEF Stage, TodosOf, OpsOf, ReadOf, At, Swapping
<1>12. CASE CopyOut(p)
  BY <1>0, <1>1, <1>12, CopyOutOne DEF CopyOut, TodosOf, OpsOf, ReadOf, At, Swapping
<1>13. CASE SwapOut(p) \/ SwapIn(p)
  <2>1. /\ proc'[p].pc \in {"swapIn", "clean"} /\ proc'[p].op = proc[p].op
        /\ proc[p].pc \in {"copy", "swapIn"}
    BY <1>0, <1>13, GotoOne DEF SwapOut, SwapIn, At, Mutating, Swapping
  <2>2. QED
    BY <1>1, <2>1 DEF TodosOf, OpsOf, ReadOf, At, Swapping
<1>14. CASE Clean(p) \/ Fail(p) \/ Crash(p)
  BY <1>2, <1>14 DEF Clean, Fail, Crash
<1>15. CASE BeginPrune(p)
  <2>1. UNCHANGED <<nextSeq, listed>>
    BY <1>15 DEF BeginPrune, index
  <2>2. QED
    BY <1>0, <1>15, <2>1, BeginPruneOne, VolumeAssumption DEF TodosOf, OpsOf, ReadOf, At, Swapping
<1>16. CASE Unlist(p)
  <2>1. PICK i \in Ids : /\ proc'[p].todo = proc[p].todo \ {i}
                         /\ proc'[p].was = [proc[p].was EXCEPT ![i] = None]
    BY <1>0, <1>16, UnlistOne
  <2>2. /\ proc'[p].pc = "unlist" /\ proc'[p].op = proc[p].op /\ proc'[p].seq = proc[p].seq
    BY <1>0, <1>16, UnlistOne
  <2>3. UNCHANGED <<nextSeq, listed>> /\ At(p, "unlist") /\ proc[p].was \in Index
    BY <1>1, <1>16 DEF Unlist, Proc
  <2>4. \A j \in Ids : proc'[p].was[j] \in {listed[j], None}
    BY <1>1, <2>1, <2>3 DEF ReadOf, Index
  <2>5. TodosOf(p)' /\ OpsOf(p)'
    BY <1>1, <2>1, <2>2, <2>3 DEF TodosOf, OpsOf, At, Swapping
  <2>6. ReadOf(p)'
    BY <1>1, <2>2, <2>3, <2>4 DEF ReadOf, At
  <2>7. QED
    BY <2>5, <2>6
<1>17. CASE Reindex(p)
  BY <1>0, <1>1, <1>17, ReindexOne DEF Reindex, TodosOf, OpsOf, ReadOf, At, Swapping
<1>18. CASE Collect(p)
  <2>1. CASE proc[p].todo = {}
    BY <1>2, <1>18, <2>1 DEF Collect
  <2>2. CASE proc[p].todo # {}
    BY <1>0, <1>1, <1>18, <2>2, CollectOne DEF Collect, TodosOf, OpsOf, ReadOf, At, Swapping
  <2>3. QED
    BY <2>1, <2>2
<1>19. QED
  BY <1>3, <1>4, <1>5, <1>6, <1>7, <1>8, <1>9, <1>10, <1>11, <1>12, <1>13, <1>14, <1>15, <1>16,
     <1>17, <1>18 DEF Does, Snapshots, Restores, Prunes

LEMMA NumbersStayAhead ==
    ASSUME Shape, NEW p \in Procs, Does(p)
    PROVE  NumbersAhead'
<1>0. /\ NumbersAhead /\ nextSeq \in Nat /\ listed \in Index /\ ReadOf(p) /\ TypeOK
      /\ \A i \in Ids : i \in Int
  BY Apart, VolumeAssumption DEF Shape, TypeOK, Ids
<1>1. CASE UNCHANGED <<nextSeq, listed>>
  BY <1>0, <1>1 DEF NumbersAhead
<1>2. CASE WriteIndex(p)
  <2>1. listed' = [listed EXCEPT ![nextSeq] = proc[p].label] /\ nextSeq' = nextSeq + 1
    BY <1>0, <1>2 DEF WriteIndex, Indexed, ReadOf, At
  <2>2. \A i \in Ids : listed'[i] # None => i < nextSeq'
    BY <1>0, <2>1 DEF NumbersAhead, Index
  <2>3. QED
    BY <2>2 DEF NumbersAhead
<1>3. CASE Reindex(p)
  <2>1. nextSeq' = nextSeq /\ \A i \in Ids : listed'[i] \in {listed[i], None}
    BY <1>0, <1>3 DEF Reindex, ReadOf, At
  <2>2. QED
    BY <1>0, <2>1 DEF NumbersAhead
<1>4. QED
  BY <1>1, <1>2, <1>3, IndexTouched DEF index, Ingest, WriteManifest, Unlist, Collect

LEMMA ShapeInit == Init => Shape
<1> SUFFICES ASSUME Init PROVE Shape
  OBVIOUS
<1>1. \A p \in Procs : proc[p] = Between("closed") /\ proc[p] \in Proc
  BY BetweenTyped DEF Init
<1>2. Empty \in Trees /\ [i \in Ids |-> None] \in Index
  BY DEF Empty, Trees, Index
<1>3. \A p \in Procs : proc[p].pc = "closed" /\ proc[p].op = None
  BY <1>1, BetweenTyped
<1>4. TypeOK
  <2>1. proc \in [Procs -> Proc]
    BY <1>1 DEF Init
  <2>2. \A p \in Procs : proc[p].pc \in Mutating <=> mutator = p
    BY <1>3, VolumeAssumption DEF Init, Mutating, Swapping
  <2>3. manifests \in [Ids -> Trees \cup {None}] /\ listed \in Index /\ nextSeq \in 0 .. MaxSeq
    BY <1>2, VolumeAssumption DEF Init
  <2>4. /\ {current, staging, retired} \subseteq Trees \cup {None} /\ blobs \subseteq Contents
        /\ mutator \in Procs \cup {None} /\ guest \in Procs \cup {None}
        /\ versions \subseteq Trees /\ raced \in BOOLEAN /\ late \in BOOLEAN
    BY <1>2 DEF Init
  <2>5. QED
    BY <2>1, <2>2, <2>3, <2>4 DEF TypeOK
<1>5. \A p \in Procs : TodosOf(p) /\ OpsOf(p) /\ ReadOf(p)
  BY <1>3, VolumeAssumption DEF TodosOf, OpsOf, ReadOf, At, Swapping
<1>6. NumbersAhead
  BY DEF Init, NumbersAhead
<1>7. QED
  BY <1>4, <1>5, <1>6, Apart DEF Shape

LEMMA ShapeStep ==
    ASSUME Shape, NEW p \in Procs, Does(p)
    PROVE  Shape'
<1>1. \A q \in Procs : TodosOf(q)' /\ OpsOf(q)' /\ ReadOf(q)'
  BY OthersFine, OneIsFine
<1>2. Todos' /\ Ops' /\ IndexAsRead'
  BY <1>1 DEF Todos, TodosOf, Ops, OpsOf, IndexAsRead, ReadOf
<1>3. QED
  BY <1>2, TypesKept, NumbersStayAhead DEF Shape

LEMMA NextIsSomebodys == Next => \E p \in Procs : Does(p)
BY DEF Next, Does

LEMMA ShapeStutters ==
    ASSUME Shape, UNCHANGED vars
    PROVE  Shape'
BY DEF Shape, TypeOK, Todos, Ops, IndexAsRead, NumbersAhead, At, vars

\* What is known of the disk and of the processes always has its shape: the type
\* correctness of Volume, with what keeps the index in step with its readers.
LEMMA ShapeHolds == Spec => []Shape
<1>1. Shape /\ [Next]_vars => Shape'
  BY ShapeStep, ShapeStutters, NextIsSomebodys
<1>2. QED
  BY <1>1, ShapeInit, PTL DEF Spec

-----------------------------------------------------------------------------
(***************************************************************************)
(* Snapshots.                                                              *)
(***************************************************************************)

\* What a snapshot has copied is in the blob store, its manifest says what it
\* copied, and what a prune collects no listed snapshot needs.
BytesOf(p) ==
    /\ proc[p].pc \in {"ingest", "index"} => Held(proc[p].tree) \subseteq blobs
    /\ At(p, "index") => manifests[proc[p].seq] = proc[p].tree
    /\ At(p, "collect") =>
          \A i \in Ids : listed[i] # None /\ manifests[i] # None =>
              Held(manifests[i]) \cap proc[p].todo = {}

BytesInv == Shape /\ SnapshotsKeepTheirBytes /\ \A p \in Procs : BytesOf(p)

LEMMA HeldEmpty == Held(Empty) = {}
BY DEF Held, Present, Empty

\* A file more in the tree is a content more that it holds.
LEMMA HeldMore ==
    ASSUME NEW t \in Trees, NEW f \in Files, NEW c
    PROVE  Held([t EXCEPT ![f] = c]) \subseteq Held(t) \cup {c}
BY DEF Held, Present, Trees

LEMMA BytesStep ==
    ASSUME BytesInv, NEW p \in Procs, Does(p)
    PROVE  SnapshotsKeepTheirBytes'
<1>0. /\ Shape /\ TypeOK /\ Todos /\ BytesOf(p) /\ ReadOf(p) /\ SnapshotsKeepTheirBytes
      /\ NumbersAhead /\ nextSeq \in Nat /\ listed \in Index /\ proc[p] \in Proc
      /\ manifests \in [Ids -> Trees \cup {None}]
      /\ \A i \in Ids : i \in Int
  BY Apart, VolumeAssumption DEF BytesInv, Shape, TypeOK, Ids
<1>1. CASE UNCHANGED index
  BY <1>0, <1>1 DEF SnapshotsKeepTheirBytes, index
<1>2. CASE Ingest(p)
  <2>1. blobs \subseteq blobs' /\ UNCHANGED <<listed, manifests>>
    BY <1>2 DEF Ingest
  <2>2. QED
    BY <1>0, <2>1 DEF SnapshotsKeepTheirBytes
<1>3. CASE WriteManifest(p)
  <2>1. proc[p].seq = nextSeq /\ UNCHANGED <<listed, blobs>>
    BY <1>0, <1>3 DEF WriteManifest, ReadOf, At
  <2>2. \A i \in Ids : listed[i] # None => i # nextSeq
    BY <1>0 DEF NumbersAhead
  <2>3. \A i \in Ids : listed[i] # None => manifests'[i] = manifests[i]
    BY <1>0, <1>3, <2>1, <2>2 DEF WriteManifest
  <2>4. QED
    BY <1>0, <2>1, <2>3 DEF SnapshotsKeepTheirBytes
<1>4. CASE WriteIndex(p)
  <2>1. /\ listed' = [listed EXCEPT ![nextSeq] = proc[p].label]
        /\ manifests[nextSeq] = proc[p].tree
        /\ Held(proc[p].tree) \subseteq blobs
        /\ UNCHANGED <<manifests, blobs>>
    BY <1>0, <1>4 DEF WriteIndex, Indexed, ReadOf, BytesOf, At
  <2>2. \A i \in Ids : i # nextSeq => listed'[i] = listed[i]
    BY <1>0, <2>1 DEF Index
  <2>3. QED
    BY <1>0, <2>1, <2>2 DEF SnapshotsKeepTheirBytes
<1>5. CASE Unlist(p)
  <2>1. PICK i \in Ids : manifests' = [manifests EXCEPT ![i] = None]
    BY <1>0, <1>5, UnlistOne
  <2>2. UNCHANGED <<listed, blobs>>
    BY <1>5 DEF Unlist
  <2>3. \A j \in Ids : manifests'[j] # None => manifests'[j] = manifests[j]
    BY <1>0, <2>1
  <2>4. QED
    BY <1>0, <2>2, <2>3 DEF SnapshotsKeepTheirBytes
<1>6. CASE Reindex(p)
  <2>1. \A i \in Ids : listed'[i] # None => listed[i] # None
    BY <1>0, <1>6 DEF Reindex, ReadOf, At
  <2>2. UNCHANGED <<manifests, blobs>>
    BY <1>6 DEF Reindex
  <2>3. QED
    BY <1>0, <2>1, <2>2 DEF SnapshotsKeepTheirBytes
<1>7. CASE Collect(p)
  <2>1. UNCHANGED <<listed, manifests>>
    BY <1>7 DEF Collect
  <2>2. CASE proc[p].todo = {}
    BY <1>0, <1>7, <2>1, <2>2 DEF Collect, SnapshotsKeepTheirBytes
  <2>3. CASE proc[p].todo # {}
    <3>1. PICK c \in proc[p].todo : blobs' = blobs \ {c}
      BY <1>0, <1>7, <2>3, CollectOne
    <3>2. \A i \in Ids : listed[i] # None /\ manifests[i] # None => c \notin Held(manifests[i])
      BY <1>0, <1>7 DEF BytesOf, Collect
    <3>3. QED
      BY <1>0, <2>1, <3>1, <3>2 DEF SnapshotsKeepTheirBytes
  <2>4. QED
    BY <2>2, <2>3
<1>8. QED
  BY <1>1, <1>2, <1>3, <1>4, <1>5, <1>6, <1>7, IndexTouched

LEMMA BytesOfOthers ==
    ASSUME BytesInv, NEW p \in Procs, Does(p), NEW q \in Procs \ {p}
    PROVE  BytesOf(q)'
<1>1. proc'[q] = proc[q] /\ BytesOf(q)
  BY AlwaysMoves DEF Moves, BytesInv, Shape
<1>2. CASE proc[q].pc \in Mutating
  <2>1. UNCHANGED index
    BY <1>2, HolderOnly DEF BytesInv, Shape
  <2>2. QED
    BY <1>1, <2>1 DEF BytesOf, At, index
<1>3. CASE proc[q].pc \notin Mutating
  BY <1>1, <1>3 DEF BytesOf, At, Mutating
<1>4. QED
  BY <1>2, <1>3

LEMMA BytesOfOne ==
    ASSUME BytesInv, NEW p \in Procs, Does(p)
    PROVE  BytesOf(p)'
<1>0. /\ Shape /\ TypeOK /\ Todos /\ BytesOf(p) /\ proc[p] \in Proc
      /\ manifests \in [Ids -> Trees \cup {None}]
  BY DEF BytesInv, Shape, TypeOK
<1>1. CASE proc'[p].pc \notin {"ingest", "index", "collect"}
  BY <1>1 DEF BytesOf, At
<1>2. CASE Opens(p)
  BY <1>0, <1>1, <1>2, OpensOne DEF Opening
<1>3. CASE Uses(p)
  BY <1>0, <1>3, UsesOne DEF BytesOf, At, index
<1>4. CASE BeginSnapshot(p)
  <2>1. PICK label \in Labels : proc' = [proc EXCEPT ![p] = Reading(p, "snapshot", label)]
    BY <1>4 DEF BeginSnapshot
  <2>2. proc'[p] = Reading(p, "snapshot", label)
    BY <1>0, <2>1 DEF TypeOK
  <2>3. proc'[p].pc = "ingest" /\ proc'[p].tree = Empty
    BY <1>0, <1>4, <2>2, ReadingTyped DEF BeginSnapshot
  <2>4. QED
    BY <2>3, HeldEmpty DEF BytesOf, At
<1>5. CASE BeginSafety(p)
  <2>1. proc'[p] = Reading(p, "restore", Safety)
    BY <1>0, <1>5 DEF TypeOK, BeginSafety
  <2>2. proc'[p].pc = "ingest" /\ proc'[p].tree = Empty
    BY <1>0, <1>5, <2>1, ReadingTyped DEF BeginSafety
  <2>3. QED
    BY <2>2, HeldEmpty DEF BytesOf, At
<1>6. CASE Ingest(p)
  <2>1. Held(proc[p].tree) \subseteq blobs /\ proc[p].tree \in Trees
    BY <1>0, <1>6 DEF BytesOf, Ingest, At, Proc
  <2>2. proc'[p].pc = "ingest"
    BY <1>0, <1>6, IngestOne
  <2>3. PICK f \in proc[p].todo :
                /\ f \in Files
                /\ \/ /\ blobs' = blobs
                      /\ proc'[p].tree = proc[p].tree
                   \/ /\ blobs' = blobs \cup {current[f]}
                      /\ proc'[p].tree = [proc[p].tree EXCEPT ![f] = current[f]]
    BY <1>0, <1>6, IngestOne
  <2>4. Held(proc'[p].tree) \subseteq blobs'
    BY <2>1, <2>3, HeldMore
  <2>5. QED
    BY <2>2, <2>4 DEF BytesOf, At
<1>7. CASE WriteManifest(p)
  <2>1. /\ proc'[p].pc = "index" /\ proc'[p].seq = proc[p].seq /\ proc'[p].tree = proc[p].tree
        /\ Held(proc[p].tree) \subseteq blobs /\ UNCHANGED blobs
    BY <1>0, <1>7, GotoOne DEF WriteManifest, Mutating, BytesOf, At
  <2>2. proc[p].seq \in Ids
    BY <1>0, <1>7, Apart, VolumeAssumption DEF Shape, ReadOf, WriteManifest, At, TypeOK, Ids
  <2>3. manifests'[proc[p].seq] = proc[p].tree
    BY <1>0, <1>7, <2>2 DEF WriteManifest
  <2>4. QED
    BY <2>1, <2>3 DEF BytesOf, At
<1>8. CASE WriteIndex(p)
  <2>1. proc'[p].pc \in {"ready", "stage"}
    BY <1>0, <1>8, GotoOne, LeaveOne, BetweenTyped DEF WriteIndex, Mutating, Swapping
  <2>2. QED
    BY <1>1, <2>1
<1>9. CASE Restores(p) /\ ~BeginSafety(p)
  <2>1. CASE SwapOut(p) \/ SwapIn(p)
    <3>1. Goto(p, "swapIn") \/ Goto(p, "clean")
      BY <2>1 DEF SwapOut, SwapIn
    <3>2. proc'[p].pc \in {"swapIn", "clean"}
      BY <1>0, <3>1, GotoOne DEF Mutating, Swapping
    <3>3. QED
      BY <1>1, <3>2
  <2>2. CASE Clean(p)
    BY <1>0, <1>1, <2>2, LeaveOne, BetweenTyped DEF Clean
  <2>3. QED
    BY <1>0, <1>1, <1>9, <2>1, <2>2, BeginRestoreOne, StageOne, CopyOutOne DEF Restores
<1>10. CASE BeginPrune(p) \/ Unlist(p)
  BY <1>0, <1>1, <1>10, BeginPruneOne, UnlistOne
<1>11. CASE Reindex(p)
  <2>1. /\ proc'[p].pc = "collect" /\ proc'[p].todo = blobs \ Live(proc[p].was)
        /\ listed' = proc[p].was /\ UNCHANGED manifests
    BY <1>0, <1>11, ReindexOne DEF Reindex
  <2>2. \A i \in Ids : listed'[i] # None /\ manifests'[i] # None =>
            Held(manifests'[i]) \subseteq Live(proc[p].was)
    BY <2>1 DEF Live
  <2>3. QED
    BY <2>1, <2>2 DEF BytesOf, At
<1>12. CASE Collect(p)
  <2>1. CASE proc[p].todo = {}
    BY <1>0, <1>1, <1>12, <2>1, LeaveOne, BetweenTyped DEF Collect
  <2>2. CASE proc[p].todo # {}
    <3>1. proc'[p].pc = "collect" /\ proc'[p].todo \subseteq proc[p].todo
      BY <1>0, <1>12, <2>2, CollectOne
    <3>2. At(p, "collect") /\ UNCHANGED <<listed, manifests>>
      BY <1>12 DEF Collect
    <3>3. QED
      BY <1>0, <3>1, <3>2 DEF BytesOf, At
  <2>3. QED
    BY <2>1, <2>2
<1>13. CASE Fail(p) \/ Crash(p)
  BY <1>0, <1>1, <1>13, LeaveOne, BetweenTyped DEF Fail, Crash
<1>14. QED
  BY <1>2, <1>3, <1>4, <1>5, <1>6, <1>7, <1>8, <1>9, <1>10, <1>11, <1>12, <1>13
     DEF Does, Snapshots, Restores, Prunes

LEMMA BytesInit == Init => BytesInv
<1> SUFFICES ASSUME Init PROVE BytesInv
  OBVIOUS
<1>1. \A p \in Procs : proc[p].pc = "closed"
  BY BetweenTyped DEF Init
<1>2. \A p \in Procs : BytesOf(p)
  BY <1>1 DEF BytesOf, At
<1>3. SnapshotsKeepTheirBytes
  BY DEF Init, SnapshotsKeepTheirBytes
<1>4. QED
  BY <1>2, <1>3, ShapeInit DEF BytesInv

LEMMA BytesNext == BytesInv /\ [Next]_vars => BytesInv'
<1> SUFFICES ASSUME BytesInv, [Next]_vars PROVE BytesInv'
  OBVIOUS
<1>1. CASE Next
  <2>1. PICK p \in Procs : Does(p)
    BY <1>1, NextIsSomebodys
  <2>2. \A q \in Procs : BytesOf(q)'
    BY <2>1, BytesOfOthers, BytesOfOne
  <2>3. QED
    BY <2>1, <2>2, BytesStep, ShapeStep DEF BytesInv
<1>2. CASE UNCHANGED vars
  BY <1>2, ShapeStutters DEF BytesInv, SnapshotsKeepTheirBytes, BytesOf, At, vars
<1>3. QED
  BY <1>1, <1>2

\* A listed snapshot is never overwritten, whoever crashes between writing a
\* manifest and counting it: the number a snapshot takes is nobody's
\* (write_meta, snapshot_locked, prune_where).
THEOREM ListedSnapshotsStay == Spec => SnapshotsNeverChange
<1>1. ASSUME Shape, NEW p \in Procs, Does(p) PROVE ManifestsKept
  <2>0. /\ TypeOK /\ Todos /\ ReadOf(p) /\ NumbersAhead /\ nextSeq \in Nat
        /\ manifests \in [Ids -> Trees \cup {None}]
        /\ \A i \in Ids : i \in Int
    BY <1>1, Apart, VolumeAssumption DEF Shape, TypeOK, Ids
  <2>1. CASE WriteManifest(p)
    <3>1. proc[p].seq = nextSeq
      BY <2>0, <2>1 DEF WriteManifest, ReadOf, At
    <3>2. \A i \in Ids : listed[i] # None => i # nextSeq
      BY <2>0 DEF NumbersAhead
    <3>3. QED
      BY <2>0, <2>1, <3>1, <3>2 DEF WriteManifest, ManifestsKept
  <2>2. CASE Unlist(p)
    <3>1. PICK i \in Ids : manifests' = [manifests EXCEPT ![i] = None]
      BY <2>0, <2>2, UnlistOne
    <3>2. QED
      BY <2>0, <3>1 DEF ManifestsKept
  <2>3. CASE UNCHANGED manifests
    BY <2>3 DEF ManifestsKept
  <2>4. QED
    BY <1>1, <2>1, <2>2, <2>3, IndexTouched DEF index, Ingest, WriteIndex, Reindex, Collect
<1>2. Shape /\ [Next]_vars => [ManifestsKept]_vars
  BY <1>1, NextIsSomebodys
<1>3. QED
  BY <1>2, ShapeHolds, PTL DEF Spec, SnapshotsNeverChange

-----------------------------------------------------------------------------
(***************************************************************************)
(* Restores.                                                               *)
(***************************************************************************)

\* What a restore has done so far.  No guest is about, so the workspace is what
\* the safety snapshot holds of it; what is staged is what is restored, unless
\* somebody opened the volume; and the version it puts in place is expected.
SavingOf(p) ==
    ~late =>
        /\ guest = None
        /\ At(p, "ingest") =>
              /\ proc[p].todo \subseteq Present(current)
              /\ \A f \in Files : f \in proc[p].todo \/ proc[p].tree[f] = current[f]
        /\ At(p, "index") => proc[p].tree = current
        /\ proc[p].pc \in {"stage", "copy"} =>
              \E i \in Ids : listed[i] # None /\ manifests[i] = current

StagingOf(p) ==
    ~raced =>
        /\ At(p, "copy") =>
              /\ staging # None
              /\ \A f \in Files : f \in proc[p].todo \/ staging[f] = proc[p].target[f]
        /\ At(p, "swapIn") => /\ current = None /\ retired # None
                              /\ staging = proc[p].target
        /\ At(p, "clean") => current # None

DoneOf(p) ==
    ~late /\ ~raced =>
        /\ At(p, "swapIn") => \E i \in Ids : listed[i] # None /\ manifests[i] = retired
        /\ At(p, "clean") => current = proc[p].target

StandingOf(p) ==
    /\ proc[p].pc \in {"ingest", "index", "stage", "copy"} => current # None
    /\ ~At(p, "clean") => proc[p].target \in versions

Restoring(p) == proc[p].op = "restore"

RestoreOf(p) ==
    proc[p].op = "restore" => StandingOf(p) /\ SavingOf(p) /\ StagingOf(p) /\ DoneOf(p)

\* The workspace is away only before it was first made, and between the two
\* renames of a restore: then both versions are aside, and no opening that came
\* before is still on its way.
Fresh   == staging = None /\ retired = None /\ Empty \in versions
Halfway == /\ staging \in versions /\ retired # None
           /\ \A p \in Procs : proc[p].pc \notin Opening \ {"adopt"}

WholeInv == ~raced => IF current = None THEN Fresh \/ Halfway ELSE current \in versions

RestoreInv == BytesInv /\ WholeInv /\ \A p \in Procs : RestoreOf(p)

\* What an opening does to the directories: nothing while there is a workspace,
\* and nothing unnoticed in the middle of a restore.
LEMMA OpensDirs ==
    ASSUME TypeOK, NEW p \in Procs, Opens(p)
    PROVE  /\ current # None => current' = current
           /\ ~raced' => ~raced
           /\ UNCHANGED <<late, guest>>
           /\ \A q \in Procs \ {p} : proc[q].pc \in Swapping /\ ~raced' =>
                                        UNCHANGED <<current, staging, retired>>
           /\ versions' = versions \/ Pending \subseteq versions'
<1>1. CASE Open(p)
  BY <1>1 DEF Open, dirs, locks, ghost
<1>2. CASE Adopt(p)
  BY <1>2 DEF Adopt, OpenStep, locks
<1>3. CASE PutBack(p)
  BY <1>3 DEF PutBack, OpenStep, locks
<1>4. CASE DropOld(p) \/ DropNew(p)
  BY <1>4 DEF DropOld, DropNew, OpenStep, locks
<1>5. CASE Make(p)
  BY <1>5 DEF Make, OpenStep, locks
<1>6. QED
  BY <1>1, <1>2, <1>3, <1>4, <1>5 DEF Opens

LEMMA AwaitedVersion ==
    ASSUME NEW q \in Procs, proc[q].op = "restore", ~At(q, "clean")
    PROVE  proc[q].target \in Pending
BY DEF Pending, At

\* A restore under way is not troubled by others: by an opening,
LEMMA RestoreStandsOpens ==
    ASSUME RestoreInv, NEW p \in Procs, Opens(p), NEW q \in Procs \ {p}
    PROVE  RestoreOf(q)'
<1> SUFFICES ASSUME proc'[q].op = "restore"
             PROVE  (StandingOf(q) /\ SavingOf(q) /\ StagingOf(q) /\ DoneOf(q))'
  BY DEF RestoreOf
<1>1. TypeOK /\ Ops /\ RestoreOf(q)
  BY DEF RestoreInv, BytesInv, Shape
<1>2. /\ proc'[q] = proc[q] /\ UNCHANGED <<nextSeq, listed, manifests>>
      /\ UNCHANGED <<late, guest>> /\ (~raced' => ~raced)
      /\ current # None => current' = current
      /\ \A r \in Procs \ {p} : proc[r].pc \in Swapping /\ ~raced' =>
                                        UNCHANGED <<current, staging, retired>>
      /\ versions' = versions \/ Pending \subseteq versions'
  BY <1>1, OpensOne, OpensDirs DEF Moves, index
<1>3. StandingOf(q) /\ SavingOf(q) /\ StagingOf(q) /\ DoneOf(q)
  BY <1>1, <1>2 DEF RestoreOf
<1>4. StandingOf(q)'
  BY <1>2, <1>3, AwaitedVersion DEF StandingOf, At
<1>5. SavingOf(q)'
  BY <1>2, <1>3 DEF SavingOf, StandingOf, At
<1>6. StagingOf(q)' /\ DoneOf(q)'
  BY <1>2, <1>3 DEF StagingOf, DoneOf, At, Swapping
<1>7. QED
  BY <1>4, <1>5, <1>6

\* by a guest,
LEMMA RestoreStandsUses ==
    ASSUME RestoreInv, NEW p \in Procs, Uses(p), NEW q \in Procs
    PROVE  RestoreOf(q)'
<1> SUFFICES ASSUME proc'[q].op = "restore"
             PROVE  (StandingOf(q) /\ SavingOf(q) /\ StagingOf(q) /\ DoneOf(q))'
  BY DEF RestoreOf
<1>1. TypeOK /\ RestoreOf(q)
  BY DEF RestoreInv, BytesInv, Shape
<1>2. UNCHANGED <<proc, nextSeq, listed, manifests, staging, retired, raced>>
  BY <1>1, UsesOne DEF index
<1>3. StandingOf(q) /\ SavingOf(q) /\ StagingOf(q) /\ DoneOf(q)
  BY <1>1, <1>2 DEF RestoreOf
<1>4. CASE Attach(p)
  <2>1. late' /\ UNCHANGED <<current, versions>>
    BY <1>2, <1>4 DEF Attach, dirs
  <2>2. QED
    BY <1>2, <1>3, <2>1 DEF StandingOf, SavingOf, StagingOf, DoneOf, At
<1>5. CASE Detach(p)
  <2>1. guest' = None /\ UNCHANGED <<current, versions, late>>
    BY <1>5 DEF Detach, dirs, ghost
  <2>2. QED
    BY <1>2, <1>3, <2>1 DEF StandingOf, SavingOf, StagingOf, DoneOf, At
<1>6. CASE Write(p)
  <2>1. guest = p /\ current # None /\ UNCHANGED late /\ Pending \subseteq versions'
    BY <1>6 DEF Write
  <2>2. late
    BY <1>3, <2>1, VolumeAssumption DEF SavingOf
  <2>3. PICK f \in Files, c \in Contents \cup {Absent} : current' = [current EXCEPT ![f] = c]
    BY <1>6 DEF Write
  <2>4. current' # None
    BY <1>1, <2>1, <2>3, NoTreeAssumption DEF TypeOK, Trees
  <2>5. StandingOf(q)'
    BY <1>2, <1>3, <2>1, <2>4, AwaitedVersion DEF StandingOf, At
  <2>6. SavingOf(q)' /\ DoneOf(q)'
    BY <2>1, <2>2 DEF SavingOf, DoneOf
  <2>7. StagingOf(q)'
    BY <1>2, <1>3, <2>1, <2>4 DEF StagingOf, At
  <2>8. QED
    BY <2>5, <2>6, <2>7
<1>7. QED
  BY <1>4, <1>5, <1>6 DEF Uses

\* or by the end of another process.
LEMMA RestoreStandsCrash ==
    ASSUME RestoreInv, NEW p \in Procs, Crash(p), NEW q \in Procs \ {p}
    PROVE  RestoreOf(q)'
<1>1. TypeOK /\ Todos /\ RestoreOf(q) /\ Does(p)
  BY DEF RestoreInv, BytesInv, Shape, Does
<1>2. proc'[q] = proc[q]
  BY <1>1, AlwaysMoves DEF Moves
<1>3. /\ guest' \in {guest, None}
      /\ UNCHANGED <<current, staging, retired, nextSeq, listed, manifests, versions, raced, late>>
  BY DEF Crash, dirs, index, ghost
<1>4. QED
  BY <1>1, <1>2, <1>3 DEF RestoreOf, StandingOf, SavingOf, StagingOf, DoneOf, At

LEMMA RestoreOfOthers ==
    ASSUME RestoreInv, NEW p \in Procs, Does(p), NEW q \in Procs \ {p}
    PROVE  RestoreOf(q)'
<1>1. TypeOK /\ Todos /\ Ops
  BY DEF RestoreInv, BytesInv, Shape
<1>2. proc'[q] = proc[q]
  BY <1>1, AlwaysMoves DEF Moves
<1>3. CASE proc[q].op = "restore"
  <2>1. proc[q].pc \in Mutating
    BY <1>1, <1>3 DEF Ops, Mutating
  <2>2. Opens(p) \/ Uses(p) \/ Crash(p)
    BY <1>1, <2>1, HolderOnly
  <2>3. QED
    BY <2>2, RestoreStandsOpens, RestoreStandsUses, RestoreStandsCrash
<1>4. CASE proc[q].op # "restore"
  BY <1>2, <1>4 DEF RestoreOf
<1>5. QED
  BY <1>3, <1>4

\* A tree is what it says of every file.
LEMMA SameTree ==
    ASSUME NEW s \in Trees, NEW t \in Trees, \A f \in Files : s[f] = t[f]
    PROVE  s = t
BY DEF Trees

LEMMA NotRestoring ==
    ASSUME NEW p \in Procs, proc'[p].op # "restore"
    PROVE  RestoreOf(p)'
BY DEF RestoreOf

\* The steps of the restore itself keep what it has done.
LEMMA RestoreOfOne ==
    ASSUME RestoreInv, NEW p \in Procs, Does(p)
    PROVE  RestoreOf(p)'
<1>0. /\ Shape /\ TypeOK /\ Todos /\ Ops /\ OpsOf(p) /\ ReadOf(p) /\ TodosOf(p) /\ BytesOf(p)
      /\ RestoreOf(p) /\ proc[p] \in Proc /\ None \notin Trees
      /\ Restoring(p) => StandingOf(p) /\ SavingOf(p) /\ StagingOf(p) /\ DoneOf(p)
  BY Apart, NoTreeAssumption DEF RestoreInv, BytesInv, Shape, TypeOK, RestoreOf, Restoring
<1>1. ASSUME NEW pc \in {"ready", "closed"}, Leave(p, pc)
      PROVE  RestoreOf(p)'
  <2>1. proc'[p].op = None
    BY <1>0, <1>1, LeaveOne, BetweenTyped
  <2>2. QED
    BY <2>1, NotRestoring, VolumeAssumption
<1>2. CASE Opens(p)
  <2>1. proc'[p].op # "restore"
    BY <1>0, <1>2, OpensOne DEF OpsOf, Opening, Swapping
  <2>2. QED
    BY <2>1, NotRestoring
<1>3. CASE Uses(p)
  BY <1>3, RestoreStandsUses
<1>4. CASE BeginSnapshot(p)
  <2>1. PICK label \in Labels : proc' = [proc EXCEPT ![p] = Reading(p, "snapshot", label)]
    BY <1>4 DEF BeginSnapshot
  <2>2. proc'[p] = Reading(p, "snapshot", label)
    BY <1>0, <2>1 DEF TypeOK
  <2>3. proc'[p].op = "snapshot"
    BY <1>0, <1>4, <2>2, ReadingTyped DEF BeginSnapshot
  <2>4. QED
    BY <2>3, NotRestoring
<1>5. CASE Ingest(p) /\ proc[p].op = "restore"
  <2>0. StandingOf(p) /\ SavingOf(p) /\ At(p, "ingest")
    BY <1>0, <1>5 DEF Restoring, Ingest
  <2>1. /\ proc'[p].pc = "ingest" /\ proc'[p].target = proc[p].target
        /\ UNCHANGED <<current, staging, retired, guest, versions, raced, late>>
    BY <1>0, <1>5, IngestOne DEF Ingest, dirs, locks, ghost
  <2>2. StandingOf(p)' /\ StagingOf(p)' /\ DoneOf(p)'
    BY <2>0, <2>1 DEF StandingOf, StagingOf, DoneOf, At
  <2>3. ASSUME ~late
        PROVE  /\ proc'[p].todo \subseteq Present(current)
               /\ \A f \in Files : f \in proc'[p].todo \/ proc'[p].tree[f] = current[f]
    <3>1. /\ proc[p].todo \subseteq Present(current) /\ current # None
          /\ \A f \in Files : f \in proc[p].todo \/ proc[p].tree[f] = current[f]
      BY <2>0, <2>3 DEF StandingOf, SavingOf, At
    <3>2. PICK f \in proc[p].todo :
            /\ f \in Files
            /\ proc'[p].todo = proc[p].todo \ {f}
            /\ \/ current = None \/ current[f] = Absent
               \/ proc'[p].tree = [proc[p].tree EXCEPT ![f] = current[f]]
      BY <1>0, <1>5, IngestOne
    <3>3. proc'[p].tree = [proc[p].tree EXCEPT ![f] = current[f]]
      BY <3>1, <3>2 DEF Present
    <3>4. proc[p].tree \in Trees
      BY <1>0 DEF Proc
    <3>5. \A g \in Files : g \in proc'[p].todo \/ proc'[p].tree[g] = current[g]
      BY <3>1, <3>2, <3>3, <3>4 DEF Trees
    <3>6. QED
      BY <3>1, <3>2, <3>5
  <2>4. SavingOf(p)'
    <3>1. Present(current)' = Present(current)
      BY <2>1 DEF Present
    <3>2. QED
      BY <2>0, <2>1, <2>3, <3>1 DEF SavingOf, At
  <2>5. QED
    BY <2>2, <2>4 DEF RestoreOf
<1>6. CASE WriteManifest(p) /\ proc[p].op = "restore"
  <2>0. StandingOf(p) /\ SavingOf(p) /\ At(p, "ingest") /\ proc[p].todo = {}
    BY <1>0, <1>6 DEF Restoring, WriteManifest
  <2>1. /\ proc'[p].pc = "index" /\ proc'[p].target = proc[p].target
        /\ proc'[p].tree = proc[p].tree
        /\ UNCHANGED <<current, staging, retired, guest, versions, raced, late>>
    BY <1>0, <1>6, GotoOne DEF WriteManifest, Mutating, dirs, locks, ghost
  <2>2. StandingOf(p)' /\ StagingOf(p)' /\ DoneOf(p)'
    BY <2>0, <2>1 DEF StandingOf, StagingOf, DoneOf, At
  <2>3. ASSUME ~late PROVE proc[p].tree = current
    <3>1. \A f \in Files : proc[p].tree[f] = current[f]
      BY <2>0, <2>3 DEF SavingOf
    <3>2. proc[p].tree \in Trees /\ current \in Trees
      BY <1>0, <2>0 DEF Proc, TypeOK, StandingOf, At
    <3>3. QED
      BY <3>1, <3>2, SameTree
  <2>4. SavingOf(p)'
    BY <2>0, <2>1, <2>3 DEF SavingOf, At
  <2>5. QED
    BY <2>2, <2>4 DEF RestoreOf
<1>7. CASE (Ingest(p) \/ WriteManifest(p)) /\ proc[p].op # "restore"
  <2>1. proc'[p].op = proc[p].op
    BY <1>0, <1>7, IngestOne, GotoOne DEF WriteManifest, Mutating
  <2>2. QED
    BY <1>7, <2>1, NotRestoring
<1>8. CASE WriteIndex(p)
  <2>1. CASE Leave(p, "ready")
    BY <1>1, <2>1
  <2>2. CASE Goto(p, "stage") /\ proc[p].op # "snapshot"
    <3>0. StandingOf(p) /\ SavingOf(p) /\ At(p, "index")
      BY <1>0, <1>8, <2>2 DEF OpsOf, WriteIndex, At, Restoring
    <3>1. /\ proc'[p].pc = "stage" /\ proc'[p].target = proc[p].target
          /\ UNCHANGED <<current, staging, retired, guest, versions, raced, late, manifests>>
      BY <1>0, <1>8, <2>2, GotoOne DEF WriteIndex, Mutating, Swapping, dirs, ghost
    <3>2. StandingOf(p)' /\ StagingOf(p)' /\ DoneOf(p)'
      BY <3>0, <3>1 DEF StandingOf, StagingOf, DoneOf, At
    <3>3. ASSUME ~late
          PROVE  \E i \in Ids : listed'[i] # None /\ manifests[i] = current
      <4>1. /\ listed' = [listed EXCEPT ![nextSeq] = proc[p].label]
            /\ proc[p].label # None /\ nextSeq \in Ids
            /\ manifests[nextSeq] = proc[p].tree
        BY <1>0, <1>8, <3>0, VolumeAssumption DEF WriteIndex, Indexed, ReadOf, BytesOf, At, TypeOK, Ids
      <4>2. listed'[nextSeq] # None /\ manifests[nextSeq] = current
        BY <1>0, <3>0, <3>3, <4>1 DEF SavingOf, TypeOK, Index
      <4>3. QED
        BY <4>1, <4>2
    <3>4. SavingOf(p)'
      BY <3>0, <3>1, <3>3 DEF SavingOf, At
    <3>5. QED
      BY <3>2, <3>4 DEF RestoreOf
  <2>3. QED
    BY <1>8, <2>1, <2>2 DEF WriteIndex
<1>9. CASE BeginRestore(p)
  <2>1. proc'[p].pc = "begin" /\ proc'[p].target \in versions' /\ guest = None /\ UNCHANGED guest
    BY <1>0, <1>9, BeginRestoreOne DEF BeginRestore, Restorable
  <2>2. QED
    BY <2>1 DEF RestoreOf, StandingOf, SavingOf, StagingOf, DoneOf, At
<1>10. CASE BeginSafety(p)
  <2>0. StandingOf(p) /\ SavingOf(p)
    BY <1>0, <1>10 DEF OpsOf, BeginSafety, At, Restoring
  <2>1. proc'[p] = Reading(p, "restore", Safety) /\ current # None
    BY <1>0, <1>10 DEF TypeOK, BeginSafety
  <2>2. /\ proc'[p].pc = "ingest" /\ proc'[p].todo = Present(current)
        /\ proc'[p].tree = Empty /\ proc'[p].target = proc[p].target
    BY <1>0, <2>1, ReadingTyped
  <2>3. UNCHANGED <<current, versions, guest, late>>
    BY <1>10 DEF BeginSafety, dirs, locks, ghost
  <2>4. \A f \in Files : f \in Present(current) \/ Empty[f] = current[f]
    BY DEF Present, Empty
  <2>5. Present(current)' = Present(current)
    BY <2>3 DEF Present
  <2>6. SavingOf(p)'
    BY <2>0, <2>2, <2>3, <2>4, <2>5 DEF SavingOf, At
  <2>7. StandingOf(p)' /\ StagingOf(p)' /\ DoneOf(p)'
    BY <1>10, <2>0, <2>1, <2>2, <2>3 DEF StandingOf, StagingOf, DoneOf, At, BeginSafety
  <2>8. QED
    BY <2>6, <2>7 DEF RestoreOf
<1>11. CASE Stage(p)
  <2>0. StandingOf(p) /\ SavingOf(p) /\ At(p, "stage")
    BY <1>0, <1>11 DEF OpsOf, Stage, At, Restoring, Swapping
  <2>1. /\ proc'[p].pc = "copy" /\ proc'[p].target = proc[p].target
        /\ proc'[p].todo = Present(proc[p].target) /\ staging' = Empty
        /\ UNCHANGED <<current, retired, guest, versions, raced, late, listed, manifests>>
    BY <1>0, <1>11, StageOne DEF Stage, locks, ghost, index
  <2>2. Empty # None /\ \A f \in Files : f \in Present(proc[p].target) \/ Empty[f] = proc[p].target[f]
    BY <1>0 DEF Present, Empty, Trees
  <2>3. StandingOf(p)' /\ SavingOf(p)' /\ DoneOf(p)'
    BY <2>0, <2>1 DEF StandingOf, SavingOf, DoneOf, At
  <2>4. StagingOf(p)'
    BY <2>1, <2>2 DEF StagingOf, At
  <2>5. QED
    BY <2>3, <2>4 DEF RestoreOf
<1>12. CASE CopyOut(p)
  <2>0. StandingOf(p) /\ SavingOf(p) /\ StagingOf(p) /\ At(p, "copy")
    BY <1>0, <1>12 DEF OpsOf, CopyOut, At, Restoring, Swapping
  <2>1. /\ proc'[p].pc = "copy" /\ proc'[p].target = proc[p].target
        /\ UNCHANGED <<current, retired, guest, versions, raced, late, listed, manifests>>
    BY <1>0, <1>12, CopyOutOne DEF CopyOut, locks, ghost, index
  <2>2. StandingOf(p)' /\ SavingOf(p)' /\ DoneOf(p)'
    BY <2>0, <2>1 DEF StandingOf, SavingOf, DoneOf, At
  <2>3. ASSUME ~raced
        PROVE  /\ staging' # None
               /\ \A f \in Files : f \in proc'[p].todo \/ staging'[f] = proc[p].target[f]
    <3>1. /\ staging \in Trees
          /\ \A f \in Files : f \in proc[p].todo \/ staging[f] = proc[p].target[f]
      BY <1>0, <2>0, <2>3 DEF StagingOf, TypeOK
    <3>2. PICK f \in proc[p].todo :
            /\ f \in Files /\ proc[p].target[f] \in Contents
            /\ proc'[p].todo = proc[p].todo \ {f}
            /\ staging' = [staging EXCEPT ![f] = proc[p].target[f]]
      BY <1>0, <1>12, <3>1, CopyOutOne
    <3>3. staging' \in Trees
      BY <3>1, <3>2 DEF Trees
    <3>4. \A g \in Files : g \in proc'[p].todo \/ staging'[g] = proc[p].target[g]
      BY <3>1, <3>2 DEF Trees
    <3>5. QED
      BY <1>0, <3>3, <3>4
  <2>4. StagingOf(p)'
    BY <2>1, <2>3 DEF StagingOf, At
  <2>5. QED
    BY <2>2, <2>4 DEF RestoreOf
<1>13. CASE SwapOut(p)
  <2>0. StandingOf(p) /\ SavingOf(p) /\ StagingOf(p) /\ At(p, "copy") /\ proc[p].todo = {}
    BY <1>0, <1>13 DEF OpsOf, SwapOut, At, Restoring, Swapping
  <2>1. /\ proc'[p].pc = "swapIn" /\ proc'[p].target = proc[p].target
        /\ current # None /\ retired' = current /\ current' = None /\ (raced => raced')
        /\ UNCHANGED <<staging, guest, versions, late, listed, manifests>>
    BY <1>0, <1>13, GotoOne DEF SwapOut, Mutating, Swapping, locks, index
  <2>2. ASSUME ~raced PROVE staging = proc[p].target
    <3>1. staging \in Trees /\ \A f \in Files : staging[f] = proc[p].target[f]
      BY <1>0, <2>0, <2>2 DEF StagingOf, TypeOK
    <3>2. proc[p].target \in Trees
      BY <1>0 DEF Proc
    <3>3. QED
      BY <3>1, <3>2, SameTree
  <2>3. StandingOf(p)' /\ SavingOf(p)'
    BY <2>0, <2>1 DEF StandingOf, SavingOf, At
  <2>4. StagingOf(p)'
    BY <2>1, <2>2 DEF StagingOf, At
  <2>5. DoneOf(p)'
    BY <2>0, <2>1 DEF DoneOf, SavingOf, At
  <2>6. QED
    BY <2>3, <2>4, <2>5 DEF RestoreOf
<1>14. CASE SwapIn(p)
  <2>0. StandingOf(p) /\ SavingOf(p) /\ StagingOf(p) /\ At(p, "swapIn")
    BY <1>0, <1>14 DEF OpsOf, SwapIn, At, Restoring, Swapping
  <2>1. /\ proc'[p].pc = "clean" /\ proc'[p].target = proc[p].target
        /\ staging # None /\ current' = staging
        /\ UNCHANGED <<guest, versions, raced, late>>
    BY <1>0, <1>14, GotoOne DEF SwapIn, Mutating, Swapping, locks, ghost
  <2>2. QED
    BY <2>0, <2>1 DEF RestoreOf, StandingOf, SavingOf, StagingOf, DoneOf, At
<1>15. CASE Clean(p) \/ Fail(p) \/ Crash(p)
  BY <1>1, <1>15 DEF Clean, Fail, Crash
<1>16. CASE Prunes(p)
  <2>1. CASE BeginPrune(p)
    BY <1>0, <2>1, BeginPruneOne, NotRestoring
  <2>2. CASE Collect(p) /\ proc[p].todo = {}
    BY <1>1, <2>2 DEF Collect
  <2>3. CASE Unlist(p) \/ Reindex(p) \/ (Collect(p) /\ proc[p].todo # {})
    <3>1. proc'[p].op = proc[p].op
      BY <1>0, <2>3, UnlistOne, ReindexOne, CollectOne
    <3>2. proc[p].op # "restore"
      BY <1>0, <2>3 DEF OpsOf, Unlist, Reindex, Collect, At, Swapping
    <3>3. QED
      BY <3>1, <3>2, NotRestoring
  <2>4. QED
    BY <1>16, <2>1, <2>2, <2>3 DEF Prunes
<1>17. QED
  BY <1>2, <1>3, <1>4, <1>5, <1>6, <1>7, <1>8, <1>9, <1>10, <1>11, <1>12, <1>13, <1>14, <1>15,
     <1>16 DEF Does, Snapshots, Restores

\* Where the workspace is, through every step.
LEMMA WholeOpens ==
    ASSUME RestoreInv, NEW p \in Procs, Opens(p)
    PROVE  WholeInv'
<1>0. /\ TypeOK /\ WholeInv /\ None \notin Trees /\ Empty \in Trees /\ None \notin versions
  BY NoTreeAssumption DEF RestoreInv, BytesInv, Shape, TypeOK, Empty, Trees
<1> SUFFICES ASSUME ~raced' PROVE IF current' = None THEN (Fresh \/ Halfway)' ELSE current' \in versions'
  BY DEF WholeInv
<1>1. ~raced /\ IF current = None THEN Fresh \/ Halfway ELSE current \in versions
  BY <1>0, OpensDirs DEF WholeInv
<1>2. \A q \in Procs \ {p} : proc'[q] = proc[q]
  BY <1>0, OpensOne DEF Moves
<1>3. CASE Open(p)
  <2>1. UNCHANGED <<current, staging, retired, versions>> /\ proc'[p].pc = "adopt"
    BY <1>0, <1>3, GotoOne DEF Open, Opening, dirs, ghost
  <2>2. Fresh => Fresh'
    BY <2>1 DEF Fresh
  <2>3. Halfway => Halfway'
    BY <1>2, <2>1 DEF Halfway
  <2>4. QED
    BY <1>1, <2>1, <2>2, <2>3
<1>4. CASE Adopt(p)
  <2>1. /\ UNCHANGED versions
        /\ IF current = None /\ staging # None THEN current' = staging
                                               ELSE UNCHANGED <<current, staging>>
        /\ UNCHANGED retired
    BY <1>4 DEF Adopt
  <2>2. CASE current # None
    BY <1>1, <2>1, <2>2
  <2>3. CASE current = None /\ Fresh
    BY <1>1, <2>1, <2>3 DEF Fresh
  <2>4. CASE current = None /\ Halfway
    BY <1>0, <1>1, <2>1, <2>4 DEF Halfway
  <2>5. QED
    BY <1>1, <2>2, <2>3, <2>4
<1>5. CASE PutBack(p) \/ DropOld(p) \/ DropNew(p)
  <2>1. proc[p].pc \in Opening \ {"adopt"} /\ UNCHANGED versions
    BY <1>5 DEF PutBack, DropOld, DropNew, OpenStep, At, Opening
  <2>2. ~Halfway
    BY <2>1 DEF Halfway
  <2>3. CASE current # None
    BY <1>1, <1>5, <2>1, <2>3 DEF PutBack, DropOld, DropNew
  <2>4. CASE Fresh /\ current = None
    BY <1>5, <2>1, <2>4 DEF Fresh, PutBack, DropOld, DropNew
  <2>5. QED
    BY <1>1, <2>2, <2>3, <2>4
<1>6. CASE Make(p)
  <2>1. proc[p].pc \in Opening \ {"adopt"}
    BY <1>6 DEF Make, OpenStep, At, Opening
  <2>2. ~Halfway
    BY <2>1 DEF Halfway
  <2>3. /\ current' = IF current = None THEN Empty ELSE current
        /\ versions' = IF current \in versions THEN {current} \cup Pending ELSE versions
    BY <1>6 DEF Make
  <2>4. CASE current = None
    BY <1>0, <1>1, <2>2, <2>3, <2>4 DEF Fresh
  <2>5. CASE current # None
    BY <1>1, <2>3, <2>5
  <2>6. QED
    BY <2>4, <2>5
<1>7. QED
  BY <1>3, <1>4, <1>5, <1>6 DEF Opens

\* A step that leaves the directories alone.
LEMMA WholeStays ==
    ASSUME RestoreInv, NEW p \in Procs, Does(p), UNCHANGED <<dirs, raced>>,
           versions \subseteq versions', proc'[p].pc \notin Opening \/ UNCHANGED proc
    PROVE  WholeInv'
<1>1. WholeInv /\ \A q \in Procs \ {p} : proc'[q] = proc[q]
  BY AlwaysMoves DEF RestoreInv, BytesInv, Shape, Moves
<1>2. Halfway => Halfway'
  BY <1>1 DEF Halfway, dirs
<1>3. Fresh => Fresh'
  BY DEF Fresh, dirs
<1>4. QED
  BY <1>1, <1>2, <1>3 DEF WholeInv, dirs

LEMMA WholeRestores ==
    ASSUME RestoreInv, NEW p \in Procs, Restores(p)
    PROVE  WholeInv'
<1>0. /\ TypeOK /\ Todos /\ OpsOf(p) /\ WholeInv /\ Does(p) /\ None \notin Trees
      /\ Restoring(p) => StandingOf(p) /\ SavingOf(p) /\ StagingOf(p) /\ DoneOf(p)
  BY Apart, NoTreeAssumption DEF RestoreInv, BytesInv, Shape, RestoreOf, Restoring, Does
<1>1. CASE BeginRestore(p)
  BY <1>0, <1>1, BeginRestoreOne, WholeStays DEF BeginRestore, Opening
<1>2. CASE BeginSafety(p)
  <2>1. proc'[p] = Reading(p, "restore", Safety)
    BY <1>0, <1>2 DEF TypeOK, BeginSafety
  <2>2. proc'[p].pc = "ingest"
    BY <1>0, <1>2, <2>1, ReadingTyped DEF BeginSafety
  <2>3. QED
    BY <1>0, <1>2, <2>2, WholeStays DEF BeginSafety, Opening, ghost
<1>3. CASE Stage(p) \/ CopyOut(p)
  <2>1. current # None /\ UNCHANGED <<current, versions, raced>>
    BY <1>0, <1>3 DEF Stage, CopyOut, At, OpsOf, Swapping, Restoring, StandingOf, ghost
  <2>2. QED
    BY <1>0, <2>1 DEF WholeInv
<1>4. CASE SwapOut(p)
  <2>1. Restoring(p) /\ StagingOf(p) /\ StandingOf(p)
    BY <1>0, <1>4 DEF SwapOut, At, OpsOf, Swapping, Restoring
  <2>2. /\ retired' # None /\ current' = None /\ UNCHANGED <<staging, versions>>
        /\ proc'[p].pc = "swapIn"
        /\ raced' = (raced \/ \E q \in Procs : proc[q].pc \in Opening)
    BY <1>0, <1>4, GotoOne DEF SwapOut, Mutating, Swapping
  <2>3. ASSUME ~raced' PROVE Halfway'
    <3>1. ~raced /\ \A q \in Procs : proc[q].pc \notin Opening
      BY <2>2, <2>3
    <3>2. \A q \in Procs : proc'[q].pc \notin Opening
      BY <1>0, <2>2, <3>1, AlwaysMoves DEF Moves, Opening
    <3>3. RestoreOf(p)'
      BY <1>0, RestoreOfOne
    <3>4. proc'[p].op = "restore" /\ proc'[p].target = proc[p].target
      BY <1>0, <1>4, <2>1, GotoOne DEF SwapOut, Mutating, Swapping, Restoring
    <3>5. staging' = proc'[p].target /\ proc'[p].target \in versions'
      BY <2>2, <2>3, <3>3, <3>4 DEF RestoreOf, StagingOf, StandingOf, At
    <3>6. QED
      BY <2>2, <3>2, <3>5 DEF Halfway
  <2>4. QED
    BY <2>2, <2>3 DEF WholeInv
<1>5. CASE SwapIn(p)
  <2>1. StagingOf(p) /\ StandingOf(p) /\ At(p, "swapIn")
    BY <1>0, <1>5 DEF SwapIn, At, OpsOf, Swapping, Restoring
  <2>2. staging # None /\ current' = staging /\ UNCHANGED <<versions, raced>>
    BY <1>5 DEF SwapIn, ghost
  <2>3. QED
    BY <2>1, <2>2 DEF WholeInv, StagingOf, StandingOf, At
<1>6. CASE Clean(p)
  <2>1. StagingOf(p) /\ At(p, "clean")
    BY <1>0, <1>6 DEF Clean, At, OpsOf, Swapping, Restoring
  <2>2. UNCHANGED <<current, versions, raced>>
    BY <1>6 DEF Clean, ghost
  <2>3. QED
    BY <1>0, <2>1, <2>2 DEF WholeInv, StagingOf
<1>7. QED
  BY <1>1, <1>2, <1>3, <1>4, <1>5, <1>6 DEF Restores

LEMMA WholeUses ==
    ASSUME RestoreInv, NEW p \in Procs, Uses(p)
    PROVE  WholeInv'
<1>0. TypeOK /\ WholeInv /\ None \notin Trees /\ Does(p)
  BY NoTreeAssumption DEF RestoreInv, BytesInv, Shape, Does
<1>1. CASE Attach(p) \/ Detach(p)
  BY <1>0, <1>1, WholeStays DEF Attach, Detach, ghost
<1>2. CASE Write(p)
  <2>1. PICK f \in Files, c \in Contents \cup {Absent} :
         /\ current' = [current EXCEPT ![f] = c]
         /\ versions' = {[v EXCEPT ![f] = c] : v \in versions} \cup Pending
    BY <1>2 DEF Write
  <2>2. current # None /\ UNCHANGED raced
    BY <1>2 DEF Write
  <2>3. current' # None
    BY <1>0, <2>1, <2>2 DEF TypeOK, Trees
  <2>4. QED
    BY <1>0, <2>1, <2>2, <2>3 DEF WholeInv
<1>3. QED
  BY <1>1, <1>2 DEF Uses

LEMMA WholeStep ==
    ASSUME RestoreInv, NEW p \in Procs, Does(p)
    PROVE  WholeInv'
<1>0. TypeOK /\ Todos
  BY DEF RestoreInv, BytesInv, Shape
<1>1. CASE Snapshots(p)
  <2>1. UNCHANGED <<dirs, raced, versions>>
    BY <1>1 DEF Snapshots, BeginSnapshot, Ingest, WriteManifest, WriteIndex, ghost
  <2>2. proc'[p].pc \notin Opening
    <3>1. CASE BeginSnapshot(p)
      <4>1. PICK label \in Labels : proc' = [proc EXCEPT ![p] = Reading(p, "snapshot", label)]
        BY <3>1 DEF BeginSnapshot
      <4>2. proc'[p] = Reading(p, "snapshot", label)
        BY <1>0, <4>1 DEF TypeOK
      <4>3. proc'[p].pc = "ingest"
        BY <1>0, <3>1, <4>2, ReadingTyped DEF BeginSnapshot
      <4>4. QED
        BY <4>3 DEF Opening
    <3>2. CASE Ingest(p) \/ WriteManifest(p)
      <4>1. proc'[p].pc \in {"ingest", "index"}
        <5>1. CASE Ingest(p)
          BY <1>0, <5>1, IngestOne
        <5>2. CASE WriteManifest(p)
          BY <1>0, <5>2, GotoOne DEF WriteManifest, Mutating
        <5>3. QED
          BY <3>2, <5>1, <5>2
      <4>2. QED
        BY <4>1 DEF Opening
    <3>3. CASE WriteIndex(p)
      <4>1. CASE Leave(p, "ready")
        BY <1>0, <4>1, LeaveOne, BetweenTyped DEF Opening
      <4>2. CASE Goto(p, "stage")
        <5>1. proc'[p].pc = "stage"
          BY <1>0, <4>2, GotoOne DEF Mutating, Swapping
        <5>2. QED
          BY <5>1 DEF Opening
      <4>3. QED
        BY <3>3, <4>1, <4>2 DEF WriteIndex
    <3>4. QED
      BY <1>1, <3>1, <3>2, <3>3 DEF Snapshots
  <2>3. QED
    BY <2>1, <2>2, WholeStays
<1>2. CASE Prunes(p)
  <2>1. UNCHANGED <<dirs, raced, versions>>
    BY <1>2 DEF Prunes, BeginPrune, Unlist, Reindex, Collect, ghost
  <2>2. proc'[p].pc \notin Opening
    <3>1. CASE Collect(p) /\ proc[p].todo = {}
      BY <1>0, <3>1, LeaveOne, BetweenTyped DEF Collect, Opening
    <3>2. QED
      BY <1>0, <1>2, <3>1, BeginPruneOne, UnlistOne, ReindexOne, CollectOne DEF Prunes, Opening
  <2>3. QED
    BY <2>1, <2>2, WholeStays
<1>3. CASE Fail(p) \/ Crash(p)
  <2>1. UNCHANGED <<dirs, raced, versions>>
    BY <1>3 DEF Fail, Crash, ghost
  <2>2. proc'[p].pc \notin Opening
    BY <1>0, <1>3, LeaveOne, BetweenTyped DEF Fail, Crash, Opening
  <2>3. QED
    BY <2>1, <2>2, WholeStays
<1>4. QED
  BY <1>1, <1>2, <1>3, WholeOpens, WholeUses, WholeRestores DEF Does

LEMMA RestoreHolds == Spec => []RestoreInv
<1>1. Init => RestoreInv
  <2> SUFFICES ASSUME Init PROVE RestoreInv
    OBVIOUS
  <2>1. BytesInv
    BY BytesInit
  <2>2. WholeInv
    BY DEF Init, WholeInv, Fresh
  <2>3. \A p \in Procs : RestoreOf(p)
    BY BetweenTyped, VolumeAssumption DEF Init, RestoreOf
  <2>4. QED
    BY <2>1, <2>2, <2>3 DEF RestoreInv
<1>2. RestoreInv /\ [Next]_vars => RestoreInv'
  <2> SUFFICES ASSUME RestoreInv, [Next]_vars PROVE RestoreInv'
    OBVIOUS
  <2>1. BytesInv'
    BY BytesNext DEF RestoreInv
  <2>2. CASE Next
    <3>1. PICK p \in Procs : Does(p)
      BY <2>2, NextIsSomebodys
    <3>2. \A q \in Procs : RestoreOf(q)'
      BY <3>1, RestoreOfOthers, RestoreOfOne
    <3>3. QED
      BY <2>1, <3>1, <3>2, WholeStep DEF RestoreInv
  <2>3. CASE UNCHANGED vars
    <3>1. WholeInv'
      BY <2>3 DEF RestoreInv, WholeInv, Fresh, Halfway, vars
    <3>2. \A q \in Procs : RestoreOf(q)'
      BY <2>3 DEF RestoreInv, RestoreOf, StandingOf, SavingOf, StagingOf, DoneOf, At, Present, vars
    <3>3. QED
      BY <2>1, <3>1, <3>2 DEF RestoreInv
  <2>4. QED
    BY <2>2, <2>3
<1>3. QED
  BY <1>1, <1>2, PTL DEF Spec

\* What was snapshotted can be restored whoever prunes, fails or dies, and what a
\* restore moves aside is in a listed snapshot (gc_blobs, lock_mutations,
\* Volume::restore).
THEOREM NothingIsEverLost == Spec => []NothingIsLost
<1>1. RestoreInv => NothingIsLost
  <2> SUFFICES ASSUME RestoreInv PROVE NothingIsLost
    OBVIOUS
  <2>1. WorkIsSaved
    <3> SUFFICES ASSUME NEW p \in Procs, At(p, "swapIn"), ~late, ~raced
                 PROVE  \E i \in Ids : listed[i] # None /\ manifests[i] = retired
      BY DEF WorkIsSaved
    <3>1. proc[p].op = "restore"
      BY DEF RestoreInv, BytesInv, Shape, Ops, At, Swapping
    <3>2. QED
      BY <3>1 DEF RestoreInv, RestoreOf, DoneOf
  <2>2. QED
    BY <2>1 DEF RestoreInv, BytesInv, Shape, NothingIsLost
<1>2. QED
  BY <1>1, RestoreHolds, PTL

\* Whatever a restore went through, the workspace is a whole version: the one it
\* was or the one it was told to restore (recover_interrupted_restore).
THEOREM RestoresLeaveWholeVersions == Spec => []RestoresAreWhole
<1>1. RestoreInv => RestoresAreWhole
  <2> SUFFICES ASSUME RestoreInv PROVE RestoresAreWhole
    OBVIOUS
  <2>1. WholeUnlessRaced
    BY DEF RestoreInv, WholeInv, WholeUnlessRaced
  <2>2. RestoredInFull
    <3> SUFFICES ASSUME NEW p \in Procs, At(p, "clean"), ~late, ~raced
                 PROVE  current = proc[p].target
      BY DEF RestoredInFull
    <3>1. proc[p].op = "restore"
      BY DEF RestoreInv, BytesInv, Shape, Ops, At, Swapping
    <3>2. QED
      BY <3>1 DEF RestoreInv, RestoreOf, DoneOf
  <2>3. QED
    BY <2>1, <2>2 DEF RestoresAreWhole
<1>2. QED
  BY <1>1, RestoreHolds, PTL

=============================================================================
