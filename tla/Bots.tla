--------------------------------- MODULE Bots ---------------------------------
(***************************************************************************)
(* The account of crates/botroster-bots/src/lib.rs: Bots, the groups they    *)
(* are in, and the inboxes handoffs wait in, all files under one directory.   *)
(*                                                                         *)
(* Nothing locks.  Commands of the CLI, the hub's bot.send tool and the runs  *)
(* of Bots are processes of their own ("jobs"); a job is its command, takes   *)
(* one step per file it replaces, appends to or removes, and may die between  *)
(* two steps.  A file written aside and renamed changes in one step; a file   *)
(* opened for appending stays the same file when it is renamed or removed,    *)
(* so files have identities here.                                           *)
(*                                                                         *)
(* A name is its slug: "Ledger " and "ledger" are the same element of Ids.    *)
(***************************************************************************)
EXTENDS Integers, Sequences, SequencesExt

CONSTANTS Ids,        \* slugs of Bots, which are also their display names
          Gids,       \* slugs of groups
          Texts,      \* what handoffs say
          Jobs,       \* the commands
          Job,        \* what each of them was asked
          Mixes,      \* sets of commands given to one account
          Existing,   \* the Bots there are at the start
          MaxListed,  \* MAX_BOTS: Bots and groups together
          MaxFiles,   \* bound on the inbox files ever created
          None

MinGroup == 2
MaxGroup == 6

OnBot == {"set", "hide", "delete", "forget", "send", "run", "turn", "dup"}
Ops   == OnBot \cup {"create", "group", "rmgroup", "post"}

ASSUME JobsAssumption ==
    /\ None \notin Ids \cup Gids \cup Texts \cup Jobs
    /\ Existing \subseteq Ids
    /\ Mixes \subseteq SUBSET Jobs
    /\ MaxListed \in Nat /\ MaxFiles \in Nat
    /\ IsFiniteSet(Existing) /\ Cardinality(Existing) <= MaxListed
    /\ \A j \in Jobs : LET c == Job[j] IN
        /\ c.op \in Ops
        /\ c.op \in {"create", "dup"} => c.name \in Ids
        /\ c.op = "set" => c.name \in Ids \cup {None} /\ c.brief \in BOOLEAN
        /\ c.op = "hide" => c.hidden \in BOOLEAN
        /\ c.op = "send" => c.from \in Ids \cup {None} /\ c.text \in Texts
        /\ c.op \in {"group", "rmgroup", "post"} => c.name \in Gids
        /\ c.op = "group" => /\ Len(c.members) \in Nat
                             /\ DOMAIN c.members = 1 .. Len(c.members)

VARIABLES
    profile,   \* bot.json of each Bot
    log,       \* the runs each conversation.jsonl tells of
    inbox,     \* the file inbox.jsonl is, by Bot
    taken,     \* the file inbox.jsonl.taken is, by Bot
    file,      \* what each file ever created holds
    groups,    \* group.json of each group
    glog,      \* the runs each group's thread tells of
    job,       \* every command: where it is, and what it has read
    mix,       \* the commands given in this behaviour
    shown,     \* which handoff was given to which run, in order
    arrived,   \* handoffs that were written
    raced,     \* handoffs written into a file already read
    crowded,   \* Bots whose inbox two runs took at once
    blurred,   \* Bots whose drained file was written to after it was copied back
    gone,      \* Bots that were deleted
    overlap    \* two commands that edit the roster ran at once

boxes  == <<inbox, taken, file>>
roster == <<profile, groups>>
ghosts == <<shown, arrived, raced, crowded, blurred, gone, overlap>>
vars   == <<profile, log, inbox, taken, file, groups, glog, job, mix,
            shown, arrived, raced, crowded, blurred, gone, overlap>>

Files == 1 .. MaxFiles
Used  == {f \in Files : file[f] # None}
Fresh == CHOOSE f \in Files \ Used : \A g \in Files \ Used : f <= g

\* A line of an inbox. "by" is the job that wrote it; the bytes do not tell.
Line  == [from : Ids \cup {None}, text : Texts, seq : Nat, by : Jobs]
Bytes(lines) == [i \in DOMAIN lines |->
                    <<lines[i].from, lines[i].text, lines[i].seq>>]

Profile == [name : Ids, brief : BOOLEAN, hidden : BOOLEAN]

\* The groups an unfinished deletion still has to rewrite, as it read them.
Stale == [id : Gids, members : Seq(Ids)]

\* None is nothing an account holds.
ASSUME NoneAssumption ==
    None \notin Files \cup Profile /\ None \notin Seq(Line) /\ None \notin Seq(Ids)

Sections == {"idle", "rename", "saveName", "describe", "saveBrief", "saveHidden",
             "check", "saveNew", "count", "leave", "forget", "open",
             "write", "recover", "merge", "dropTaken", "drain", "take", "read",
             "drop", "work", "append", "saveGroup", "done", "failed", "dead"}

\* The elements of s at the places in I, in their order.
Picked(s, I) ==
    LET upTo[n \in 0 .. Len(s)] ==
          IF n = 0 THEN <<>>
          ELSE IF n \in I THEN Append(upTo[n - 1], s[n]) ELSE upTo[n - 1] IN
    upTo[Len(s)]

Holding(f) == IF f = None THEN <<>> ELSE file[f]

Listed == {b \in Ids : profile[b] # None}
Groups == {g \in Gids : groups[g] # None}
Dir(b) == profile[b] # None \/ log[b] # {} \/ inbox[b] # None \/ taken[b] # None
GroupDir(g) == groups[g] # None \/ glog[g] # {}

\* BotStore::resolve: every way the string could mean a Bot.
Hits(n) == {b \in Listed : b = n \/ profile[b].name = n}
TheHit(n) == CHOOSE b \in Hits(n) : TRUE
Resolves(n) == \E b \in Ids : Hits(n) = {b}

\* Group::owner_for: whoever is mentioned, else the coordinator.
OwnerFor(members, mention) ==
    IF mention = None THEN Head(members)
    ELSE IF mention \in ToSet(members) THEN mention ELSE None

-----------------------------------------------------------------------------

Idle == [pc |-> "idle", bot |-> None, prof |-> None, todo |-> {}, got |-> <<>>,
         file |-> None, after |-> {}]

Init ==
    /\ profile = [b \in Ids |-> IF b \in Existing
                                THEN [name |-> b, brief |-> FALSE, hidden |-> FALSE]
                                ELSE None]
    /\ log = [b \in Ids |-> {}]
    /\ inbox = [b \in Ids |-> None]
    /\ taken = [b \in Ids |-> None]
    /\ file = [f \in Files |-> None]
    /\ groups = [g \in Gids |-> None]
    /\ glog = [g \in Gids |-> {}]
    /\ job = [j \in Jobs |-> Idle]
    /\ mix \in Mixes
    /\ shown = <<>>
    /\ arrived = {}
    /\ raced = {}
    /\ crowded = {}
    /\ blurred = {}
    /\ gone = {}
    /\ overlap = FALSE

At(j, pc)   == job[j].pc = pc
Goto(j, pc) == job' = [job EXCEPT ![j].pc = pc]
Ended(j)    == job[j].pc \in {"done", "failed", "dead"}
Fail(j)     == Goto(j, "failed") /\ UNCHANGED <<roster, log, glog, boxes, mix, ghosts>>

Editing == {"create", "dup", "set", "hide", "delete", "group", "rmgroup"}
Edits(j) == Job[j].op \in Editing /\ ~At(j, "idle") /\ ~Ended(j)
NoteOverlap(j) ==
    overlap' = (overlap \/ (Job[j].op \in Editing /\ \E k \in Jobs \ {j} : Edits(k)))

Taking == {"recover", "merge", "dropTaken", "drain", "take", "read", "drop"}
NoteCrowd(j, b) ==
    crowded' = IF Job[j].op = "run" /\ \E k \in Jobs : job[k].bot = b /\ job[k].pc \in Taking
               THEN crowded \cup {b} ELSE crowded

\* A run drains its inbox without recovering it first.
FirstSectionUnrecovered(j) ==
    IF Job[j].op = "run" THEN "drain" ELSE IF Job[j].op = "send" THEN "open" ELSE "failed"

\* Where a command that has found its Bot goes on.
FirstSection(j) ==
    CASE Job[j].op = "set"    -> IF Job[j].name = None THEN "describe" ELSE "rename"
      [] Job[j].op = "hide"   -> "saveHidden"
      [] Job[j].op = "delete" -> "count"
      [] Job[j].op = "forget" -> "forget"
      [] Job[j].op = "send"   -> "open"
      [] Job[j].op = "run"    -> "recover"
      [] Job[j].op = "turn"   -> "work"
      [] Job[j].op = "dup"    -> "check"

Given(j) == j \in mix /\ At(j, "idle")

\* A command names a Bot, and exactly one answers to it.
Resolve(j) ==
    /\ Given(j)
    /\ Job[j].op \in OnBot
    /\ Resolves(Job[j].bot)
    /\ LET b == TheHit(Job[j].bot) IN
        /\ job' = [job EXCEPT ![j].pc = FirstSection(j), ![j].bot = b,
                              ![j].prof = profile[b]]
        /\ NoteCrowd(j, b)
    /\ NoteOverlap(j)
    /\ UNCHANGED <<roster, log, glog, boxes, mix, shown, arrived, raced, blurred, gone>>

NotResolved(j) ==
    /\ Given(j)
    /\ Job[j].op \in OnBot
    /\ ~Resolves(Job[j].bot)
    /\ Fail(j)

-----------------------------------------------------------------------------
(***************************************************************************)
(* Profiles.  Every edit reads the profile, then replaces it.               *)
(***************************************************************************)

Replace(j, p, next) ==
    /\ profile' = [profile EXCEPT ![job[j].bot] = p]
    /\ Goto(j, next)
    /\ UNCHANGED <<groups, log, glog, boxes, mix, ghosts>>

StartCreate(j) ==
    /\ Given(j)
    /\ Job[j].op = "create"
    /\ Goto(j, "check")
    /\ NoteOverlap(j)
    /\ UNCHANGED <<roster, log, glog, boxes, mix, shown, arrived, raced, crowded, blurred, gone>>

Room == Cardinality(Listed) + Cardinality(Groups) < MaxListed

\* create: the slug is free, and the roster has room.
MayCreate(n) == profile[n] = None /\ Room

CheckNew(j) ==
    /\ At(j, "check")
    /\ Job[j].op \in {"create", "dup"}
    /\ MayCreate(Job[j].name)
    /\ job' = [job EXCEPT ![j].pc = "saveNew", ![j].bot = Job[j].name,
                          ![j].prof = [name |-> Job[j].name,
                                       brief |-> Job[j].op = "dup" /\ job[j].prof.brief,
                                       hidden |-> FALSE]]
    /\ UNCHANGED <<roster, log, glog, boxes, mix, ghosts>>

RefuseNew(j) ==
    /\ At(j, "check")
    /\ Job[j].op \in {"create", "dup"}
    /\ ~MayCreate(Job[j].name)
    /\ Fail(j)

SaveNew(j) ==
    /\ At(j, "saveNew")
    /\ Replace(j, job[j].prof, "done")

\* rename: a slug that is another Bot's id is taken.
MayRename(b, n) == n = b \/ profile[n] = None

Rename(j) ==
    /\ At(j, "rename")
    /\ Hits(job[j].bot) = {job[j].bot}
    /\ MayRename(job[j].bot, Job[j].name)
    /\ job' = [job EXCEPT ![j].pc = "saveName",
                          ![j].prof = [profile[job[j].bot] EXCEPT !.name = Job[j].name]]
    /\ UNCHANGED <<roster, log, glog, boxes, mix, ghosts>>

RefuseRename(j) ==
    /\ At(j, "rename")
    /\ ~(Hits(job[j].bot) = {job[j].bot} /\ MayRename(job[j].bot, Job[j].name))
    /\ Fail(j)

SaveName(j) ==
    /\ At(j, "saveName")
    /\ Replace(j, job[j].prof, IF Job[j].brief THEN "describe" ELSE "done")

Describe(j) ==
    /\ At(j, "describe")
    /\ Hits(job[j].bot) = {job[j].bot}
    /\ job' = [job EXCEPT ![j].pc = "saveBrief",
                          ![j].prof = [profile[job[j].bot] EXCEPT !.brief = TRUE]]
    /\ UNCHANGED <<roster, log, glog, boxes, mix, ghosts>>

RefuseDescribe(j) ==
    /\ At(j, "describe")
    /\ Hits(job[j].bot) # {job[j].bot}
    /\ Fail(j)

SaveBrief(j) ==
    /\ At(j, "saveBrief")
    /\ Replace(j, job[j].prof, "done")

SaveHidden(j) ==
    /\ At(j, "saveHidden")
    /\ Replace(j, [job[j].prof EXCEPT !.hidden = Job[j].hidden], "done")

\* clear_history
Forget(j) ==
    /\ At(j, "forget")
    /\ log' = [log EXCEPT ![job[j].bot] = {}]
    /\ Goto(j, "done")
    /\ UNCHANGED <<roster, glog, boxes, mix, ghosts>>

-----------------------------------------------------------------------------
(***************************************************************************)
(* Groups, and what deleting a Bot does to them.                            *)
(***************************************************************************)

\* The members asked for, each once, by the ids their names resolve to.
Deduped(j) ==
    LET named == [i \in DOMAIN Job[j].members |-> TheHit(Job[j].members[i])] IN
    Picked(named, {i \in DOMAIN named : \A k \in 1 .. (i - 1) : named[k] # named[i]})

MayGroup(j) ==
    /\ \A i \in DOMAIN Job[j].members : Resolves(Job[j].members[i])
    /\ groups[Job[j].name] = None
    /\ Len(Deduped(j)) \in MinGroup .. MaxGroup
    /\ Room

CreateGroup(j) ==
    /\ Given(j)
    /\ Job[j].op = "group"
    /\ MayGroup(j)
    /\ job' = [job EXCEPT ![j].pc = "saveGroup",
                          ![j].todo = {[id |-> Job[j].name, members |-> Deduped(j)]}]
    /\ NoteOverlap(j)
    /\ UNCHANGED <<roster, log, glog, boxes, mix, shown, arrived, raced, crowded, blurred, gone>>

RefuseGroup(j) ==
    /\ Given(j)
    /\ Job[j].op = "group"
    /\ ~MayGroup(j)
    /\ Fail(j)

SaveGroup(j) ==
    /\ At(j, "saveGroup")
    /\ \E s \in job[j].todo : groups' = [groups EXCEPT ![s.id] = s.members]
    /\ Goto(j, "done")
    /\ UNCHANGED <<profile, log, glog, boxes, mix, ghosts>>

RemoveGroup(j) ==
    /\ Given(j)
    /\ Job[j].op = "rmgroup"
    /\ IF groups[Job[j].name] = None
       THEN Goto(j, "failed") /\ UNCHANGED <<groups, glog>>
       ELSE /\ groups' = [groups EXCEPT ![Job[j].name] = None]
            /\ glog' = [glog EXCEPT ![Job[j].name] = {}]
            /\ Goto(j, "done")
    /\ NoteOverlap(j)
    /\ UNCHANGED <<profile, log, boxes, mix, shown, arrived, raced, crowded, blurred, gone>>

\* Groups are left alone.
LeavesNone(b) == {}

\* delete: the groups that list the Bot, read once.
MustLeave(b) == {[id |-> g, members |-> groups[g]] : g \in {h \in Groups : b \in ToSet(groups[h])}}

Count(j) ==
    /\ At(j, "count")
    /\ IF Dir(job[j].bot)
       THEN job' = [job EXCEPT ![j].pc = "leave", ![j].todo = MustLeave(job[j].bot)]
       ELSE Goto(j, "failed")
    /\ UNCHANGED <<roster, log, glog, boxes, mix, ghosts>>

\* One group rewritten without the Bot, or removed with its last member.
LeaveGroup(j) ==
    /\ At(j, "leave")
    /\ \E s \in job[j].todo :
        LET left == Picked(s.members, {i \in DOMAIN s.members : s.members[i] # job[j].bot}) IN
        IF left # <<>> \/ GroupDir(s.id)
        THEN /\ groups' = [groups EXCEPT ![s.id] = IF left = <<>> THEN None ELSE left]
             /\ glog' = IF left = <<>> THEN [glog EXCEPT ![s.id] = {}] ELSE glog
             /\ job' = [job EXCEPT ![j].todo = @ \ {s}]
        ELSE Goto(j, "failed") /\ UNCHANGED <<groups, glog>>
    /\ UNCHANGED <<profile, log, boxes, mix, ghosts>>

RemoveDir(j) ==
    /\ At(j, "leave")
    /\ job[j].todo = {}
    /\ LET b == job[j].bot IN
       IF ~Dir(b) THEN Goto(j, "failed") /\ UNCHANGED <<profile, log, inbox, taken, gone>>
       ELSE /\ profile' = [profile EXCEPT ![b] = None]
            /\ log' = [log EXCEPT ![b] = {}]
            /\ inbox' = [inbox EXCEPT ![b] = None]
            /\ taken' = [taken EXCEPT ![b] = None]
            /\ gone' = gone \cup {b}
            /\ Goto(j, "done")
    /\ UNCHANGED <<groups, glog, file, mix, shown, arrived, raced, crowded, blurred, overlap>>

\* group post: the owner of the turn answers under its own brief.
Post(j) ==
    /\ Given(j)
    /\ Job[j].op = "post"
    /\ LET g == Job[j].name
           owner == IF groups[g] = None THEN None ELSE OwnerFor(groups[g], Job[j].mention)
       IN IF owner # None /\ owner \in Listed
          THEN job' = [job EXCEPT ![j].pc = "work", ![j].bot = owner]
          ELSE Goto(j, "failed")
    /\ UNCHANGED <<roster, log, glog, boxes, mix, ghosts>>

-----------------------------------------------------------------------------
(***************************************************************************)
(* Inboxes.  A run of the command line recovers, drains and shows what waits; *)
(* every other turn of a Bot (run_task) does not look.                      *)
(***************************************************************************)

\* send, up to the file it has open. The number follows the last waiting one.
NextSeq(b) == LET waiting == Holding(inbox[b]) IN
              IF waiting = <<>> THEN 0 ELSE Last(waiting).seq + 1

SendOpen(j) ==
    /\ At(j, "open")
    /\ LET b == job[j].bot IN
       IF profile[b] = None \/ Job[j].from = b
       THEN Goto(j, "failed") /\ UNCHANGED boxes
       ELSE /\ IF inbox[b] = None
               THEN /\ Used # Files
                    /\ file' = [file EXCEPT ![Fresh] = <<>>]
                    /\ inbox' = [inbox EXCEPT ![b] = Fresh]
               ELSE UNCHANGED <<inbox, file>>
            /\ job' = [job EXCEPT ![j].pc = "write", ![j].file = inbox'[b],
                            ![j].after = arrived,
                            ![j].got = <<[from |-> Job[j].from, text |-> Job[j].text,
                                          seq |-> NextSeq(b), by |-> j]>>]
            /\ UNCHANGED taken
    /\ UNCHANGED <<roster, log, glog, mix, ghosts>>

\* recover_inbox: what a merge holds, and whether it has been done already.
Merged(recovered, current) == recovered \o current

AlreadyMerged(recovered, current) == IsPrefix(Bytes(recovered), Bytes(current))

On(b, pcs) == \E k \in Jobs : job[k].bot = b /\ job[k].pc \in pcs

\* The line goes to a file nobody will read, or has been read.
Missed(b, f) ==
    \/ f \notin {inbox[b], taken[b]}
    \/ On(b, {"merge"})
    \/ f = taken[b] /\ On(b, {"dropTaken", "drop"})

\* The line goes to a drained file whose lines a recovery has put back, or is
\* about to: the inbox no longer begins with that file's bytes, and the next
\* recovery puts them back again.
Blurs(b, f) ==
    /\ f = taken[b]
    /\ \/ On(b, {"merge"})
       \/ Holding(f) # <<>> /\ AlreadyMerged(Holding(f), Holding(inbox[b]))

SendWrite(j) ==
    /\ At(j, "write")
    /\ LET b == job[j].bot  f == job[j].file IN
        /\ file' = [file EXCEPT ![f] = @ \o job[j].got]
        /\ raced' = IF Missed(b, f) THEN raced \cup {j} ELSE raced
        /\ blurred' = IF Blurs(b, f) THEN blurred \cup {b} ELSE blurred
    /\ arrived' = arrived \cup {j}
    /\ job' = [job EXCEPT ![j].pc = "done", ![j].got = <<>>, ![j].file = None]
    /\ UNCHANGED <<roster, log, glog, inbox, taken, mix, shown, crowded, gone, overlap>>

Recover(j) ==
    /\ At(j, "recover")
    /\ LET b == job[j].bot
           recovered == Holding(taken[b])
           current   == Holding(inbox[b])
       IN CASE taken[b] = None -> Goto(j, "drain")
            [] taken[b] # None /\ AlreadyMerged(recovered, current) -> Goto(j, "dropTaken")
            [] OTHER -> job' = [job EXCEPT ![j].pc = "merge",
                                           ![j].got = Merged(recovered, current)]
    /\ UNCHANGED <<roster, log, glog, boxes, mix, ghosts>>

Merge(j) ==
    /\ At(j, "merge")
    /\ IF Dir(job[j].bot)
       THEN /\ Used # Files
            /\ file' = [file EXCEPT ![Fresh] = job[j].got]
            /\ inbox' = [inbox EXCEPT ![job[j].bot] = Fresh]
            /\ job' = [job EXCEPT ![j].pc = "dropTaken", ![j].got = <<>>]
       ELSE /\ job' = [job EXCEPT ![j].pc = "failed", ![j].got = <<>>]
            /\ UNCHANGED <<file, inbox>>
    /\ UNCHANGED <<roster, log, glog, taken, mix, ghosts>>

DropTaken(j) ==
    /\ At(j, "dropTaken")
    /\ Goto(j, IF taken[job[j].bot] = None THEN "failed" ELSE "drain")
    /\ taken' = [taken EXCEPT ![job[j].bot] = None]
    /\ UNCHANGED <<roster, log, glog, inbox, file, mix, ghosts>>

\* drain_inbox: a leftover .taken file is removed, the inbox renamed to it,
\* read and removed.
Drain(j) ==
    /\ At(j, "drain")
    /\ IF inbox[job[j].bot] = None
       THEN Goto(j, "work") /\ UNCHANGED taken
       ELSE Goto(j, "take") /\ taken' = [taken EXCEPT ![job[j].bot] = None]
    /\ UNCHANGED <<roster, log, glog, inbox, file, mix, ghosts>>

Take(j) ==
    /\ At(j, "take")
    /\ LET b == job[j].bot IN
       IF inbox[b] = None THEN Goto(j, "failed") /\ UNCHANGED <<inbox, taken>>
       ELSE /\ taken' = [taken EXCEPT ![b] = inbox[b]]
            /\ inbox' = [inbox EXCEPT ![b] = None]
            /\ Goto(j, "read")
    /\ UNCHANGED <<roster, log, glog, file, mix, ghosts>>

Read(j) ==
    /\ At(j, "read")
    /\ LET b == job[j].bot IN
       IF taken[b] = None THEN Goto(j, "failed")
       ELSE job' = [job EXCEPT ![j].pc = "drop", ![j].got = Holding(taken[b])]
    /\ UNCHANGED <<roster, log, glog, boxes, mix, ghosts>>

Drop(j) ==
    /\ At(j, "drop")
    /\ taken' = [taken EXCEPT ![job[j].bot] = None]
    /\ Goto(j, "work")
    /\ UNCHANGED <<roster, log, glog, inbox, file, mix, ghosts>>

\* The agent runs with the handoffs in front of its task.
Work(j) ==
    /\ At(j, "work")
    /\ shown' = shown \o [i \in DOMAIN job[j].got |-> [by |-> job[j].got[i].by, run |-> j]]
    /\ job' = [job EXCEPT ![j].pc = "append", ![j].got = <<>>]
    /\ UNCHANGED <<roster, log, glog, boxes, mix, arrived, raced, crowded, blurred, gone, overlap>>

\* What the turn said goes to the Bot's conversation, or to the group's thread;
\* either creates the directory it needs.
AppendTurn(j) ==
    /\ At(j, "append")
    /\ IF Job[j].op = "post"
       THEN /\ glog' = [glog EXCEPT ![Job[j].name] = @ \cup {j}]
            /\ UNCHANGED log
       ELSE /\ log' = [log EXCEPT ![job[j].bot] = @ \cup {j}]
            /\ UNCHANGED glog
    /\ Goto(j, "done")
    /\ UNCHANGED <<roster, boxes, mix, ghosts>>

\* The process dies. What a run had taken out of the inbox dies with it; what it was
\* putting back is still in the files it had read.
Crash(j) ==
    /\ ~At(j, "idle") /\ ~Ended(j)
    /\ job' = [job EXCEPT ![j].pc = "dead", ![j].got = IF At(j, "merge") THEN <<>> ELSE @]
    /\ UNCHANGED <<roster, log, glog, boxes, mix, ghosts>>

-----------------------------------------------------------------------------

Step(j) ==
    \/ Resolve(j) \/ NotResolved(j)
    \/ StartCreate(j) \/ CheckNew(j) \/ RefuseNew(j) \/ SaveNew(j)
    \/ Rename(j) \/ RefuseRename(j) \/ SaveName(j)
    \/ Describe(j) \/ RefuseDescribe(j) \/ SaveBrief(j)
    \/ SaveHidden(j) \/ Forget(j)
    \/ CreateGroup(j) \/ RefuseGroup(j) \/ SaveGroup(j) \/ RemoveGroup(j)
    \/ Count(j) \/ LeaveGroup(j) \/ RemoveDir(j) \/ Post(j)
    \/ SendOpen(j) \/ SendWrite(j)
    \/ Recover(j) \/ Merge(j) \/ DropTaken(j)
    \/ Drain(j) \/ Take(j) \/ Read(j) \/ Drop(j)
    \/ Work(j) \/ AppendTurn(j)
    \/ Crash(j)

Next == \E j \in Jobs : Step(j)

Spec == Init /\ [][Next]_vars

-----------------------------------------------------------------------------

\* The fourth conjunct: a file has one name at a time.
TypeOK ==
    /\ \A b \in Ids : profile[b] \in Profile \cup {None}
    /\ \A b \in Ids : log[b] \subseteq Jobs
    /\ \A b \in Ids : {inbox[b], taken[b]} \subseteq Used \cup {None}
    /\ \A b \in Ids : inbox[b] = taken[b] => inbox[b] = None
    /\ \A f \in Files : file[f] = None \/ \A i \in DOMAIN file[f] : file[f][i] \in Line
    /\ \A g \in Gids : groups[g] = None \/ groups[g] \in Seq(Ids)
    /\ \A g \in Gids : glog[g] \subseteq Jobs
    /\ \A j \in Jobs : /\ job[j].pc \in Sections
                       /\ job[j].bot \in Ids \cup {None}
                       /\ job[j].prof \in Profile \cup {None}
                       /\ job[j].todo \subseteq Stale
                       /\ job[j].file \in Files \cup {None}
                       /\ job[j].after \subseteq Jobs
    /\ shown \in Seq([by : Jobs, run : Jobs])
    /\ arrived \subseteq Jobs

Waiting(b) == ToSet(Holding(inbox[b])) \cup ToSet(Holding(taken[b]))
Hands(b)   == UNION {ToSet(job[j].got) : j \in {k \in Jobs : job[k].bot = b
                                                           /\ job[k].pc \in {"drop", "work", "dead"}}}
Senders(lines) == {line.by : line \in lines}

\* Another handoff to the same Bot says the same from the same sender.
HasATwin(s) ==
    \E k \in arrived \ {s} : /\ job[k].bot = job[s].bot
                             /\ Job[k].from = Job[s].from
                             /\ Job[k].text = Job[s].text

\* A handoff that was delivered is waiting, in the hands of the run that took it
\* (which may have died with it), or has been shown - unless it was written into
\* an inbox being read at that moment, says what another one says, two runs took the
\* inbox at once, or the Bot was deleted. recover_inbox and drain_inbox,
\* lib.rs:1600-1667.
HandoffsKept ==
    \A s \in arrived :
        LET b == job[s].bot IN
        \/ s \in raced \/ b \in crowded \/ b \in gone \/ HasATwin(s)
        \/ s \in Senders(ToSet(shown))
        \/ s \in Senders(Waiting(b) \cup Hands(b))

\* However often a run dies and the next one recovers, a handoff is shown once,
\* unless two runs took the inbox at once or a late writer changed a drained file
\* that was put back already. lib.rs:1629-1639.
ShownOnce ==
    \A i, k \in DOMAIN shown :
        shown[i].by = shown[k].by => i = k \/ job[shown[i].by].bot \in crowded \cup blurred

\* A run is shown handoffs in the order they came: one that was already there when
\* another was sent does not come after it, and is not left waiting when that one
\* is shown. lib.rs:1635-1637.
OlderFirst ==
    \A i \in DOMAIN shown : \A old \in job[shown[i].by].after :
        LET new == shown[i].by  b == job[new].bot IN
        (job[old].bot = b /\ {old, new} \cap raced = {}
                          /\ b \notin crowded \cup blurred \cup gone)
        => /\ \A k \in DOMAIN shown : shown[k] = [shown[i] EXCEPT !.by = old] => k < i
           /\ old \in Senders(Waiting(b)) => old \in Senders(ToSet(shown))

\* A group never names a Bot that is not there, however a deletion is cut short,
\* as long as one command edits the roster at a time. lib.rs:363-369.
MembersExist ==
    overlap \/ \A g \in Groups : ToSet(groups[g]) \subseteq Listed

\* Bots and groups share one cap, from whichever side it is reached.
\* lib.rs:193-197 and 2000-2003.
CapHolds ==
    overlap \/ Cardinality(Listed) + Cardinality(Groups) <= MaxListed

\* What one Bot hands another arrives, once and in order, however many runs take and die.
\* lib.rs:1541-1667.
HandoffsArrive == HandoffsKept /\ ShownOnce /\ OlderFirst

\* The account stays within its shape: well-typed, no group with a Bot that is gone, and
\* never more Bots and groups than the cap. lib.rs:193-197, 363-421.
RosterIsWhole == TypeOK /\ MembersExist /\ CapHolds

=============================================================================
