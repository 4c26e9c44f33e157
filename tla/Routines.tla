------------------------------- MODULE Routines -------------------------------
(***************************************************************************)
(* Routines: work a Bot does on a schedule or when an event arrives            *)
(* (crates/botroster-bots/src/lib.rs), and the commands that run them: the     *)
(* child "botroster up" spawns once a minute, a tick from cron, and what a      *)
(* person or a webhook runs by hand (botroster-cli main.rs and up.rs).         *)
(*                                                                         *)
(* Every command is a process. A routine is one file, read whole and replaced  *)
(* whole; what a process read may be stale by the time it writes. A run of the  *)
(* agent takes as long as it takes: the clock moves between "work" starting    *)
(* and ending.                                                              *)
(***************************************************************************)
EXTENDS Schedule, Sequences, SequencesExt

CONSTANTS Rids,          \* routines: a Bot and a slug
          Bot,           \* the Bot of each routine
          Trigger,       \* what each of them is created with
          Procs, Proc,   \* the commands, and what each was asked
          Mixes,         \* accounts: the routines there are, the commands given, which
                         \* of them may die, and when the clock stops
          MaxRoutines,   \* MAX_ROUTINES, of one Bot
          MaxRunsKept,   \* MAX_RUNS_KEPT
          Cooloff,       \* RETRY_COOLOFF_MINUTES
          BackoffSteps,  \* RETRY_BACKOFF_STEPS
          Remembered,    \* EVENTS_REMEMBERED
          IdleAfter,     \* --idle-days, in minutes; None is 0, which turns it off
          Lives          \* how often "up" may be started again

Bots == {Bot[r] : r \in Rids}
Kinds == {"up", "tick", "new", "pause", "resume", "rm", "run", "post", "look", "rmbot"}

ASSUME RoutinesAssumption ==
    /\ \A r \in Rids : Trigger[r].kind \in {"schedule", "event"}
    /\ \A p \in Procs : Proc[p].op \in Kinds
    /\ \A m \in Mixes : m.procs \subseteq Procs /\ m.rids \subseteq Rids
                     /\ m.mortal \subseteq m.procs /\ m.until \in Times
    /\ {MaxRoutines, MaxRunsKept, Cooloff, BackoffSteps, Remembered, Lives} \subseteq Nat

VARIABLES
    now,       \* the clock
    routine,   \* the file of each routine
    writing,   \* its .json.tmp
    there,     \* the Bots that have a profile
    seen,      \* last-seen: when a person last looked
    events,    \* events-seen.jsonl
    proc,      \* every command: where it is and what it has read
    mix,       \* the account of this behaviour
    did,       \* when each routine did its work for the schedule, by its starts
    ran,       \* the deliveries each routine was run for
    disturbed  \* routines a crash or a second process came between

files == <<routine, writing, there, seen, events>>
ghosts == <<did, ran, disturbed>>
vars == <<now, routine, writing, there, seen, events, proc, mix, did, ran, disturbed>>

Run == [at : Times, retryable : BOOLEAN, manual : BOOLEAN]
Record == [id : Rids, enabled : BOOLEAN, last : Times \cup {None}, runs : Seq(Run),
           retry : Nat \cup {None}]

New(r) == [id |-> r, enabled |-> TRUE, last |-> None, runs |-> <<>>, retry |-> None]

\* Match::test and Trigger::fires_for: a missing path never matches.
Test(m, payload) == m.path \in DOMAIN payload /\ payload[m.path] \in m.values
FiresFor(r, event) ==
    /\ Trigger[r].kind = "event"
    /\ Trigger[r].source = event.source
    /\ Trigger[r].matches # {}
    /\ \A m \in Trigger[r].matches : Test(m, event.payload)

\* A source with no conditions is refused, and so is a schedule nobody can read.
GoodTrigger(r) ==
    IF Trigger[r].kind = "event" THEN Trigger[r].matches # {} ELSE Parses(Trigger[r].cron)

FiringsOf == [r \in Rids |-> IF Trigger[r].kind = "event" THEN {}
                             ELSE Firings(Trigger[r].cron, Trigger[r].zone)]

\* schedule.rs: the first firing after a time, and those up to another.
FiresAfter(r, after)  == NextAfter(FiringsOf[r], after)
Fires(r, after, upTo) == Between(FiringsOf[r], after, upTo)

\* Routine::is_due: what is owed is tried again, and a firing that was missed is
\* noticed - but for a routine that never ran, which looks back one minute.
IsDue(c, at) ==
    /\ c.enabled
    /\ Trigger[c.id].kind = "schedule"
    /\ LET since == IF c.last = None THEN at - 1 ELSE c.last IN
       IF c.retry # None THEN at >= c.retry
       ELSE FiresAfter(c.id, since) # None /\ FiresAfter(c.id, since) <= at

\* all_routines: those of the Bots there are.
Saved == {r \in Rids : routine[r] # None /\ there[Bot[r]]}
Due(at) == {r \in Saved : IsDue(routine[r], at)}

\* idle_routines: nobody has looked for a while; None means nobody ever did.
Idle(at) ==
    IF IdleAfter = None \/ seen = None \/ at - seen < IdleAfter THEN {}
    ELSE {r \in Saved : routine[r].enabled}

\* The files of some routines, as they are now.
Copies(rids) == LET order == SetToSeq(rids) IN [i \in DOMAIN order |-> routine[order[i]]]

\* event_seen: the last ids only.
EventSeen(id) ==
    \E i \in DOMAIN events : i > Len(events) - Remembered /\ events[i].id = id

TriggeredBy(event) ==
    IF event.id # None /\ EventSeen(event.id) THEN {}
    ELSE {r \in Saved : routine[r].enabled /\ FiresFor(r, event)}

Trimmed(runs) == SubSeq(runs, Max({1, Len(runs) - MaxRunsKept + 1}), Len(runs))
Ran(c, run) == [c EXCEPT !.runs = Trimmed(Append(@, run))]

\* The attempts at the end of the history that have to be made again.
Consecutive(runs) ==
    Cardinality({i \in DOMAIN runs : \A k \in i .. Len(runs) : runs[k].retryable})
Wait(runs) == Cooloff * 2 ^ Min({Consecutive(runs), BackoffSteps})

\* record_run.
RecordRun(c, run) ==
    Ran(IF run.retryable THEN [c EXCEPT !.retry = run.at + Wait(c.runs)]
        ELSE [c EXCEPT !.last = run.at, !.retry = None], run)

\* A rehearsal recorded like a firing.
RecordAsRun(c, run) == RecordRun(c, [run EXCEPT !.manual = TRUE, !.retryable = FALSE])

\* record_manual_run: the history is written, the schedule left alone.
RecordManual(c, run) == Ran(c, [run EXCEPT !.manual = TRUE, !.retryable = FALSE])

-----------------------------------------------------------------------------

Blank == [pc |-> "idle", at |-> None, todo |-> <<>>, cur |-> None,
          base |-> None, next |-> "done",
          hits |-> {}, after |-> {}, lives |-> Lives]

Sections == {"idle", "pausing", "due", "next", "work", "write", "rename",
             "remember", "done", "failed", "dead"}

Init ==
    /\ now = 0
    /\ mix \in Mixes
    /\ routine = [r \in Rids |-> IF r \in mix.rids THEN New(r) ELSE None]
    /\ writing = [r \in Rids |-> None]
    /\ there = [b \in Bots |-> TRUE]
    /\ seen \in {0, None}
    /\ events = <<>>
    /\ proc = [p \in Procs |-> Blank]
    /\ did = [r \in Rids |-> <<>>]
    /\ ran = [r \in Rids |-> <<>>]
    /\ disturbed = {}

Op(p)       == Proc[p].op
At(p, pc)   == proc[p].pc = pc
Goto(p, pc) == proc' = [proc EXCEPT ![p].pc = pc]
Ended(p)    == proc[p].pc \in {"done", "failed", "dead"}
Scheduler(p) == Op(p) \in {"up", "tick"}

\* A timer that gives up after a tick that failed.
AfterUnlessFailed(p, pc) == IF Op(p) = "up" /\ pc # "failed" THEN "idle" ELSE pc

\* The timer of "up" goes on, whatever became of its tick.
After(p, pc) == IF Op(p) = "up" THEN "idle" ELSE pc

Leave(p, pc) ==
    proc' = [proc EXCEPT ![p] = [Blank EXCEPT !.pc = After(p, pc), !.lives = proc[p].lives,
                                 !.at = proc[p].at, !.hits = proc[p].hits,
                                 !.after = proc[p].after]]

\* The clock. Some behaviours stop it early.
Clock ==
    /\ now < mix.until
    /\ now' = now + 1
    /\ UNCHANGED <<files, proc, mix, ghosts>>

\* watching: only a command at a terminal is a person looking.
Watched(p) == IF Proc[p].tty THEN now ELSE seen

\* Another process holds a copy of the routine it will write.
Contended(p, r) ==
    \E q \in Procs \ {p} : /\ proc[q].pc \in {"work", "write", "rename"}
                           /\ proc[q].cur # None /\ proc[q].cur.id = r

\* What p holds is no longer what is on the disk, or will not be for long.
Late(p) == LET r == proc[p].cur.id IN routine[r] # proc[p].base \/ Contended(p, r)

-----------------------------------------------------------------------------
(***************************************************************************)
(* Commands a person gives.                                                 *)
(***************************************************************************)

\* A command may be given after others: this bounds who gives it.
Given(p) == /\ p \in mix.procs /\ At(p, "idle")
            /\ \A q \in Proc[p].awaits : Ended(q)

Look(p) ==
    /\ Given(p)
    /\ Op(p) = "look"
    /\ seen' = Watched(p)
    /\ Leave(p, "done")
    /\ UNCHANGED <<now, routine, writing, there, events, mix, ghosts>>

\* create_triggered.
MayCreate(r) ==
    /\ there[Bot[r]]
    /\ GoodTrigger(r)
    /\ routine[r] = None
    /\ Cardinality({q \in Rids : Bot[q] = Bot[r] /\ routine[q] # None}) < MaxRoutines

Create(p) ==
    /\ Given(p)
    /\ Op(p) = "new"
    /\ seen' = Watched(p)
    /\ LET r == Proc[p].rid IN
       IF MayCreate(r)
       THEN /\ proc' = [proc EXCEPT ![p].pc = "write", ![p].cur = New(r)]
            /\ did' = [did EXCEPT ![r] = <<>>]
       ELSE Leave(p, "failed") /\ UNCHANGED did
    /\ UNCHANGED <<now, routine, writing, there, events, mix, ran, disturbed>>

\* pause and resume: what was read, with the other switch.
Switch(p) ==
    /\ Given(p)
    /\ Op(p) \in {"pause", "resume"}
    /\ seen' = Watched(p)
    /\ LET r == Proc[p].rid IN
       IF r \in Saved
       THEN proc' = [proc EXCEPT ![p].pc = "write", ![p].base = routine[r],
                                 ![p].cur = [routine[r] EXCEPT !.enabled = Op(p) = "resume"]]
       ELSE Leave(p, "failed")
    /\ UNCHANGED <<now, routine, writing, there, events, mix, ghosts>>

\* delete_routine.
Delete(p) ==
    /\ Given(p)
    /\ Op(p) = "rm"
    /\ seen' = Watched(p)
    /\ LET r == Proc[p].rid IN
       IF r \in Saved
       THEN routine' = [routine EXCEPT ![r] = None] /\ Leave(p, "done")
       ELSE Leave(p, "failed") /\ UNCHANGED routine
    /\ UNCHANGED <<now, writing, there, events, mix, ghosts>>

\* The Bot is deleted with its directory, the routines and what is being written.
DeleteBot(p) ==
    /\ Given(p)
    /\ Op(p) = "rmbot"
    /\ LET b == Bot[Proc[p].rid]  Own(f) == [r \in Rids |-> IF Bot[r] = b THEN None ELSE f[r]] IN
        /\ there' = [there EXCEPT ![b] = FALSE]
        /\ routine' = Own(routine)
        /\ writing' = Own(writing)
    /\ Leave(p, "done")
    /\ UNCHANGED <<now, seen, events, mix, ghosts>>

\* routine run: the schedule does not matter, nor whether it is paused.
Rehearse(p) ==
    /\ Given(p)
    /\ Op(p) = "run"
    /\ seen' = Watched(p)
    /\ LET r == Proc[p].rid IN
       IF r \in Saved
       THEN proc' = [proc EXCEPT ![p].pc = "work", ![p].at = now,
                                 ![p].base = routine[r], ![p].cur = routine[r]]
       ELSE Leave(p, "failed")
    /\ UNCHANGED <<now, routine, writing, there, events, mix, ghosts>>

-----------------------------------------------------------------------------
(***************************************************************************)
(* A tick: the idle guard, then what is due, one after the other.            *)
(***************************************************************************)

\* The time is read once, and so is the list of what nobody watches. (The timer
\* of "up" comes round once a minute, and as often as it likes in the last one.)
Tick(p) ==
    /\ Given(p)
    /\ Scheduler(p)
    /\ proc[p].at # now \/ now = mix.until
    /\ seen' = Watched(p)
    /\ proc' = [proc EXCEPT ![p].pc = "pausing", ![p].at = now,
                            ![p].todo = Copies(Idle(now)), ![p].next = "pausing"]
    /\ UNCHANGED <<now, routine, writing, there, events, mix, ghosts>>

PauseNext(p) ==
    /\ At(p, "pausing")
    /\ proc[p].todo # <<>>
    /\ proc' = [proc EXCEPT ![p].pc = "write", ![p].todo = Tail(@),
                            ![p].base = Head(proc[p].todo),
                            ![p].cur = [Head(proc[p].todo) EXCEPT !.enabled = FALSE]]
    /\ UNCHANGED <<now, files, mix, ghosts>>

\* due: read once for the whole tick. A dry run ends here.
LoadDue(p) ==
    /\ At(p, "pausing")
    /\ proc[p].todo = <<>>
    /\ IF Proc[p].dry THEN Leave(p, "done")
       ELSE proc' = [proc EXCEPT ![p].pc = "next", ![p].next = "next",
                                 ![p].todo = Copies(Due(proc[p].at))]
    /\ UNCHANGED <<now, files, mix, ghosts>>

\* A Bot that cannot be read ends the whole command.
TakeNext(p) ==
    /\ At(p, "next")
    /\ proc[p].todo # <<>>
    /\ IF there[Bot[Head(proc[p].todo).id]]
       THEN proc' = [proc EXCEPT ![p].pc = "work", ![p].todo = Tail(@),
                                 ![p].base = Head(proc[p].todo),
                                 ![p].cur = Head(proc[p].todo)]
       ELSE Leave(p, "failed")
    /\ UNCHANGED <<now, files, mix, ghosts>>

NothingLeft(p) ==
    /\ At(p, "next")
    /\ proc[p].todo = <<>>
    /\ IF Op(p) = "post" THEN Goto(p, "remember") ELSE Leave(p, "done")
    /\ UNCHANGED <<now, files, mix, ghosts>>

-----------------------------------------------------------------------------
(***************************************************************************)
(* An event.                                                                *)
(***************************************************************************)

Deliver(p) ==
    /\ Given(p)
    /\ Op(p) = "post"
    /\ LET hits == TriggeredBy(Proc[p].event) IN
       proc' = [proc EXCEPT ![p].pc = "next", ![p].next = "next", ![p].hits = hits,
                            ![p].todo = Copies(hits),
                            ![p].after = {q \in Procs : Op(q) = "post" /\ At(q, "done")}]
    /\ UNCHANGED <<now, files, mix, ghosts>>

\* remember_event, after the work.
Remember(p) ==
    /\ At(p, "remember")
    /\ events' = IF Proc[p].event.id = None THEN events
                 ELSE Append(events, [id |-> Proc[p].event.id, by |-> p])
    /\ Leave(p, "done")
    /\ UNCHANGED <<now, routine, writing, there, seen, mix, ghosts>>

-----------------------------------------------------------------------------
(***************************************************************************)
(* The run of the agent, and saving what came of it.                        *)
(***************************************************************************)

\* A person had the computer, or a service was briefly not there: to be repeated.
Outcome(p, retryable) ==
    [at |-> IF Op(p) = "post" THEN now ELSE proc[p].at, retryable |-> retryable,
     manual |-> FALSE]

Noted(p, run) ==
    IF Op(p) = "run" THEN RecordManual(proc[p].cur, run) ELSE RecordRun(proc[p].cur, run)

Work(p, retryable) ==
    /\ At(p, "work")
    /\ LET r == proc[p].cur.id IN
        /\ proc' = [proc EXCEPT ![p].pc = "write", ![p].cur = Noted(p, Outcome(p, retryable))]
        /\ did' = IF Scheduler(p) /\ ~retryable
                  THEN [did EXCEPT ![r] = Append(@, proc[p].at)] ELSE did
        /\ ran' = IF Op(p) = "post" THEN [ran EXCEPT ![r] = Append(@, p)] ELSE ran
        /\ disturbed' = IF Late(p) THEN disturbed \cup {r} ELSE disturbed
    /\ UNCHANGED <<now, files, mix>>

\* save_routine, into the one temporary file of that routine ...
SaveWrite(p) ==
    /\ At(p, "write")
    /\ writing' = [writing EXCEPT ![proc[p].cur.id] = proc[p].cur]
    /\ disturbed' = IF Contended(p, proc[p].cur.id) THEN disturbed \cup {proc[p].cur.id}
                    ELSE disturbed
    /\ Goto(p, "rename")
    /\ UNCHANGED <<now, routine, there, seen, events, mix, did, ran>>

\* ... which is renamed, with whatever is in it by then.
SaveRename(p) ==
    /\ At(p, "rename")
    /\ LET r == proc[p].cur.id IN
       IF writing[r] = None
       THEN Leave(p, "failed") /\ UNCHANGED <<routine, writing, disturbed>>
       ELSE /\ routine' = [routine EXCEPT ![r] = writing[r]]
            /\ writing' = [writing EXCEPT ![r] = None]
            /\ IF proc[p].next = "done" THEN Leave(p, "done")
               ELSE proc' = [proc EXCEPT ![p].pc = proc[p].next, ![p].cur = None,
                                                            ![p].base = None]
            /\ disturbed' = IF routine[r] # proc[p].base THEN disturbed \cup {r} ELSE disturbed
    /\ UNCHANGED <<now, there, seen, events, mix, did, ran>>

\* The process dies, or "up" is stopped and its child killed with it. What the
\* run did is done, and nothing says so.
Crash(p) ==
    /\ ~At(p, "idle") /\ ~Ended(p)
    /\ p \in mix.mortal
    /\ proc' = [proc EXCEPT ![p] = [Blank EXCEPT !.pc = "dead", !.lives = proc[p].lives, !.at = proc[p].at,
                                                 !.hits = proc[p].hits, !.after = proc[p].after]]
    /\ disturbed' = IF proc[p].cur = None THEN disturbed ELSE disturbed \cup {proc[p].cur.id}
    /\ UNCHANGED <<now, files, mix, did, ran>>

\* "up" is started again, and its timer with it.
Restart(p) ==
    /\ Op(p) = "up"
    /\ At(p, "dead")
    /\ proc[p].lives > 0
    /\ proc' = [proc EXCEPT ![p].pc = "idle", ![p].lives = @ - 1]
    /\ UNCHANGED <<now, files, mix, ghosts>>

-----------------------------------------------------------------------------

\* What a tick does once it has begun.
Onward(p) ==
    \/ PauseNext(p) \/ LoadDue(p) \/ TakeNext(p) \/ NothingLeft(p)
    \/ Work(p, TRUE) \/ Work(p, FALSE) \/ SaveWrite(p) \/ SaveRename(p)

Step(p) ==
    \/ Look(p) \/ Create(p) \/ Switch(p) \/ Delete(p) \/ DeleteBot(p) \/ Rehearse(p)
    \/ Tick(p) \/ Deliver(p) \/ Remember(p)
    \/ Onward(p) \/ Crash(p) \/ Restart(p)

Next == Clock \/ \E p \in Procs : Step(p)

Spec == Init /\ [][Next]_vars

\* The clock goes on, the timer of "up" comes round, and a tick that has begun
\* ends: a turn has a limit of steps, and every wait in it a limit of time.
FairSpec ==
    /\ Spec
    /\ WF_vars(Clock)
    /\ \A p \in Procs : Op(p) = "up" => WF_vars(Tick(p) \/ Onward(p) \/ Restart(p))

-----------------------------------------------------------------------------

TypeOK ==
    /\ now \in Times
    /\ \A r \in Rids : {routine[r], writing[r]} \subseteq Record \cup {None}
    /\ there \in [Bots -> BOOLEAN]
    /\ seen \in Times \cup {None}
    /\ \A r \in Rids : routine[r] # None => Len(routine[r].runs) <= MaxRunsKept
    /\ \A p \in Procs : proc[p].pc \in Sections /\ proc[p].at \in {None} \cup 0 .. now

\* A firing is worked off once: between two times a routine did its work for the
\* schedule there is a firing, unless a crash or a second process came between.
\* up.rs:264-267, "the only thing worse than a digest that does not arrive is two".
OncePerFiring ==
    \A r \in Rids \ disturbed : \A i \in 2 .. Len(did[r]) :
        Fires(r, did[r][i - 1], did[r][i]) # {}

\* A firing nobody worked off stays owed, however long the scheduler slept and
\* whoever rehearsed the routine meanwhile. lib.rs:2668-2698 and 3030-3044.
StaysOwed ==
    \A r \in Saved \ disturbed :
        (did[r] # <<>> /\ routine[r].enabled /\ Fires(r, Last(did[r]), now) # {})
        => \/ IsDue(routine[r], now)
           \/ routine[r].retry # None
           \/ \E p \in Procs : proc[p].cur # None /\ proc[p].cur.id = r

\* Attempts that have to be repeated come further and further apart, as long as
\* nobody rehearses in between. lib.rs:3003-3026.
BacksOff ==
    \A r \in Saved \ disturbed : \A i, k \in DOMAIN routine[r].runs :
        LET runs == routine[r].runs IN
        (i < k /\ Trigger[r].kind = "schedule" /\ ~runs[k].manual /\ \A m \in i .. k - 1 : runs[m].retryable)
        => runs[k].at - runs[k - 1].at
             >= Cooloff * 2 ^ Min({k - 1 - i, BackoffSteps})

\* A delivery that has been dealt with is not acted on again when the sender
\* repeats it, within what is remembered. lib.rs:2924-2930.
EventOnce ==
    \A r \in Rids : \A q \in ToSet(ran[r]) : \A i \in DOMAIN events :
        (Proc[q].event.id = events[i].id /\ events[i].by \in proc[q].after)
        => Remembered <= Cardinality({k \in DOMAIN events : k > i /\ events[k].by \in proc[q].after})

\* An id is remembered only when all it triggered has been run, so that what a
\* crash cut short is done when the sender repeats it. main.rs:1576-1582.
WorkBeforeMemory ==
    \A i \in DOMAIN events : \A r \in proc[events[i].by].hits : events[i].by \in ToSet(ran[r])

\* Nothing runs on a schedule when nobody has looked for IdleAfter, unless
\* somebody switches it on again. lib.rs:2887-2900.
NobodyWatching ==
    \A p \in Procs :
        (Scheduler(p) /\ At(p, "work") /\ IdleAfter # None /\ seen # None)
        => \/ proc[p].at - seen < IdleAfter
           \/ proc[p].cur.id \in disturbed
           \/ \E q \in mix.procs : Op(q) \in {"resume", "new"}

Timed == \E p \in mix.procs : Op(p) = "up" /\ ~(At(p, "dead") /\ proc[p].lives = 0)

\* Whatever is due is run, or stops being due. up.rs:227-234.
DueIsServed ==
    \A r \in Rids : (r \in Due(now) /\ Timed) ~> (r \notin Due(now) \/ ~Timed)

\* A firing, or a delivery, is worked off once and is not forgotten: neither by a crash, a
\* failure that has to be repeated, a rehearsal, nor a person who is away.
\* lib.rs:2668-3044, main.rs:1560-1625.
WorkedOffOnce ==
    /\ TypeOK
    /\ OncePerFiring /\ StaysOwed /\ BacksOff /\ NobodyWatching
    /\ EventOnce /\ WorkBeforeMemory

=============================================================================
