------------------------------ MODULE MCRoutines ------------------------------
(***************************************************************************)
(* Instances of Routines: a scheduler, and what people and webhooks do         *)
(* meanwhile.                                                               *)
(***************************************************************************)
EXTENDS Routines, TLC

CONSTANTS daily, other, onpush,      \* routines
          b1, b2,                    \* their Bots
          up, cron, dry, pause, resume, rm, new, run, look, rmbot,
          post1, post2, post2again, posta,
          utc

MCProcs == {up, cron, dry, pause, resume, rm, new, run, look, rmbot,
            post1, post2, post2again, posta}
MCRids == {daily, other, onpush}
MCBot == daily :> b1 @@ other :> b2 @@ onpush :> b1

Part(lo, hi, step) == [lo |-> lo, hi |-> hi, step |-> step]
All == {Star}

\* The clock is put back two minutes at 3.
Clock1(t) == [minute |-> IF t >= 3 THEN t - 2 ELSE t, hour |-> 0,
              dom |-> 1, month |-> 1, dow |-> 0]
MCWall == utc :> [t \in Times |-> Clock1(t)]

Cron(minute) == [minute |-> minute, hour |-> All, dom |-> {Part(1, None, 1)}, month |-> All,
                 dow |-> {Part(6, 7, 1)}]

MCTrigger ==
    daily :> [kind |-> "schedule", zone |-> utc, cron |-> Cron({Part(1, None, 30)}) ]
    @@ other :> [kind |-> "schedule", zone |-> utc, cron |-> Cron({Part(2, None, 1)})]
    @@ onpush :> [kind |-> "event", source |-> "git",
                  matches |-> {[path |-> "ref", values |-> {"main"}]}]

Blank1(op, r) == [op |-> op, rid |-> r, tty |-> FALSE, dry |-> FALSE, event |-> None,
                   awaits |-> {}]
Event(id) == [Blank1("post", onpush) EXCEPT !.event =
                [source |-> "git", id |-> id, payload |-> [ref |-> "main"]]]

MCProc ==
    up :> Blank1("up", None) @@ cron :> Blank1("tick", None)
    @@ dry :> [Blank1("tick", None) EXCEPT !.dry = TRUE]
    @@ pause :> [Blank1("pause", daily) EXCEPT !.tty = TRUE] @@ resume :> Blank1("resume", daily)
    @@ rm :> Blank1("rm", daily) @@ new :> Blank1("new", daily)
    @@ run :> Blank1("run", daily) @@ look :> [Blank1("look", None) EXCEPT !.tty = TRUE]
    @@ rmbot :> Blank1("rmbot", other)
    @@ post1 :> Event("e1") @@ post2 :> [Event("e2") EXCEPT !.awaits = {post1}]
    @@ post2again :> Event("e2")
    @@ posta :> Event(None)

Account(rids, procs, mortal, until) ==
    [rids |-> rids, procs |-> procs, mortal |-> mortal, until |-> until]

MCMixes ==
    {Account({daily}, {up}, {up}, 4), Account({daily}, {up, cron}, {up}, 2),
     Account({daily}, {up, run}, {}, 4), Account({daily}, {up, look}, {}, 3),
     Account({daily}, {up, pause, resume}, {}, 3), Account({daily}, {up, rm, new}, {up}, 2),
     Account({daily, other}, {up, dry}, {}, 3), Account({daily, other}, {up, rmbot}, {}, 2),
     Account({onpush}, {post1, post2, post2again}, {}, 0),
     Account({onpush}, {posta, post1, new}, {posta}, 1)}
=============================================================================
