-------------------------------- MODULE MCBots --------------------------------
(***************************************************************************)
(* Instances of Bots: commands given to one small account.                   *)
(***************************************************************************)
EXTENDS Bots, TLC, FiniteSetsExt

CONSTANTS botA, botB, botC,                          \* Bots
          crew,                                      \* a group
          run1, run2, run3, sendA, sendB, again,     \* inbox commands
          make, copy, renameA, renameB, hide, forget, \* edits of Bots
          team, unteam, rmA, rmB,                    \* groups and deletions
          post, postA, turn,                         \* turns
          t1, t2

MCJobs == {run1, run2, run3, sendA, sendB, again, make, copy, renameA, renameB,
           hide, forget, team, unteam, rmA, rmB, post, postA, turn}

Blank == [op |-> "run", bot |-> None, name |-> None, from |-> None, text |-> None,
          brief |-> FALSE, hidden |-> FALSE, members |-> <<>>, mention |-> None]
On1(op, bot)  == [Blank EXCEPT !.op = op, !.bot = bot]
Send(to, from, text) == [On1("send", to) EXCEPT !.from = from, !.text = text]
Name(op, bot, name)  == [On1(op, bot) EXCEPT !.name = name]

MCJob ==
    run1 :> On1("run", botB) @@ run2 :> On1("run", botB) @@ run3 :> On1("run", botB)
    @@ sendA :> Send(botB, botA, t1) @@ sendB :> Send(botB, None, t2) @@ again :> Send(botB, botA, t1)
    @@ make :> Name("create", None, botC) @@ copy :> Name("dup", botA, botC)
    @@ renameA :> [Name("set", botA, botC) EXCEPT !.brief = TRUE]
    @@ renameB :> Name("set", botB, botC)
    @@ hide :> [On1("hide", botA) EXCEPT !.hidden = TRUE]
    @@ forget :> On1("forget", botA)
    @@ team :> [Name("group", None, crew) EXCEPT !.members = <<botA, botB, botA>>]
    @@ unteam :> Name("rmgroup", None, crew)
    @@ rmA :> On1("delete", botA) @@ rmB :> On1("delete", botB)
    @@ post :> Name("post", None, crew)
    @@ postA :> [Name("post", None, crew) EXCEPT !.mention = botA]
    @@ turn :> On1("turn", botA)

\* Two runs and two senders, who may say the same; three runs; the roster edited by
\* up to four commands; three runs and two senders, that come in turn.
MCMixes ==
    {{run1, run2, sendA, sendB}, {run1, run2, sendA, again}, {run1, run2, run3, sendA},
     {run1, run2, run3, sendA, sendB}}
    \cup {{team, rmA, rmB, m} : m \in {make, post, postA, unteam}}
    \cup {{make, team, copy, rmA}, {renameA, renameB, hide, make}, {turn, forget, rmA, copy},
          {sendA, rmB, run1, team}, {renameA, rmA, make}}

\* Of three runs and two senders each run starts when the one before has ended, the
\* senders start in order, and only runs die: what is cut away either starts two runs
\* at once or only renames the commands.
InTurn ==
    {run3, sendB} \subseteq mix =>
        /\ job[run2].pc # "idle" => Ended(run1)
        /\ job[run3].pc # "idle" => Ended(run2)
        /\ job[sendB].pc # "idle" => job[sendA].pc # "idle"
        /\ ~At(sendA, "dead") /\ ~At(sendB, "dead")

=============================================================================
