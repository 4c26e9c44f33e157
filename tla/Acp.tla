---------------------------------- MODULE Acp ----------------------------------
(***************************************************************************)
(* botroster acp (crates/botroster-cli/src/acp): a process a window or an editor  *)
(* spawns, and talks to over a pipe. It keeps sessions, one turn at a time in    *)
(* each; a prompt said during a turn joins it; what the turn says and what it     *)
(* asks goes back over the pipe.                                             *)
(*                                                                         *)
(* The connection handles one message at a time, in the order they were sent;     *)
(* turns, and the answers of the prompts that joined one, are tasks beside it.    *)
(* A turn itself is module Turn's: here it says something, asks, and ends.        *)
(* What is delivered to the client is the client's (module Window): an action     *)
(* here ends by handing it `updates`, `cards`, `reply` or `loaded`.               *)
(***************************************************************************)
EXTENDS Sequences, SequencesExt, FiniteSets, Integers

CONSTANTS Sessions,   \* the ids the client names its sessions by
          Prompts,    \* the messages a person sends
          Job,        \* [session, blocks]: where each goes, and what it is made of: text,
                      \* pictures, or both
          Want,       \* what each session asks for: [bot, group, cwd], as _meta says it
          Groups, Members,   \* the groups there are; who is in one
          Mixes,      \* accounts: which prompts, how long a turn is, what may go wrong
          None

VARIABLES
    mix,       \* the account of this behaviour
    agent,     \* whether the process is there
    bots,      \* the Bots there are
    session,   \* its sessions: [target, turn, said, stop], or None
    turn,      \* its turns, each named by the prompt that started it
    events,    \* what a turn said and the events task has not passed on
    questions, \* what a turn's permissions task still has to ask, the first one being asked
    hub,       \* what the hub says of each question: open, granted, denied, given up
    toAgent,   \* the pipe, from the client
    updates,   \* the engine's stream of session/update, by session: no two sessions' order is told apart
    cards,     \* the engine's stream of session/request_permission
    waits,     \* what became of each card: [state, choice]
    reply,     \* the response of each session/prompt
    loaded,    \* the response of each session/load
    heard,     \* prompts a model read
    sent,      \* every update of a session, in the order it was sent
    pressed    \* turns a person asked to stop

acpVars == <<mix, agent, bots, session, turn, events, questions, hub, toAgent,
             updates, cards, waits, reply, loaded, heard, sent, pressed>>

Asks == Prompts \X (1 .. 2)      \* a turn, and which of its questions

-----------------------------------------------------------------------------
(* What a session answers in.                                               *)

\* requested_bot, requested_group, bot_name_for: a name that is blank is no request.
Requested(name) == IF name = "" THEN None ELSE name
BotNameFor(cwd) == IF cwd = "/" THEN "workspace" ELSE cwd

\* resolve_target: the pin, a Bot by name, a group by name - one there is - or the
\* directory's Bot.
ResolveTarget(w) ==
    IF mix.pin # None           THEN [kind |-> "bot", name |-> mix.pin]
    ELSE IF Requested(w.bot) # None THEN [kind |-> "bot", name |-> w.bot]
    ELSE IF Requested(w.group) = None THEN [kind |-> "bot", name |-> BotNameFor(w.cwd)]
    ELSE IF w.group \in Groups  THEN [kind |-> "group", name |-> w.group]
    ELSE None

\* existing_or_new.
ExistingOrNew(t) == IF t # None /\ t.kind = "bot" THEN bots \cup {t.name} ELSE bots

\* one_turn: who answers in a group is decided by the message; somebody who is not in it
\* answers nothing.
OwnerFor(t) ==
    IF t.kind = "bot" THEN t.name
    ELSE IF mix.mention = None THEN CHOOSE m \in Members : TRUE
    ELSE IF mix.mention \in Members THEN mix.mention ELSE None

-----------------------------------------------------------------------------
(* What is said and how it is put.                                           *)

Readable(p)   == Job[p].blocks \in {"text", "mixed"}   \* prompt_text: text and links
Unreadable(p) == Job[p].blocks \in {"mixed", "image"}  \* and what it could not read

Note(p)       == [kind |-> "note", of |-> p, n |-> 0]
Redirected(p) == [kind |-> "redirected", of |-> p, n |-> 0]
Text(p, n)    == [kind |-> "text", of |-> p, n |-> n]
History(k)    == [kind |-> "history", of |-> None, n |-> k]
Earlier       == [kind |-> "earlier", of |-> None, n |-> 0]

Send(s, list) ==
    /\ updates' = [updates EXCEPT ![s] = @ \o list]
    /\ sent' = [sent EXCEPT ![s] = @ \o list]

\* serve, session/load: what is not shown is said to be missing, and the rest is replayed
\* oldest first.
ReplayNotice(total, shown) == IF total <= shown THEN <<>> ELSE <<Earlier>>
Replay(total, limit) ==
    LET shown == IF total <= limit THEN total ELSE limit
    IN  ReplayNotice(total, shown) \o [k \in 1 .. shown |-> History(total - shown + k)]

\* turn_end, and serve: what a client is told of how a turn ended.
TurnEnd(reason) ==
    CASE reason = "Completed" -> "EndTurn"
      [] reason = "StepLimit" -> "MaxTurnRequests"
      [] reason = "Cancelled" -> "Cancelled"
      [] reason \in {"ModelFailed", "HubFailed", "NotAMember"} -> "error"

\* decision: an option that was not offered decides nothing, and asking that failed or was
\* withdrawn decides nothing either; the caller denies.
Decision(choice) ==
    CASE choice \in {"allow-once", "allow-always"} -> "allow"
      [] OTHER                                     -> "deny"

-----------------------------------------------------------------------------
(* The connection.                                                          *)

\* bind_session: not under a turn that is running.
Bound(s) == session[s] = None \/ session[s].turn = None

Fresh(t) == [target |-> t, turn |-> None, said |-> <<>>, stop |-> FALSE]

\* What a session can be, for every account: it answers in a Bot or a group somebody named.
Names == {m.pin : m \in Mixes} \cup Groups
             \cup UNION {{Want[s].bot, BotNameFor(Want[s].cwd)} : s \in Sessions}
Targets == [kind : {"bot", "group"}, name : Names]
SessionRecords == [target : Targets, turn : Prompts \cup {None}, said : Seq(Prompts), stop : BOOLEAN]

\* Messages go to sessions there are, no name is of two kinds, and None is none of what it stands beside.
ASSUME AcpAssumption ==
    /\ \A p \in Prompts : Job[p].session \in Sessions
    /\ \A m \in Mixes : /\ m.prompts \subseteq Prompts /\ m.opens \subseteq Sessions
                       /\ m.history \in Nat /\ m.replayLimit \in Nat
    /\ None \notin Sessions /\ None \notin Prompts /\ None \notin SessionRecords
    /\ Prompts \cap Sessions = {}
    /\ None \notin {"EndTurn", "MaxTurnRequests", "Cancelled", "error", "unheard"}
    /\ None \notin {"allow-once", "allow-always", "ok", "first"}

Load(s) ==
    LET t == ResolveTarget(Want[s])
    IN  /\ bots' = ExistingOrNew(t)
        /\ IF t = None \/ ~Bound(s)
           THEN loaded' = [loaded EXCEPT ![s] = "refused"] /\ UNCHANGED <<session, updates, sent>>
           ELSE /\ session' = [session EXCEPT ![s] = Fresh(t)]
                /\ Send(s, Replay(mix.history, mix.replayLimit))
                /\ loaded' = [loaded EXCEPT ![s] = "ok"]
        /\ UNCHANGED <<turn, events, reply>>

\* claim_turn: a turn of its own, with a flag of its own.
ClaimAsItIs(s, p) == [session[s] EXCEPT !.turn = p, !.said = <<>>]
Claim(s, p)       == [session[s] EXCEPT !.turn = p, !.said = <<>>, !.stop = FALSE]

\* The notice of what could not be read is sent by the prompt that starts the turn; one
\* that joins has it in its text.
NoteOf(p)      == IF Unreadable(p) THEN <<Note(p)>> ELSE <<>>

JoinNote(s, p)    == UNCHANGED <<updates, sent>>

Prompt(p) ==
    LET s == Job[p].session
    IN  /\ IF ~Readable(p) \/ session[s] = None
           THEN /\ reply' = [reply EXCEPT ![p] = "error"]
                /\ UNCHANGED <<session, turn, updates, sent>>
           ELSE IF session[s].turn # None
           THEN /\ session' = [session EXCEPT ![s].said = Append(@, p)]    \* join_turn
                /\ turn' = [turn EXCEPT ![p].pc = "joined", ![p].with = session[s].turn]
                /\ JoinNote(s, p) /\ UNCHANGED reply
           ELSE /\ session' = [session EXCEPT ![s] = Claim(s, p)]
                /\ turn' = [turn EXCEPT ![p].pc = "top"]
                /\ Send(s, NoteOf(p)) /\ UNCHANGED reply
        /\ UNCHANGED <<bots, events, loaded>>

\* session/cancel: flips the running turn's flag, and is nothing on an idle session.
Cancel(s) ==
    /\ session' = IF session[s] # None /\ session[s].turn # None
                  THEN [session EXCEPT ![s].stop = TRUE] ELSE session
    /\ UNCHANGED <<bots, turn, events, updates, sent, reply, loaded>>

Receive ==
    /\ agent /\ toAgent # <<>>
    /\ toAgent' = Tail(toAgent)
    /\ LET m == Head(toAgent)
       IN  \/ m.kind = "load" /\ Load(m.session)
           \/ m.kind = "prompt" /\ Prompt(m.prompt)
           \/ m.kind = "cancel" /\ Cancel(m.session)
    /\ UNCHANGED <<mix, agent, questions, hub, cards, waits, heard, pressed>>

-----------------------------------------------------------------------------
(* A turn.                                                                  *)

At(p, pc) == agent /\ turn[p].pc = pc
Mine(p)   == session[Job[p].session]
Goes(p, pc) == turn' = [turn EXCEPT ![p].pc = pc]
Over(p, why) == turn' = [turn EXCEPT ![p].pc = "over", ![p].why = why]
Says(p, list) == events' = [events EXCEPT ![p] = @ \o list]

\* The top of a step (module Turn, StepTop): stop, or take what was said and go on.
Top(p) ==
    /\ At(p, "top")
    /\ LET s == Job[p].session IN
       IF OwnerFor(Mine(p).target) = None
       THEN Over(p, "NotAMember") /\ UNCHANGED <<session, events, heard>>
       ELSE IF Mine(p).stop
       THEN Over(p, "Cancelled") /\ UNCHANGED <<session, events, heard>>
       ELSE /\ session' = [session EXCEPT ![s].said = <<>>]
            /\ Says(p, [i \in DOMAIN Mine(p).said |-> Redirected(Mine(p).said[i])])
            /\ IF turn[p].step >= mix.steps
               THEN Over(p, "StepLimit") /\ UNCHANGED heard
               ELSE /\ turn' = [turn EXCEPT ![p].pc = "thinking", ![p].step = @ + 1]
                    /\ heard' = heard \cup {p} \cup Range(Mine(p).said)
    /\ UNCHANGED <<mix, agent, bots, questions, hub, toAgent, updates, cards, waits, reply, loaded,
                   sent, pressed>>

\* The model answers; a call that needs a person's yes is put to the hub, which asks.
Think(p) ==
    /\ At(p, "thinking")
    /\ IF Mine(p).stop THEN Over(p, "Cancelled") /\ UNCHANGED <<events, questions, hub>>
       ELSE \/ /\ Over(p, "Completed") /\ Says(p, <<Text(p, turn[p].step)>>)
               /\ UNCHANGED <<questions, hub>>
            \/ /\ p \in mix.fails /\ Over(p, "ModelFailed")
               /\ UNCHANGED <<events, questions, hub>>
            \/ /\ p \in mix.asks
               /\ LET a == <<p, turn[p].step>> IN
                  /\ a \in Asks
                  /\ hub' = [hub EXCEPT ![a] = "open"]
                  /\ questions' = [questions EXCEPT ![p] = Append(@, a)]
               /\ Goes(p, "waiting") /\ Says(p, <<Text(p, turn[p].step)>>)
    /\ UNCHANGED <<mix, agent, bots, session, toAgent, updates, cards, waits, reply, loaded, heard,
                   sent, pressed>>

\* The events task.
PassOn(p) ==
    /\ agent /\ events[p] # <<>>
    /\ events' = [events EXCEPT ![p] = <<>>]
    /\ Send(Job[p].session, events[p])
    /\ UNCHANGED <<mix, agent, bots, session, turn, questions, hub, toAgent, cards, waits, reply,
                   loaded, heard, pressed>>

\* The permissions task asks one question at a time.
Ask(p) ==
    /\ agent /\ questions[p] # <<>> /\ turn[p].pc # "ended"
    /\ LET a == Head(questions[p]) IN
       /\ waits[a].state = "none"
       /\ waits' = [waits EXCEPT ![a].state = "open"]
       /\ cards' = Append(cards, [ask |-> a, session |-> Job[p].session])
    /\ UNCHANGED <<mix, agent, bots, session, turn, events, questions, hub, toAgent, updates, reply,
                   loaded, heard, sent, pressed>>

\* The hub's own deadline (DEFAULT_APPROVAL_TIMEOUT): the call is refused, the turn goes on, the card stays.
Expire(p) ==
    /\ At(p, "waiting")
    /\ LET a == <<p, turn[p].step>> IN hub[a] = "open" /\ hub' = [hub EXCEPT ![a] = "given up"]
    /\ Goes(p, "top")
    /\ UNCHANGED <<mix, agent, bots, session, events, questions, toAgent, updates, cards, waits, reply,
                   loaded, heard, sent, pressed>>

\* The turn's connection to the hub dies under the call.
HubFails(p) ==
    /\ At(p, "waiting") /\ p \in mix.cut
    /\ hub' = [hub EXCEPT ![<<p, turn[p].step>>] = "given up"]
    /\ Over(p, "HubFailed")
    /\ UNCHANGED <<mix, agent, bots, session, events, questions, toAgent, updates, cards, waits, reply,
                   loaded, heard, sent, pressed>>

\* ask_client: the client's answer is the decision of the question it was given for, which
\* the hub takes when it still waits for it.
Decide(p, a, waiting) ==
    IF hub[waiting] = "open"
    THEN /\ hub' = [hub EXCEPT ![waiting] =
                        IF Decision(waits[a].choice) = "allow" THEN "granted" ELSE "denied"]
         /\ Goes(p, "top")
    ELSE UNCHANGED <<hub, turn>>

Answer(p) ==
    /\ agent /\ questions[p] # <<>> /\ turn[p].pc # "ended"
    /\ LET a == Head(questions[p]) IN
       /\ waits[a].state = "sent"
       /\ waits' = [waits EXCEPT ![a].state = "settled"]
       /\ Decide(p, a, a)
    /\ questions' = [questions EXCEPT ![p] = Tail(@)]
    /\ UNCHANGED <<mix, agent, bots, session, events, toAgent, updates, cards, reply, loaded, heard,
                   sent, pressed>>

\* one_turn: everything it said has gone out before it is answered.
NotAllSaid(p) == TRUE
AllSaid(p)    == events[p] = <<>>

NobodyJoined(p) == {}
JoinedTo(p)     == {q \in Prompts : turn[q].pc = "joined" /\ turn[q].with = p}

\* release_turn: whoever joined hears how it ended, or that it was not heard. The flag goes
\* with the turn.
Release(s) == [session[s] EXCEPT !.turn = None, !.said = <<>>]
JoinersToldTheStop(p, why) ==
    IF TurnEnd(why) = "error" THEN "Cancelled" ELSE TurnEnd(why)

JoinersTold(p, why) == IF Mine(p).said # <<>> THEN "unheard" ELSE JoinersToldTheStop(p, why)

End(p) ==
    /\ At(p, "over") /\ AllSaid(p)
    /\ session' = [session EXCEPT ![Job[p].session] = Release(Job[p].session)]
    /\ turn' = [q \in Prompts |->
                  IF q = p THEN [turn[q] EXCEPT !.pc = "ended"]
                  ELSE IF q \in JoinedTo(p)
                  THEN [turn[q] EXCEPT !.pc = "told", !.why = JoinersTold(p, turn[p].why)]
                  ELSE turn[q]]
    /\ questions' = [questions EXCEPT ![p] = <<>>]
    /\ reply' = [reply EXCEPT ![p] = TurnEnd(turn[p].why)]
    /\ UNCHANGED <<mix, agent, bots, events, hub, toAgent, updates, cards, waits, loaded, heard, sent,
                   pressed>>

\* The task of a prompt that joined.
Joined(q) ==
    /\ At(q, "told")
    /\ Goes(q, "ended") /\ reply' = [reply EXCEPT ![q] = turn[q].why]
    /\ UNCHANGED <<mix, agent, bots, session, events, questions, hub, toAgent, updates, cards, waits,
                   loaded, heard, sent, pressed>>

-----------------------------------------------------------------------------

AcpInit ==
    /\ mix \in Mixes
    /\ agent = TRUE /\ bots = {}
    /\ session = [s \in Sessions |-> None]
    /\ turn = [p \in Prompts |-> [pc |-> "idle", step |-> 0, why |-> None, with |-> None]]
    /\ events = [p \in Prompts |-> <<>>] /\ questions = [p \in Prompts |-> <<>>]
    /\ hub = [a \in Asks |-> "none"] /\ waits = [a \in Asks |-> [state |-> "none", choice |-> None]]
    /\ toAgent = <<>> /\ updates = [s \in Sessions |-> <<>>] /\ cards = <<>>
    /\ reply = [p \in Prompts |-> None] /\ loaded = [s \in Sessions |-> None]
    /\ heard = {} /\ sent = [s \in Sessions |-> <<>>] /\ pressed = {}

\* What the process does of its own accord.
AcpStep ==
    \/ Receive
    \/ \E p \in mix.prompts : Top(p) \/ Think(p) \/ PassOn(p) \/ Ask(p) \/ Answer(p) \/ End(p) \/ Joined(p)
Troubles == \E p \in mix.prompts : Expire(p) \/ HubFails(p)
=============================================================================
