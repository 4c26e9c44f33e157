-------------------------------- MODULE Window --------------------------------
(***************************************************************************)
(* The desktop window: the page, the shell behind it (crates/botroster-app), and  *)
(* the engine that drives botroster acp (crates/botroster-desktop), composed with   *)
(* that process (module Acp).                                                *)
(*                                                                         *)
(* A message on screen is a command of the shell that runs as long as its turn:   *)
(* it drains the engine's streams, keeps what is another conversation's in the     *)
(* inbox, puts questions on screen and looks for the answer to its prompt, over     *)
(* and over. Commands run beside each other; every lock they take is taken for one  *)
(* step, and a step below is what happens under one lock.                        *)
(***************************************************************************)
EXTENDS Acp

VARIABLES
    page,     \* what the page shows: the conversation, whether it is busy, its dialogs
    loop,     \* the commands that run a prompt: where each is and what it holds
    opener,   \* the commands that open a conversation
    engine,   \* whether the shell has an engine
    parked,   \* the questions it keeps, waiting for an answer
    inbox,    \* updates taken off the stream and not yet by their session
    stopping, \* a cancel between its two locks
    shown,    \* every update a conversation showed
    allowed,  \* questions a person, or the page for them, said yes to
    reported, \* answers the window reported as made
    raced     \* sessions whose updates two commands held at once, or a disconnect forgot

windowVars == <<page, loop, opener, engine, parked, inbox, stopping, shown, allowed, reported, raced>>
vars == <<acpVars, windowVars>>

Active(p) == loop[p].pc \notin {"idle", "done"}
Nothing   == [s \in Sessions |-> <<>>]

AcpUntouched == UNCHANGED <<mix, agent, bots, session, turn, events, questions, hub, reply, loaded,
                            heard, sent>>

\* What a command took off the stream, and off the inbox, and did not yet put further.
Hand(x)     == IF x \in Prompts THEN loop[x].held ELSE opener[x].held
Taken(x, s) == IF x \in Prompts /\ Job[x].session = s THEN loop[x].taken ELSE <<>>
Holders(s)  == {x \in Prompts \cup Sessions : Hand(x)[s] # <<>> \/ Taken(x, s) # <<>>}

\* Somebody else holds updates of a session.
Race(me, mine, list) ==
    raced' = raced \cup {s \in Sessions : (s = mine \/ list[s] # <<>>) /\ Holders(s) \ {me} # {}}

-----------------------------------------------------------------------------
(* PendingPermission.                                                       *)

\* answer: the engine's task waits for the first of these, and for nothing after it.
Settle(asks, choice) ==
    waits' = [a \in Asks |->
                IF a \in asks /\ waits[a].state = "open" THEN [state |-> "sent", choice |-> choice]
                ELSE waits[a]]

ParkedOf(s) == {a \in parked : Job[a[1]].session = s}

-----------------------------------------------------------------------------
(* A prompt: run_turn.                                                      *)

\* The page puts a message on screen when it starts a turn; one that joins comes back from
\* the agent when the Bot reads it.  Any command that returns ends the page's being busy, so it
\* can start one under a turn that runs.
Echo(p) == IF page.busy THEN "joins"
           ELSE IF \E q \in Prompts : Active(q) /\ Job[q].session = Job[p].session THEN "blind"
           ELSE "first"

\* The page: a message to the conversation it shows.
Message(p) ==
    /\ loop[p].pc = "idle" /\ engine /\ page.session = Job[p].session
    /\ \A q \in mix.prompts : <<q, p>> \in mix.order => loop[q].pc # "idle"
    /\ page' = [page EXCEPT !.busy = TRUE]
    /\ loop' = [loop EXCEPT ![p].pc = "look", ![p].echo = Echo(p)]
    /\ toAgent' = IF agent THEN Append(toAgent, [kind |-> "prompt", prompt |-> p, session |-> Job[p].session])
                  ELSE toAgent
    /\ AcpUntouched
    /\ UNCHANGED <<updates, cards, waits, pressed, opener, engine, parked, inbox, stopping, shown, allowed,
                   reported, raced>>

\* What a poll can find; a poll that finds nothing changes nothing.
Gone(p)      == ~agent /\ reply[p] = None
Findable(p)  == updates # Nothing \/ cards # <<>> \/ inbox[Job[p].session] # <<>> \/ reply[p] # None \/ Gone(p)

\* collect, the engine's lock: everything there is comes off the stream.
Drain(p) ==
    /\ loop[p].pc \in {"look", "last"} /\ (loop[p].pc = "last" \/ Findable(p) \/ ~engine)
    /\ IF engine
       THEN /\ loop' = [loop EXCEPT ![p].held = updates,
                                    ![p].pc = IF @ = "last" THEN "last keep" ELSE "keep"]
            /\ updates' = Nothing /\ Race(p, Job[p].session, updates)
       ELSE /\ loop' = [loop EXCEPT ![p].pc = "withdraw", ![p].result = "error"]
            /\ UNCHANGED <<updates, raced>>
    /\ AcpUntouched
    /\ UNCHANGED <<toAgent, cards, waits, pressed, page, opener, engine, parked, inbox, stopping,
                   shown, allowed, reported>>

\* Inbox::absorb: nothing is discarded.
Absorb(list) == [t \in Sessions |-> inbox[t] \o list[t]]

\* collect, the inbox's lock: absorb, and take one's own.
Keep(p) ==
    /\ loop[p].pc \in {"keep", "last keep"}
    /\ LET s == Job[p].session
           all == Absorb(loop[p].held)
       IN  /\ inbox' = [all EXCEPT ![s] = <<>>]
           /\ loop' = [loop EXCEPT ![p].held = Nothing, ![p].taken = all[s],
                                   ![p].pc = IF @ = "keep" THEN "show" ELSE "last show"]
           /\ Race(p, Job[p].session, loop[p].held)
    /\ AcpUntouched
    /\ UNCHANGED <<toAgent, updates, cards, waits, pressed, page, opener, engine, parked, stopping,
                   shown, allowed, reported>>

\* drain_updates emits; the engine's lock again, for the questions.
Show(p) ==
    /\ loop[p].pc \in {"show", "last show"}
    /\ shown' = [shown EXCEPT ![Job[p].session] = @ \o loop[p].taken]
    /\ IF loop[p].pc = "last show"
       THEN /\ loop' = [loop EXCEPT ![p].taken = <<>>, ![p].pc = "withdraw"]
            /\ UNCHANGED cards
       ELSE IF engine
       THEN /\ loop' = [loop EXCEPT ![p].taken = <<>>, ![p].asks = cards, ![p].pc = "park"]
            /\ cards' = <<>>
       ELSE /\ loop' = [loop EXCEPT ![p].taken = <<>>, ![p].pc = "withdraw", ![p].result = "error"]
            /\ UNCHANGED cards
    /\ AcpUntouched
    /\ UNCHANGED <<toAgent, updates, waits, pressed, page, opener, engine, parked, inbox, stopping,
                   allowed, reported, raced>>

\* enqueueAsk, in the page: a question announced for another conversation is refused there
\* and then; the command announces under its own session's name.
Announce(p, asks) ==
    IF page.session = Job[p].session
    THEN /\ parked' = parked \cup asks /\ page' = [page EXCEPT !.dialogs = @ \cup asks]
         /\ UNCHANGED waits
    ELSE UNCHANGED <<parked, page>> /\ Settle(asks, None)

\* The questions are parked, then put on screen, and the reply is looked for.
Park(p) ==
    /\ loop[p].pc = "park"
    /\ Announce(p, {loop[p].asks[i].ask : i \in DOMAIN loop[p].asks})
    /\ loop' = [loop EXCEPT ![p].asks = <<>>,
                            ![p].pc = CASE reply[p] \notin {None, "error", "unheard"} -> "last"
                                        [] reply[p] \in {"error", "unheard"} \/ Gone(p) -> "withdraw"
                                        [] OTHER -> "look",
                            ![p].result = IF Gone(p) THEN "error" ELSE reply[p]]
    /\ AcpUntouched
    /\ UNCHANGED <<toAgent, updates, cards, pressed, opener, engine, inbox, stopping, shown, allowed,
                   reported, raced>>

TakeDown(asks)     == page' = [page EXCEPT !.dialogs = @ \ asks]

\* withdraw_session: every question of the session that is parked is refused and its dialog
\* taken down; then the command returns, and the page is not busy.
WithdrawSession(p) ==
    /\ loop[p].pc = "withdraw"
    /\ LET asks == ParkedOf(Job[p].session) IN
       /\ Settle(asks, None) /\ parked' = parked \ asks
       /\ page' = [page EXCEPT !.dialogs = @ \ asks, !.busy = FALSE]
    /\ loop' = [loop EXCEPT ![p].pc = "done"]
    /\ AcpUntouched
    /\ UNCHANGED <<toAgent, updates, cards, pressed, opener, engine, inbox, stopping, shown, allowed,
                   reported, raced>>

-----------------------------------------------------------------------------
(* Opening a conversation: open_bot, open_group.                              *)

\* The page opens nothing while it is busy, and refuses its dialogs first.
Open(s) ==
    /\ opener[s].pc = "idle" /\ engine /\ ~page.busy
    /\ \A r \in mix.opens : <<r, s>> \in mix.openOrder => opener[r].pc \notin {"idle", "loading"}
    /\ Settle(page.dialogs, None) /\ parked' = parked \ page.dialogs
    /\ page' = [page EXCEPT !.session = None, !.dialogs = {}]
    /\ opener' = [opener EXCEPT ![s].pc = "loading"]
    /\ toAgent' = IF agent THEN Append(toAgent, [kind |-> "load", session |-> s]) ELSE toAgent
    /\ AcpUntouched
    /\ UNCHANGED <<updates, cards, pressed, loop, engine, inbox, stopping, shown, allowed, reported, raced>>

\* A client that is not the page loads a conversation again, under a running turn.
Reload(s) ==
    /\ s \in mix.reloads /\ agent /\ loaded[s] = "ok" /\ session[s].turn # None
    /\ toAgent = <<>> /\ toAgent' = <<[kind |-> "load", session |-> s]>>
    /\ AcpUntouched
    /\ UNCHANGED <<updates, cards, waits, pressed, windowVars>>

Opened(s) ==
    /\ opener[s].pc = "loading" /\ (loaded[s] # None \/ ~agent)
    /\ opener' = [opener EXCEPT ![s].pc = IF loaded[s] = "ok" /\ engine THEN "drain" ELSE "failed"]
    /\ AcpUntouched
    /\ UNCHANGED <<toAgent, updates, cards, waits, pressed, page, loop, engine, parked, inbox, stopping,
                   shown, allowed, reported, raced>>

\* collect, as above; then the conversation is on screen, history first.
DrainHistory(s) ==
    /\ opener[s].pc = "drain"
    /\ IF engine
       THEN /\ opener' = [opener EXCEPT ![s] = [pc |-> "keep", held |-> updates]]
            /\ updates' = Nothing /\ Race(s, s, updates)
       ELSE /\ opener' = [opener EXCEPT ![s].pc = "failed"] /\ UNCHANGED <<updates, raced>>
    /\ AcpUntouched
    /\ UNCHANGED <<toAgent, cards, waits, pressed, page, loop, engine, parked, inbox, stopping, shown,
                   allowed, reported>>

KeepHistory(s) ==
    /\ opener[s].pc = "keep"
    /\ LET all == Absorb(opener[s].held) IN
       /\ shown' = [shown EXCEPT ![s] = @ \o all[s]]
       /\ inbox' = [all EXCEPT ![s] = <<>>]
    /\ Race(s, s, opener[s].held)
    /\ opener' = [opener EXCEPT ![s] = [pc |-> "open", held |-> Nothing]]
    /\ page' = [page EXCEPT !.session = s]
    /\ AcpUntouched
    /\ UNCHANGED <<toAgent, updates, cards, waits, pressed, loop, engine, parked, stopping, allowed,
                   reported>>

-----------------------------------------------------------------------------
(* The person.                                                              *)

\* answer_permission and supply_secret: reported as made when the engine still waited for it.
Click(a, choice) ==
    /\ a \in page.dialogs /\ a \in parked
    /\ parked' = parked \ {a} /\ page' = [page EXCEPT !.dialogs = @ \ {a}]
    /\ Settle({a}, choice)
    /\ allowed' = IF Decision(choice) = "allow" THEN allowed \cup {a} ELSE allowed
    /\ reported' = IF waits[a].state = "open" THEN reported \cup {<<a, choice>>} ELSE reported
    /\ AcpUntouched
    /\ UNCHANGED <<toAgent, updates, cards, pressed, loop, opener, engine, inbox, stopping, shown, raced>>

\* cancel, the first lock: what is parked for the session is refused.
Stop ==
    /\ page.busy /\ page.session # None /\ stopping = None /\ mix.stops
    /\ \E p \in mix.prompts : Active(p) /\ p \notin pressed   \* pressed again, it does the same
    /\ LET s == page.session IN
       /\ stopping' = s
       /\ Settle(ParkedOf(s), None) /\ parked' = parked \ ParkedOf(s)
       /\ TakeDown(ParkedOf(s))
    /\ AcpUntouched
    /\ UNCHANGED <<toAgent, pressed, updates, cards, loop, opener, engine, inbox, shown, allowed, reported, raced>>

\* And then the engine is told.
TellAgent ==
    /\ stopping # None
    /\ toAgent' = IF engine /\ agent
                  THEN Append(toAgent, [kind |-> "cancel", session |-> stopping]) ELSE toAgent
    /\ pressed' = pressed \cup {p \in Prompts : Active(p) /\ Job[p].session = stopping}
    /\ stopping' = None
    /\ AcpUntouched
    /\ UNCHANGED <<updates, cards, waits, page, loop, opener, engine, parked, inbox, shown,
                   allowed, reported, raced>>

\* PERMISSION_ANSWER_TIMEOUT: long after the hub's own.
GiveUp(a) ==
    /\ waits[a].state = "open" /\ hub[a] = "given up" /\ agent
    /\ Settle({a}, None)
    /\ AcpUntouched /\ UNCHANGED <<toAgent, updates, cards, pressed, windowVars>>

\* disconnect: questions refused, the engine dropped and its process with it, the backlog
\* forgotten.
Disconnect ==
    /\ mix.disconnects /\ engine
    /\ Settle(parked, None) /\ parked' = {}
    /\ engine' = FALSE /\ agent' = FALSE
    /\ inbox' = Nothing /\ raced' = raced \cup {s \in Sessions : inbox[s] # <<>>}
    /\ updates' = Nothing /\ cards' = <<>> /\ toAgent' = <<>>
    /\ page' = [session |-> None, busy |-> FALSE, dialogs |-> {}]
    /\ UNCHANGED <<mix, bots, session, turn, events, questions, hub, reply, loaded, heard, sent,
                   pressed, loop, opener, stopping, shown, allowed, reported>>

\* The process dies.
AgentDies ==
    /\ mix.dies /\ agent
    /\ agent' = FALSE /\ toAgent' = <<>>
    /\ UNCHANGED <<mix, bots, session, turn, events, questions, hub, updates, cards, waits, reply,
                   loaded, heard, sent, pressed, windowVars>>

-----------------------------------------------------------------------------

Init ==
    /\ AcpInit
    /\ page = [session |-> None, busy |-> FALSE, dialogs |-> {}]
    /\ loop = [p \in Prompts |-> [pc |-> "idle", held |-> Nothing, taken |-> <<>>, asks |-> <<>>,
                                  result |-> None, echo |-> None]]
    /\ opener = [s \in Sessions |-> [pc |-> "idle", held |-> Nothing]]
    /\ engine = TRUE /\ parked = {} /\ inbox = Nothing /\ stopping = None
    /\ shown = Nothing /\ allowed = {} /\ reported = {} /\ raced = {}

Clicks == {"allow-once", "reject-once", "stale option"}

\* What the window's own commands do, once there is something to do.
WindowStep ==
    \/ \E p \in mix.prompts : Drain(p) \/ Keep(p) \/ Show(p) \/ Park(p) \/ WithdrawSession(p)
    \/ \E s \in mix.opens : Opened(s) \/ DrainHistory(s) \/ KeepHistory(s)
    \/ TellAgent
    \/ \E a \in Asks : GiveUp(a)

Person ==
    \/ \E p \in mix.prompts : Message(p)
    \/ \E s \in mix.opens : Open(s) \/ Reload(s)
    \/ \E a \in Asks, c \in Clicks : Click(a, c)
    \/ Stop \/ Disconnect \/ AgentDies

Next ==
    \/ (AcpStep \/ Troubles) /\ UNCHANGED windowVars
    \/ WindowStep
    \/ Person

Spec == Init /\ [][Next]_vars

\* The process and the window go on by themselves, and the hub gives up on a question
\* nobody answers; nothing is asked of the person.
Going == \/ AcpStep /\ UNCHANGED windowVars
         \/ (\E p \in mix.prompts : Expire(p)) /\ UNCHANGED windowVars
         \/ WindowStep

FairSpec == Spec /\ WF_vars(Going)

-----------------------------------------------------------------------------
(* Properties.                                                              *)

\* What each command and each turn holds: where it is; a dialog is a question of some turn
\* that got as far as asking (run_turn, open_bot, one_turn).
TypeOK ==
    /\ \A p \in Prompts :
        /\ loop[p].pc \in {"idle", "look", "keep", "show", "park", "last", "last keep", "last show",
                           "withdraw", "done"}
        /\ turn[p].pc \in {"idle", "top", "thinking", "waiting", "over", "ended", "joined", "told"}
        /\ reply[p] \in {None, "EndTurn", "MaxTurnRequests", "Cancelled", "error", "unheard"}
        /\ reply[p] # None => turn[p].pc \in {"ended", "idle"}
    /\ \A s \in Sessions : session[s] # None /\ session[s].turn # None => Job[session[s].turn].session = s
    /\ \A a \in page.dialogs : hub[a] # "none" /\ waits[a].state # "none"

Running(p) == turn[p].pc \in {"top", "thinking", "waiting", "over"}

\* One turn at a time in a session, and the session knows which: loading a conversation
\* under a running turn does not set it free for a second one (claim_turn, bind_session).
OneTurnAtATime ==
    agent => \A p \in Prompts : Running(p) => session[Job[p].session].turn = p

\* A command that returned with how its turn ended.
Shows(p) == loop[p].pc = "done" /\ loop[p].result \notin {None, "error", "unheard"}

\* What the Bot said is on screen when the command that showed it returns, its closing words
\* included, and so is the history of a conversation when it opens - unless two commands
\* held that conversation's updates at once, or the window let go of them when it was
\* disconnected (collect, run_turn's last drain, one_turn, disconnect).
NothingSaidIsLost ==
    \A s \in Sessions : s \notin raced =>
        /\ opener[s].pc = "open" => \A i \in DOMAIN sent[s] :
                sent[s][i].kind \in {"earlier", "history"} => sent[s][i] \in Range(shown[s])
        /\ \A p \in mix.prompts :
              Job[p].session = s /\ Shows(p)
                  => \A i \in DOMAIN sent[s] :
                        sent[s][i].kind = "text" /\ sent[s][i].of = p => sent[s][i] \in Range(shown[s])

\* A conversation is shown in the order it happened, with nothing of another's in it and
\* nothing twice (Inbox).
ShownInOrder == \A s \in Sessions : s \notin raced => IsPrefix(shown[s], sent[s])

\* A message the Bot read is on screen once: the page's own echo when it started the turn,
\* the agent's when it joined one. Except a message sent to join a turn that was over when it
\* arrived: it starts a turn, and nobody echoes it; and one the page echoed, no longer busy,
\* under a turn of the conversation that still runs: it joins, and is echoed again
\* (sendPrompt, update_for, join_turn).
OnScreenOnce ==
    \A p \in mix.prompts :
        LET s     == Job[p].session
            again == {i \in DOMAIN shown[s] : shown[s][i] = Redirected(p)}
        IN  /\ Cardinality(again) <= 1
            /\ loop[p].echo = "first" => again = {}
            /\ s \notin raced /\ turn[p].with # None /\ Shows(p) => again # {}

\* A prompt that came back with how its turn ended was read by the Bot: one that was said
\* too late is told so (release_turn). Except a turn that stopped for its own reasons
\* before it read anything, and one that took it with no step left.
HeardOrTold ==
    \A p \in mix.prompts : reply[p] = "EndTurn" => p \in heard

\* A question is answered yes only by a person who said yes to that very question: not by
\* a dialog that was withdrawn, by an option nobody offered, by a deadline or by a
\* window that went away (ask_client, decision, answer).
GrantIsThePersons == \A a \in Asks : hub[a] = "granted" => a \in allowed

\* What waits for an answer is what is on screen, and no question of the conversation on
\* screen outlives the commands that could show it (withdraw_session, cancel, run_turn:
\* "Parked before it is announced"). One of another conversation's can: a command takes
\* every card there is and announces it under its own session's name.
DialogsAreAnswerable ==
    /\ page.dialogs = parked
    /\ \A a \in parked : Job[a[1]].session = page.session =>
          \E p \in mix.prompts : Active(p) /\ Job[p].session = page.session

\* A stop reaches a turn of a message that was there when the agent was told, and never the
\* turn of a later one (claim_turn, release_turn, the order of the pipe).
StopIsForThatTurn ==
    \A p \in mix.prompts : turn[p].why = "Cancelled" /\ turn[p].with = None => p \in pressed

\* What could not be read is said once in the transcript: by the turn a prompt started, or
\* inside the text of one that joined (serve, session/prompt).
SaidOnce ==
    \A s \in Sessions : \A p \in mix.prompts :
        Unreadable(p) => Cardinality({i \in DOMAIN sent[s] : sent[s][i].of = p
                                        /\ sent[s][i].kind \in {"note", "redirected"}}) <= 1

\* An operator's pin is what every session answers in, whatever a client asks for, and no
\* group is invented (resolve_target).
TargetsAreThere ==
    \A s \in Sessions : session[s] # None =>
        LET t == session[s].target IN
        /\ mix.pin # None => t.kind = "bot" /\ t.name = mix.pin
        /\ t.name \in bots \cup Groups

\* Every message comes back with an answer, whatever was joined, asked, stopped, or died.
PromptsEnd == []<>(\A p \in Prompts : ~Active(p))

\* The window shows a conversation as it was: whole, in order, and everything said once
\* (Inbox, run_turn, sendPrompt, serve).
ShownAsItWas == NothingSaidIsLost /\ ShownInOrder /\ OnScreenOnce /\ SaidOnce

\* What a person decides is what happens, to the question they saw and to the turn they saw
\* (ask_client, withdraw_session, claim_turn).
ThePersonDecides == GrantIsThePersons /\ DialogsAreAnswerable /\ StopIsForThatTurn

\* A session answers one prompt at a time, as the Bot it was opened for, and every prompt it
\* took is read or its sender is told (claim_turn, release_turn, resolve_target).
OneTurnEachHeard == TypeOK /\ OneTurnAtATime /\ HeardOrTold /\ TargetsAreThere

=============================================================================
