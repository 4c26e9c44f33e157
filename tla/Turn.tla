--------------------------------- MODULE Turn ---------------------------------
(***************************************************************************)
(* A turn of a Bot (crates/botroster-agent: agent.rs and hub_client.rs), the    *)
(* conversation it is seeded from and saved to (crates/botroster-bots), and the *)
(* function that joins them, run_task (crates/botroster-cli/src/main.rs).       *)
(*                                                                         *)
(* Every turn is a process: a window, a schedule and a webhook may have turns   *)
(* of one Bot under way at once. Each has a connection to the hub of its own,    *)
(* on which three tasks run: the loop, the reader and the writer. A conversation *)
(* is a file of lines; a line is a message or Junk, what nobody can parse.        *)
(***************************************************************************)
EXTENDS Provider, FiniteSetsExt

CONSTANTS Turns, Job,      \* the turns there may be, and what each is asked
          Mixes,           \* accounts: which turns run, which of them may die, whose hub
                           \* may die, who is stopped, what is said meanwhile, and what
                           \* the provider may answer (its calls carry no ids yet)
          ContextBudget,   \* CONVERSATION_CHAR_BUDGET
          KeepRecent,      \* KEEP_RECENT
          Junk             \* a line that does not parse

Threads == {"own", "group"}
Dropped == "dropped"

ASSUME TurnAssumption ==
    /\ {ContextBudget, KeepRecent} \subseteq Nat
    /\ \A p \in Turns : Job[p].thread \in Threads /\ Job[p].limit \in Nat /\ Job[p].steps \in Nat
    /\ \A m \in Mixes : m.turns \cup m.mortal \cup m.cut \cup m.stopped \subseteq Turns

VARIABLES
    mix,      \* the account of this behaviour
    turn,     \* every turn: where its loop is and what it holds
    wire,     \* its connection: the socket, the reader, the writer, and the call waiting
    said,     \* its Redirects: what a person said and the loop has not taken
    stop,     \* its cancel flag
    log,      \* conversation.jsonl of the Bot, and the thread of the group
    ragged,   \* a log whose last line has no end
    given,    \* everything said to each turn
    read,     \* what was said to it and went to the model
    cost,     \* what the provider reported, answer by answer
    made,     \* the calls it made
    disturbed \* turns whose look at the log was stale, or that a broken line swallowed

ghosts == <<given, read, cost, made, disturbed>>
vars == <<mix, turn, wire, said, stop, log, ragged, given, read, cost, made, disturbed>>

Set(p, pc) == turn' = [turn EXCEPT ![p].pc = pc]

-----------------------------------------------------------------------------
(* The conversation on disk.                                                *)

\* parse_lines.
ParseLines(lines) == SelectSeq(lines, LAMBDA l : l # Junk)

\* tail_lines.
TailLines(lines, want) ==
    IF Len(lines) <= want THEN lines ELSE SubSeq(lines, Len(lines) - want + 1, Len(lines))

\* keep_non_empty: a message left holding nothing goes.
KeepNonEmpty(messages) == SelectSeq(messages, LAMBDA m : m.content # <<>>)

AllIds(kind, messages) == UNION {Ids(kind, messages[i].content) : i \in DOMAIN messages}

\* The first pass: a result is kept when its call is behind it in the window.
WithoutOrphans(messages) ==
    KeepNonEmpty([i \in DOMAIN messages |->
        [messages[i] EXCEPT !.content = SelectSeq(@, LAMBDA b :
            b.kind = "result" => b.id \in AllIds("use", SubSeq(messages, 1, i - 1)))]])

\* The second: a call is kept when a result that was kept answers it.
WithoutUnanswered(messages) ==
    LET answered == AllIds("result", messages)
    IN  KeepNonEmpty([i \in DOMAIN messages |->
            [messages[i] EXCEPT !.content =
                SelectSeq(@, LAMBDA b : b.kind = "use" => b.id \in answered)]])

RepairWindow(messages) == WithoutUnanswered(WithoutOrphans(messages))

\* BotStore::history and BotStore::group_history.
History(limit)      == RepairWindow(ParseLines(TailLines(log["own"], limit)))
GroupHistory(limit) == ParseLines(TailLines(log["group"], limit))

\* append: a task the log ends with, unanswered, is not written again.
FreshLines(fresh) ==
    LET last == History(1)
    IN  IF last # <<>> /\ last[1].role = "user" /\ last[1] = fresh[1] THEN Tail(fresh) ELSE fresh

-----------------------------------------------------------------------------
(* compact.                                                                 *)

BlockSize(b) == IF b.kind = "result" /\ b.body # Dropped THEN 3 ELSE 1
Size(messages) ==
    FoldLeft(LAMBDA n, m : n + FoldLeft(LAMBDA k, b : k + BlockSize(b), 0, m.content),
             0, messages)

DropFirst(messages, n) ==
    [i \in DOMAIN messages |->
        IF i > n THEN messages[i]
        ELSE [messages[i] EXCEPT !.content =
                [k \in DOMAIN @ |-> IF @[k].kind = "result" THEN [@[k] EXCEPT !.body = Dropped]
                                    ELSE @[k]]]]

\* The oldest messages go, all of them.
CompactByRemoval(messages) ==
    IF Size(messages) <= ContextBudget \/ Len(messages) <= KeepRecent THEN messages
    ELSE TailLines(messages, KeepRecent)

\* The oldest results lose their contents, message by message, until the rest fits;
\* the last few are left alone.
Compact(messages) ==
    LET stopAt == IF Len(messages) > KeepRecent THEN Len(messages) - KeepRecent ELSE 0
        enough == {n \in 0 .. stopAt : Size(DropFirst(messages, n)) <= ContextBudget}
    IN  DropFirst(messages, IF enough = {} THEN stopAt ELSE Min(enough))

-----------------------------------------------------------------------------
(* Starting: connect, open a session, bind, read the conversation.             *)

Blank == [pc |-> "idle", msgs |-> <<>>, from |-> 0, step |-> 0, spent |-> 0, metered |-> TRUE,
          todo |-> <<>>, results |-> <<>>, fresh |-> <<>>, why |-> None, transient |-> FALSE]
Line == [socket |-> TRUE, reader |-> TRUE, writer |-> TRUE, waiter |-> None]

Failed(p, why, transient) ==
    turn' = [turn EXCEPT ![p].pc = "failed", ![p].why = why, ![p].transient = transient]

\* What fails before the run began leaves the conversation as it was.
Unreachable(p) ==
    /\ turn[p].pc = "idle" /\ p \in mix.cut
    /\ \E e \in {"Connect", "NoServerBound", "Refused"} : Failed(p, e, IsTransient(e))
    /\ UNCHANGED <<mix, wire, said, stop, log, ragged, ghosts>>

Begin(p) ==
    /\ turn[p].pc = "idle"
    /\ LET prior == IF Job[p].thread = "own" THEN History(Job[p].limit)
                    ELSE GroupHistory(Job[p].limit)
       IN  turn' = [turn EXCEPT ![p].pc = "top", ![p].from = Len(prior),
                                ![p].msgs = Append(prior, User(<<Text(Job[p].task)>>))]
    /\ UNCHANGED <<mix, wire, said, stop, log, ragged, ghosts>>

-----------------------------------------------------------------------------
(* The loop.                                                                *)

\* The run ends, for a reason, with what it has; what it has is saved.
Finish(t, why) == [t EXCEPT !.pc = "saving", !.why = why, !.todo = <<>>, !.results = <<>>]

Take(p) == said[p]

\* The top of a step: shrink the conversation, then look whether to stop, then take
\* what was said, then see whether the run may go on. None of it waits.
StepTop(p) ==
    /\ turn[p].pc = "top"
    /\ LET t    == [turn[p] EXCEPT !.msgs = Compact(@)]
           more == [t EXCEPT !.msgs = @ \o [i \in DOMAIN Take(p) |-> User(<<Text(Take(p)[i])>>)]]
       IN  IF stop[p]
           THEN /\ turn' = [turn EXCEPT ![p] = Finish(t, "Cancelled")]
                /\ UNCHANGED <<said, read>>
           ELSE /\ said' = [said EXCEPT ![p] = <<>>]
                /\ IF Job[p].budget # None /\ t.spent >= Job[p].budget
                   THEN turn' = [turn EXCEPT ![p] = Finish(more, "TokenBudget")] /\ UNCHANGED read
                   ELSE IF t.step >= Job[p].steps
                   THEN turn' = [turn EXCEPT ![p] = Finish(more, "StepLimit")] /\ UNCHANGED read
                   ELSE /\ turn' = [turn EXCEPT ![p] = [more EXCEPT !.pc = "thinking",
                                                                    !.step = @ + 1]]
                        /\ read' = [read EXCEPT ![p] = @ \o Take(p)]
    /\ UNCHANGED <<mix, wire, stop, log, ragged, given, cost, made, disturbed>>

\* model_turn_or_cancel: being stopped wins over an answer that is there.
Cancelled(p) ==
    /\ turn[p].pc = "thinking" /\ stop[p]
    /\ turn' = [turn EXCEPT ![p] = Finish(@, "Cancelled")]
    /\ UNCHANGED <<mix, wire, said, stop, log, ragged, ghosts>>

\* An answer that is there is taken, asked to stop or not.
MayAnswerAnyway(p) == turn[p].pc = "thinking"

MayAnswer(p) == turn[p].pc = "thinking" /\ ~stop[p]

ApartIds(uses) == \A i, k \in DOMAIN uses : uses[i].id = uses[k].id => i = k

\* The ids a provider gives: its own, or none at all.
WithIds(p, content) ==
    [i \in DOMAIN content |->
        IF content[i].kind = "use" /\ Job[p].ids
        THEN [content[i] EXCEPT !.id = <<p, turn[p].step, i>>] ELSE content[i]]

Spent(t, v) == IF v.usage = None THEN t.spent ELSE t.spent + v.usage

\* What the loop does with an answer.
Answered(t, v) ==
    IF v.error # None
    THEN [Finish(t, "ModelFailed") EXCEPT !.transient = ModelFailure(v.error)]
    ELSE LET uses == Only("use", v.content)
             told == [t EXCEPT !.msgs = Append(@, Assistant(v.content)), !.spent = Spent(t, v)]
         IN  CASE v.stop = "EndTurn"   -> Finish(told, "Completed")
               [] v.stop = "MaxTokens" -> Finish(told, "Truncated")
               [] v.stop = "Declined"  -> Finish(told, "Declined")
               [] v.stop = "ToolUse"   ->
                      IF uses = <<>> \/ ~ApartIds(uses) THEN Finish(told, "ModelFailed")
                      ELSE [told EXCEPT !.pc = "calling", !.todo = uses]

Answer(p) ==
    /\ MayAnswer(p)
    /\ \E r \in mix.replies :
        LET v == Turned(Job[p].dialect,
                        IF r.content = None THEN r ELSE [r EXCEPT !.content = WithIds(p, @)])
        IN  /\ turn' = [turn EXCEPT ![p] = Answered(@, v)]
            /\ cost' = [cost EXCEPT ![p] = @ + (IF v.usage = None THEN 0 ELSE v.usage)]
    /\ UNCHANGED <<mix, wire, said, stop, log, ragged, given, read, made, disturbed>>

-----------------------------------------------------------------------------
(* A tool call: HubClient::call, and what the loop makes of its answer.        *)

\* The id of the call as the provider gave it.
PlainCallId(p, use) == <<use.id>>

CallId(p, use) == <<use.id, turn[p].step>>

\* The waiter is registered, the frame is handed to the writer: a writer that has
\* gone takes no frame. Nobody looks whether the reader is still there.
Call(p) ==
    /\ turn[p].pc = "calling" /\ turn[p].todo # <<>>
    /\ LET use == Head(turn[p].todo)
       IN  IF wire[p].writer
           THEN /\ wire' = [wire EXCEPT ![p].waiter =
                                IF wire[p].reader THEN "pending" ELSE "late"]
                /\ made' = [made EXCEPT ![p] = Append(@, [id |-> CallId(p, use), tool |-> use.body])]
                /\ Set(p, "waiting")
           ELSE /\ turn' = [turn EXCEPT ![p] = Finish(@, "HubFailed")]
                /\ UNCHANGED <<wire, made>>
    /\ UNCHANGED <<mix, said, stop, log, ragged, given, read, cost, disturbed>>

\* What the hub may answer; a denial where nobody can approve ends the run, and so
\* does a person at the keyboard. Anything else is for the model to read.
Result(p, outcome) ==
    IF outcome = "taken over" THEN Finish(turn[p], "ComputerBusy")
    ELSE IF outcome = "denied" /\ Job[p].deniesAll THEN Finish(turn[p], "NothingApproved")
    ELSE LET use  == Head(turn[p].todo)
             rest == Tail(turn[p].todo)
             got  == Append(turn[p].results, ToolResult(use.id, outcome))
         IN  IF rest # <<>>
             THEN [turn[p] EXCEPT !.pc = "calling", !.todo = rest, !.results = got]
             ELSE [turn[p] EXCEPT !.pc = "top", !.todo = <<>>, !.results = <<>>,
                                  !.msgs = Append(@, User(got))]

Outcomes == {"ok", "denied", "taken over"}

Reply(p) ==
    /\ turn[p].pc = "waiting" /\ wire[p].waiter = "pending" /\ wire[p].socket
    /\ \E outcome \in Outcomes : turn' = [turn EXCEPT ![p] = Result(p, outcome)]
    /\ wire' = [wire EXCEPT ![p].waiter = None]
    /\ UNCHANGED <<mix, said, stop, log, ragged, ghosts>>

SocketDies(p) ==
    /\ p \in mix.cut /\ wire[p].socket /\ turn[p].pc \in {"thinking", "calling", "waiting"}
    /\ wire' = [wire EXCEPT ![p].socket = FALSE]
    /\ UNCHANGED <<mix, turn, said, stop, log, ragged, ghosts>>

FailWaiters(p) ==
    wire' = [wire EXCEPT ![p].reader = FALSE,
                         ![p].waiter = IF @ = "pending" THEN "failed" ELSE @]

ReaderEnds(p) ==
    /\ ~wire[p].socket /\ wire[p].reader
    /\ FailWaiters(p)
    /\ UNCHANGED <<mix, turn, said, stop, log, ragged, ghosts>>

\* The writer notices when it has something to write.
WriterEnds(p) ==
    /\ ~wire[p].socket /\ wire[p].writer /\ wire[p].waiter # None
    /\ wire' = [wire EXCEPT ![p].writer = FALSE]
    /\ UNCHANGED <<mix, turn, said, stop, log, ragged, ghosts>>

Closed(p) ==
    /\ turn[p].pc = "waiting" /\ wire[p].waiter = "failed"
    /\ turn' = [turn EXCEPT ![p] = Finish(@, "HubFailed")]
    /\ wire' = [wire EXCEPT ![p].waiter = None]
    /\ UNCHANGED <<mix, said, stop, log, ragged, ghosts>>

-----------------------------------------------------------------------------
(* Saving: append looks at the end of the log, then writes in one go.          *)

\* outcome.transcript[started_from..].
Fresh(t) == SubSeq(t.msgs, Min({t.from, Len(t.msgs)}) + 1, Len(t.msgs))

Look(p) ==
    /\ turn[p].pc = "saving"
    /\ LET lines == IF Job[p].thread = "own" THEN FreshLines(Fresh(turn[p])) ELSE Fresh(turn[p])
       IN  turn' = [turn EXCEPT ![p].fresh = lines,
                                ![p].pc = IF lines = <<>> THEN "done" ELSE "writing"]
    /\ UNCHANGED <<mix, wire, said, stop, log, ragged, ghosts>>

\* Lines behind a line with no end: the first of them is glued to it, and is lost.
Put(th, lines, end) ==
    /\ log' = [log EXCEPT ![th] = IF ragged[th] THEN @ \o Tail(lines) ELSE @ \o lines]
    /\ ragged' = [ragged EXCEPT ![th] = end]

OthersLooking(p) ==
    {q \in mix.turns \ {p} : turn[q].pc = "writing" /\ Job[q].thread = Job[p].thread}

Write(p) ==
    /\ turn[p].pc = "writing"
    /\ Put(Job[p].thread, turn[p].fresh, FALSE)
    /\ Set(p, "done")
    /\ disturbed' = disturbed \cup OthersLooking(p)
                              \cup (IF ragged[Job[p].thread] THEN {p} ELSE {})
    /\ UNCHANGED <<mix, wire, said, stop, given, read, cost, made>>

\* The process dies; what it was writing is there up to some point.
Crash(p) ==
    /\ p \in mix.mortal /\ turn[p].pc \notin {"idle", "done", "failed", "crashed"}
    /\ Set(p, "crashed")
    /\ IF turn[p].pc = "writing"
       THEN \E n \in 0 .. Len(turn[p].fresh) - 1, cut \in BOOLEAN :
              LET lines == SubSeq(turn[p].fresh, 1, n) \o (IF cut THEN <<Junk>> ELSE <<>>)
              IN  IF lines = <<>> THEN UNCHANGED <<log, ragged, disturbed>>
                  ELSE /\ Put(Job[p].thread, lines, cut)
                       /\ disturbed' = disturbed \cup OthersLooking(p)
       ELSE UNCHANGED <<log, ragged, disturbed>>
    /\ UNCHANGED <<mix, wire, said, stop, given, read, cost, made>>

-----------------------------------------------------------------------------
(* The person.                                                              *)

Running(p) == turn[p].pc \in {"top", "thinking", "calling", "waiting"}

\* Redirects::send.
Redirect(p) ==
    /\ Running(p) /\ Len(given[p]) < Len(mix.says[p])
    /\ LET text == mix.says[p][Len(given[p]) + 1]
       IN  said' = [said EXCEPT ![p] = Append(@, text)] /\ given' = [given EXCEPT ![p] = Append(@, text)]
    /\ UNCHANGED <<mix, turn, wire, stop, log, ragged, read, cost, made, disturbed>>

Stop(p) ==
    /\ p \in mix.stopped /\ Running(p) /\ ~stop[p]
    /\ stop' = [stop EXCEPT ![p] = TRUE]
    /\ UNCHANGED <<mix, turn, wire, said, log, ragged, ghosts>>

-----------------------------------------------------------------------------

Init ==
    /\ mix \in Mixes
    /\ turn = [p \in Turns |-> Blank] /\ wire = [p \in Turns |-> Line]
    /\ said = [p \in Turns |-> <<>>] /\ stop = [p \in Turns |-> FALSE]
    /\ log = [th \in Threads |-> mix.log] /\ ragged = [th \in Threads |-> FALSE]
    /\ given = [p \in Turns |-> <<>>] /\ read = [p \in Turns |-> <<>>]
    /\ cost = [p \in Turns |-> 0] /\ made = [p \in Turns |-> <<>>] /\ disturbed = {}

\* What a turn's own tasks do.
Work(p) ==
    \/ Begin(p) \/ StepTop(p) \/ Cancelled(p) \/ Answer(p)
    \/ Call(p) \/ Reply(p) \/ Closed(p) \/ Look(p) \/ Write(p)
Lines(p) == ReaderEnds(p) \/ WriterEnds(p)

\* A turn waits for the turns its account puts before it.
May(p) == \A q \in mix.turns : <<q, p>> \in mix.order => turn[q].pc \in {"done", "failed", "crashed"}

Next ==
    \E p \in mix.turns :
        /\ May(p)
        /\ Unreachable(p) \/ Work(p) \/ Lines(p) \/ SocketDies(p) \/ Crash(p) \/ Redirect(p) \/ Stop(p)

Spec == Init /\ [][Next]_vars

\* A task that can run is run, the hub answers what it was asked within its deadline,
\* and the client gives up on a provider that does not answer.
FairSpec == Spec /\ WF_vars(\E p \in mix.turns : May(p) /\ (Work(p) \/ Lines(p)))

-----------------------------------------------------------------------------
(* Properties.                                                              *)

Reasons == {None, "Completed", "Truncated", "Declined", "StepLimit", "TokenBudget", "Cancelled",
            "ModelFailed", "HubFailed", "ComputerBusy", "NothingApproved",
            "Connect", "NoServerBound", "Refused"}

\* What each turn and its connection hold: where it is, why it ended, how far it got; a
\* turn with calls to make or answers to wait for is in the middle of a step (agent.rs drive).
TypeOK ==
    \A p \in Turns :
        /\ turn[p].pc \in {"idle", "top", "thinking", "calling", "waiting", "saving", "writing",
                           "done", "failed", "crashed"}
        /\ turn[p].why \in Reasons /\ turn[p].step \in 0 .. Job[p].steps
        /\ turn[p].from <= Job[p].limit
        /\ turn[p].pc \in {"calling", "waiting"} <=> turn[p].todo # <<>> /\ turn[p].pc # "crashed"
        /\ wire[p].waiter \in {None, "pending", "failed", "late"}
        /\ turn[p].pc = "waiting" => wire[p].waiter # None

Distinct == \A q \in mix.turns : Job[q].ids

\* Whatever the conversation went through - a window that cuts it, a line a crash broke,
\* results dropped for room, calls a stopped run left unanswered, instructions said in
\* between - what a Bot's turn sends the provider is a conversation the provider takes, as
\* long as the provider told its calls apart (repair_window, compact, drive).
RequestsPair ==
    \A p \in mix.turns :
        turn[p].pc = "thinking" /\ Job[p].thread = "own" /\ Distinct
            => Accepts(Job[p].dialect, turn[p].msgs)

Count(x, seq) == Cardinality({i \in DOMAIN seq : seq[i] = x})
Assistants(seq) == {seq[i] : i \in {i \in DOMAIN seq : seq[i] # Junk /\ seq[i].role = "assistant"}}

Within(part, seq) ==
    \E i \in 0 .. Len(seq) - Len(part) : SubSeq(seq, i + 1, i + Len(part)) = part

Ownly(p) == SubSeq(turn[p].msgs, turn[p].from + 1, Len(turn[p].msgs))

\* What a run says is said once in the conversation, and only what it adds is saved: the
\* window it was seeded with is not written back (run_task; Command::Run).
SavedOnce ==
    \A th \in Threads : \A m \in Assistants(log[th]) :
        Ids("use", m.content) \ {None} # {} => Count(m, log[th]) = 1

\* A turn that was saved is there to the last line, in order, unless the end of the file
\* was broken when it came (append, append_lines); only a restated task may be missing.
WorkIsKept ==
    \A p \in mix.turns :
        turn[p].pc = "done" /\ p \notin disturbed =>
            LET mine == Ownly(p) IN
            \/ Within(mine, log[Job[p].thread])
            \/ Job[p].thread = "own" /\ Within(Tail(mine), log["own"])

\* The conversation never holds a task twice in a row, unless two turns looked at its end
\* at once or a line was lost there (append).
AskedOnce ==
    disturbed = {} => \A i \in 2 .. Len(log["own"]) :
        log["own"][i] # Junk /\ log["own"][i].role = "user"
            /\ Ids("text", log["own"][i].content) # {} => log["own"][i] # log["own"][i - 1]

\* No two calls of one turn reach the hub under one id, whether the provider gives ids or
\* not: a hub that sees an id again answers with the first call's result (drive).
CallsAreApart ==
    \A p \in mix.turns : \A i, k \in DOMAIN made[p] :
        i # k => made[p][i].id # made[p][k].id

\* A call goes to the tool the model named: the id itself, or the only one that is written
\* that way on the wire (restore_names). Two tools that are written alike are not guessed
\* between.
TheToolNamed ==
    \A p \in mix.turns : \A i \in DOMAIN made[p] :
        LET tool == made[p][i].tool IN
        tool \in Offered /\ (\E t \in Offered \ {tool} : Sanitize(t) = Sanitize(tool))
            => \E r \in mix.replies : r.content # None
                  /\ \E k \in DOMAIN r.content : r.content[k].kind = "use" /\ r.content[k].body = tool

\* What a run reports it spent is what the provider reported, the answer it ended on
\* included (drive: "a run that stops early still spent what it spent").
UsageIsWhole == \A p \in mix.turns : turn[p].spent = cost[p]

\* Stopped while the model thinks, a run takes no further answer (model_turn_or_cancel).
StoppedMeansNoMore ==
    [][\A p \in mix.turns :
          stop[p] /\ turn[p].pc = "thinking" => turn'[p].pc \in {"thinking", "saving", "crashed"}
                                              /\ cost'[p] = cost[p]]_vars

\* What is said to a turn is read by the model in the order it was said, or is left to be
\* reported - except when the run was out of steps or of budget at that moment, where it is
\* taken and nobody reads it (Redirects, drive).
SaidIsHeard ==
    \A p \in mix.turns :
        /\ IsPrefix(read[p], given[p])
        /\ turn[p].why \notin {"StepLimit", "TokenBudget"} => given[p] = read[p] \o said[p]

Ended(p) == turn[p].pc \in {"done", "failed", "crashed"}

\* Every turn ends: a hub that goes away fails the call that waits on it. Except the call
\* made after the reader had failed its waiters and before the writer found out, which
\* nobody answers any more (hub_client.rs connect_with, call).
TurnsEnd == <>(\A p \in mix.turns : Ended(p) \/ wire[p].waiter = "late" \/ ~May(p))

\* A conversation stays one a provider takes and a person recognises: paired, saved whole
\* and once, no task restated twice (repair_window, append, run_task).
ConversationIsWhole == TypeOK /\ RequestsPair /\ SavedOnce /\ WorkIsKept /\ AskedOnce

\* What a run does is what the model asked for and the person said, call by call and token
\* by token (drive, restore_names, Redirects).
DoesWhatWasAsked == CallsAreApart /\ TheToolNamed /\ UsageIsWhole /\ SaidIsHeard

\* Every turn ends, and one that is stopped takes nothing more from the model.
TurnsStop == StoppedMeansNoMore /\ TurnsEnd

=============================================================================
