----------------------------- MODULE WindowProofs -----------------------------
(***************************************************************************)
(* Theorems about Window and Acp, for every set of sessions, messages and   *)
(* accounts: a session answers one prompt at a time and every prompt it     *)
(* took was read or its sender told; what a person decides is what happens. *)
(***************************************************************************)
EXTENDS Window, TLAPS

-----------------------------------------------------------------------------
(***************************************************************************)
(* Types. Of the commands, only what they are and the questions they hold.   *)
(***************************************************************************)

TurnPcs == {"idle", "top", "thinking", "waiting", "over", "ended", "joined", "told"}
LoopPcs == {"idle", "look", "keep", "show", "park", "last", "last keep", "last show",
            "withdraw", "done"}
Stopped == {"Completed", "StepLimit", "Cancelled", "ModelFailed", "HubFailed", "NotAMember"}
Replies == {"EndTurn", "MaxTurnRequests", "Cancelled", "error", "unheard"}
Turns   == [pc : TurnPcs, step : Nat, why : Stopped \cup Replies \cup {None},
            with : Prompts \cup {None}]
Waits   == [state : {"none", "open", "sent", "settled"}, choice : Clicks \cup {None}]
Cards   == [ask : Asks, session : Sessions]
Messages == [kind : {"prompt"}, prompt : Prompts, session : Sessions]
                \cup [kind : {"load", "cancel"}, session : Sessions]

AgentTypes ==
    /\ mix \in Mixes /\ agent \in BOOLEAN
    /\ session \in [Sessions -> SessionRecords \cup {None}]
    /\ turn \in [Prompts -> Turns]
    /\ reply \in [Prompts -> Replies \cup {None}]
    /\ hub \in [Asks -> {"none", "open", "granted", "denied", "given up"}]
    /\ waits \in [Asks -> Waits]
    /\ questions \in [Prompts -> Seq(Asks)]
    /\ cards \in Seq(Cards)
    /\ toAgent \in Seq(Messages)

LoopOf(l) == [pc |-> l.pc, held |-> l.held, taken |-> l.taken, asks |-> l.asks,
              result |-> l.result, echo |-> l.echo]
LoopShape ==
    /\ loop = [p \in Prompts |-> LoopOf(loop[p])]
    /\ \A p \in Prompts : loop[p].pc \in LoopPcs /\ loop[p].asks \in Seq(Cards)

OpenerPcs == {"idle", "loading", "drain", "keep", "open", "failed"}
OpenerOf(o) == [pc |-> o.pc, held |-> o.held]
OpenerShape ==
    /\ opener = [s \in Sessions |-> OpenerOf(opener[s])]
    /\ \A s \in Sessions : opener[s].pc \in OpenerPcs

WindowTypes ==
    /\ engine \in BOOLEAN
    /\ page \in [session : Sessions \cup {None}, busy : BOOLEAN, dialogs : SUBSET Asks]
    /\ parked \subseteq Asks
    /\ stopping \in Sessions \cup {None}
    /\ LoopShape /\ OpenerShape

Shape == AgentTypes /\ WindowTypes

-----------------------------------------------------------------------------
(***************************************************************************)
(* The inductive invariant, in parts.                                       *)
(***************************************************************************)

OfSession(p) == session[Job[p].session]

\* A running turn and its session know each other.
TurnsOwnTheirSession ==
    \A p \in Prompts : Running(p) => OfSession(p) # None /\ OfSession(p).turn = p
SessionsKnowTheirTurn ==
    \A s \in Sessions : session[s] # None /\ session[s].turn # None =>
        Running(session[s].turn) /\ Job[session[s].turn].session = s

\* How a turn ended, and how whoever joined it is told.
Endings ==
    \A p \in Prompts :
        /\ turn[p].pc = "over" => turn[p].why \in Stopped
        /\ turn[p].pc = "told" => turn[p].why \in Replies \ {"error"}

\* A prompt in a model's hands was read, and so was one that is answered as ended.
HeardSoFar ==
    \A p \in Prompts :
        /\ turn[p].pc \in {"thinking", "waiting"} => p \in heard
        /\ turn[p].pc = "over" /\ turn[p].why = "Completed" => p \in heard
        /\ turn[p].pc = "told" /\ turn[p].why = "EndTurn" => p \in heard
        /\ reply[p] = "EndTurn" => p \in heard

\* A prompt that joined a turn waits to be read, or was, or will hear of a limit.
Joiners ==
    \A q \in Prompts : turn[q].pc = "joined" =>
        /\ turn[q].with \in Prompts
        /\ OfSession(q) # None /\ OfSession(q).turn = turn[q].with
        /\ \/ q \in Range(OfSession(q).said)
           \/ q \in heard
           \/ turn[turn[q].with].pc = "over" /\ turn[turn[q].with].why = "StepLimit"

\* An answer comes when nothing runs.
Answered == \A p \in Prompts : reply[p] # None => turn[p].pc \in {"ended", "idle"}

Turning == /\ TurnsOwnTheirSession /\ SessionsKnowTheirTurn /\ Endings /\ HeardSoFar
           /\ Joiners /\ Answered /\ TargetsAreThere

\* A flag that is up was put up for the turn that runs.
StopsAreMeant ==
    /\ \A s \in Sessions : session[s] # None /\ session[s].stop /\ session[s].turn # None
          => session[s].turn \in pressed
    /\ StopIsForThatTurn

\* A prompt in the pipe is nowhere else, and once.
PromptsInThePipe ==
    \A i \in DOMAIN toAgent : toAgent[i].kind = "prompt" =>
        /\ turn[toAgent[i].prompt].pc = "idle" /\ reply[toAgent[i].prompt] = None
        /\ loop[toAgent[i].prompt].pc # "idle"
        /\ \A j \in DOMAIN toAgent :
              toAgent[j].kind = "prompt" /\ toAgent[j].prompt = toAgent[i].prompt => j = i

\* A stop in the pipe was pressed for the turn that runs, and for those that will by
\* the time it arrives.
CancelsInThePipe ==
    \A i \in DOMAIN toAgent : toAgent[i].kind = "cancel" =>
        /\ session[toAgent[i].session] # None /\ session[toAgent[i].session].turn # None
              => session[toAgent[i].session].turn \in pressed
        /\ \A j \in DOMAIN toAgent :
              j <= i /\ toAgent[j].kind = "prompt"
                     /\ Job[toAgent[j].prompt].session = toAgent[i].session
                  => toAgent[j].prompt \in pressed

\* A command leaves its loop with an answer, unless the agent is gone; what is answered or
\* runs was sent, and nothing is sent to a conversation that is not open.
Commands ==
    /\ agent => engine
    /\ \A p \in Prompts :
        /\ agent /\ loop[p].pc \in {"last", "last keep", "last show", "withdraw", "done"}
              => reply[p] # None
        /\ turn[p].pc # "idle" \/ reply[p] # None => loop[p].pc # "idle"
        /\ opener[Job[p].session].pc # "open" => loop[p].pc = "idle"
    /\ page.session # None => opener[page.session].pc = "open"

Stopping == StopsAreMeant /\ PromptsInThePipe /\ CancelsInThePipe /\ Commands

\* Wherever a question is held, it was asked.
Asked(a) == hub[a] # "none" /\ waits[a].state # "none"
Questions ==
    /\ \A a \in Asks : hub[a] # "none" => turn[a[1]].pc # "idle"
    /\ \A a \in Asks : hub[a] = "open" => turn[a[1]].pc = "waiting" /\ turn[a[1]].step = a[2]
    /\ \A p \in Prompts : \A i \in DOMAIN questions[p] :
          questions[p][i][1] = p /\ hub[questions[p][i]] # "none"
    /\ \A i \in DOMAIN cards : Asked(cards[i].ask)
    /\ \A p \in Prompts : \A i \in DOMAIN loop[p].asks : Asked(loop[p].asks[i].ask)
    /\ \A a \in parked : Asked(a)

\* A yes on its way was a person's.
Grants ==
    \A a \in Asks : /\ Decision(waits[a].choice) = "allow" => a \in allowed
                    /\ hub[a] = "granted" => a \in allowed

Asking == Questions /\ Grants /\ DialogsAreAnswerable

IInv == Shape /\ Turning /\ Stopping /\ Asking

-----------------------------------------------------------------------------
(***************************************************************************)
(* Types, one step at a time.                                               *)
(***************************************************************************)

LEMMA NoneApart ==
    /\ None \notin Sessions /\ None \notin Prompts /\ None \notin SessionRecords
    /\ None # "EndTurn" /\ None # "MaxTurnRequests" /\ None # "Cancelled"
    /\ None # "error" /\ None # "unheard"
    /\ None # "allow-once" /\ None # "allow-always"
BY AcpAssumption

LEMMA JobTyped == \A p \in Prompts : Job[p].session \in Sessions
BY AcpAssumption

LEMMA PinNamed == ASSUME mix \in Mixes PROVE mix.pin \in Names /\ mix.prompts \subseteq Prompts
                                              /\ mix.opens \subseteq Sessions
BY AcpAssumption DEF Names

LEMMA TargetTyped ==
    ASSUME mix \in Mixes, NEW s \in Sessions
    PROVE  ResolveTarget(Want[s]) \in Targets \cup {None}
<1>1. Want[s].bot \in Names /\ BotNameFor(Want[s].cwd) \in Names
  BY DEF Names
<1>2. Groups \subseteq Names
  BY DEF Names
<1>3. \A n \in Names : [kind |-> "bot", name |-> n] \in Targets
  BY DEF Targets
<1>4. \A n \in Names : [kind |-> "group", name |-> n] \in Targets
  BY DEF Targets
<1>5. mix.pin \in Names
  BY PinNamed
<1> QED BY <1>1, <1>2, <1>3, <1>4, <1>5 DEF ResolveTarget

LEMMA SessionFields ==
    ASSUME NEW r \in SessionRecords
    PROVE  r # None /\ r.target \in Targets /\ r.turn \in Prompts \cup {None}
           /\ r.said \in Seq(Prompts) /\ r.stop \in BOOLEAN
BY NoneApart DEF SessionRecords

LEMMA FreshTyped ==
    ASSUME NEW t \in Targets
    PROVE  Fresh(t) \in SessionRecords
<1>1. <<>> \in Seq(Prompts)
  OBVIOUS
<1> QED BY <1>1 DEF Fresh, SessionRecords

\* One session changes, and no other.
SessionOne(s, r) == /\ session' \in [Sessions -> SessionRecords \cup {None}]
                    /\ session'[s] = r
                    /\ \A z \in Sessions : z # s => session'[z] = session[z]

LEMMA SetSession ==
    ASSUME AgentTypes, NEW s \in Sessions, NEW r \in SessionRecords,
           session' = [session EXCEPT ![s] = r]
    PROVE  SessionOne(s, r)
BY DEF AgentTypes, SessionOne

\* One turn changes, and no other.
TurnOne(p, r) == /\ turn' \in [Prompts -> Turns]
                 /\ turn'[p] = r
                 /\ \A q \in Prompts : q # p => turn'[q] = turn[q]

LEMMA SetTurn ==
    ASSUME AgentTypes, NEW p \in Prompts, NEW r \in Turns,
           turn' = [turn EXCEPT ![p] = r]
    PROVE  TurnOne(p, r)
BY DEF AgentTypes, TurnOne

LEMMA TurnFields ==
    ASSUME NEW t \in Turns
    PROVE  t.pc \in TurnPcs /\ t.step \in Nat /\ t.why \in Stopped \cup Replies \cup {None}
           /\ t.with \in Prompts \cup {None}
BY DEF Turns

Moved(t, pc)     == [t EXCEPT !.pc = pc]
Stepped(t)       == [t EXCEPT !.pc = "thinking", !.step = @ + 1]
Ended(t, pc, why) == [t EXCEPT !.pc = pc, !.why = why]
Joining(t, with) == [t EXCEPT !.pc = "joined", !.with = with]

LEMMA TurnGoes ==
    ASSUME NEW t \in Turns, NEW pc \in TurnPcs
    PROVE  /\ Moved(t, pc) \in Turns /\ Moved(t, pc).pc = pc
           /\ Moved(t, pc).step = t.step
           /\ Moved(t, pc).why = t.why /\ Moved(t, pc).with = t.with
BY DEF Turns, Moved

LEMMA TurnSteps ==
    ASSUME NEW t \in Turns
    PROVE  /\ Stepped(t) \in Turns /\ Stepped(t).pc = "thinking"
           /\ Stepped(t).why = t.why /\ Stepped(t).with = t.with
<1>1. t.step + 1 \in Nat
  BY TurnFields
<1> QED BY <1>1 DEF Turns, TurnPcs, Stepped

LEMMA TurnEnds ==
    ASSUME NEW t \in Turns, NEW pc \in TurnPcs, NEW why \in Stopped \cup Replies
    PROVE  /\ Ended(t, pc, why) \in Turns /\ Ended(t, pc, why).pc = pc
           /\ Ended(t, pc, why).step = t.step
           /\ Ended(t, pc, why).why = why /\ Ended(t, pc, why).with = t.with
BY DEF Turns, Ended

LEMMA TurnJoins ==
    ASSUME NEW t \in Turns, NEW p \in Prompts
    PROVE  /\ Joining(t, p) \in Turns /\ Joining(t, p).pc = "joined"
           /\ Joining(t, p).step = t.step
           /\ Joining(t, p).why = t.why /\ Joining(t, p).with = p
BY DEF Turns, TurnPcs, Joining

LEMMA MessageFields ==
    ASSUME NEW m \in Messages
    PROVE  /\ m.session \in Sessions
           /\ m.kind \in {"prompt", "load", "cancel"}
           /\ m.kind = "prompt" => m.prompt \in Prompts
BY DEF Messages

LEMMA InSeq ==
    ASSUME NEW S, NEW q \in Seq(S), NEW i \in DOMAIN q
    PROVE  q[i] \in S /\ i \in Nat /\ i >= 1
OBVIOUS

LEMMA HeadAndTail ==
    ASSUME NEW S, NEW q \in Seq(S), q # <<>>
    PROVE  /\ Head(q) \in S /\ Tail(q) \in Seq(S)
           /\ 1 \in DOMAIN q /\ Head(q) = q[1]
           /\ \A i \in DOMAIN Tail(q) : i \in Nat /\ i + 1 \in DOMAIN q /\ Tail(q)[i] = q[i + 1]
<1>1. Len(q) \in Nat /\ Len(q) > 0 /\ DOMAIN q = 1 .. Len(q)
  OBVIOUS
<1>2. 1 \in DOMAIN q /\ Head(q) = q[1] /\ Head(q) \in S
  BY <1>1
<1>3. Tail(q) \in Seq(S) /\ Len(Tail(q)) = Len(q) - 1
  BY <1>1
<1>4. ASSUME NEW i \in DOMAIN Tail(q)
      PROVE  i \in Nat /\ i + 1 \in DOMAIN q /\ Tail(q)[i] = q[i + 1]
  <2>1. i \in 1 .. (Len(q) - 1)
    BY <1>1, <1>3
  <2> QED BY <1>1, <2>1
<1> QED BY <1>2, <1>3, <1>4

\* What reading one message of the pipe does, by its kind.
Loads(s) ==
    /\ UNCHANGED <<turn, reply>> /\ bots \subseteq bots'
    /\ \/ UNCHANGED session
       \/ \E t \in Targets :
            /\ t = ResolveTarget(Want[s]) /\ t # None /\ Bound(s)
            /\ t.kind = "bot" => t.name \in bots'
            /\ SessionOne(s, Fresh(t))
Refuses(p) ==
    /\ UNCHANGED <<session, turn, bots>>
    /\ reply' = [reply EXCEPT ![p] = "error"]
Joins(p) ==
    LET s == Job[p].session IN
    /\ session[s] \in SessionRecords /\ session[s].turn # None
    /\ SessionOne(s, [session[s] EXCEPT !.said = Append(session[s].said, p)])
    /\ TurnOne(p, Joining(turn[p], session[s].turn))
    /\ UNCHANGED <<reply, bots>>
Starts(p) ==
    LET s == Job[p].session IN
    /\ session[s] \in SessionRecords /\ session[s].turn = None
    /\ SessionOne(s, Claim(s, p))
    /\ TurnOne(p, Moved(turn[p], "top"))
    /\ UNCHANGED <<reply, bots>>
Cancels(s) ==
    /\ UNCHANGED <<turn, reply, bots>>
    /\ \/ UNCHANGED session
       \/ /\ session[s] \in SessionRecords /\ session[s].turn # None
          /\ SessionOne(s, [session[s] EXCEPT !.stop = TRUE])

LEMMA SaidGrows ==
    ASSUME NEW r \in SessionRecords, NEW p \in Prompts
    PROVE  LET u == [r EXCEPT !.said = Append(r.said, p)]
           IN /\ u \in SessionRecords /\ u.target = r.target /\ u.turn = r.turn
              /\ u.stop = r.stop /\ u.said = Append(r.said, p)
<1>1. Append(r.said, p) \in Seq(Prompts)
  BY SessionFields
<1> QED BY <1>1 DEF SessionRecords

LEMMA SaidTaken ==
    ASSUME NEW r \in SessionRecords
    PROVE  LET u == [r EXCEPT !.said = <<>>]
           IN /\ u \in SessionRecords /\ u.target = r.target /\ u.turn = r.turn
              /\ u.stop = r.stop /\ u.said = <<>>
<1>1. <<>> \in Seq(Prompts)
  OBVIOUS
<1> QED BY <1>1 DEF SessionRecords

LEMMA StopSet ==
    ASSUME NEW r \in SessionRecords
    PROVE  LET u == [r EXCEPT !.stop = TRUE]
           IN /\ u \in SessionRecords /\ u.target = r.target /\ u.turn = r.turn
              /\ u.stop = TRUE /\ u.said = r.said
BY DEF SessionRecords

LEMMA Claimed ==
    ASSUME NEW s \in Sessions, session[s] \in SessionRecords, NEW p \in Prompts
    PROVE  /\ Claim(s, p) \in SessionRecords /\ Claim(s, p).target = session[s].target
           /\ Claim(s, p).turn = p /\ Claim(s, p).stop = FALSE /\ Claim(s, p).said = <<>>
<1>1. <<>> \in Seq(Prompts)
  OBVIOUS
<1> QED BY <1>1 DEF SessionRecords, Claim

LEMMA Released ==
    ASSUME NEW s \in Sessions, session[s] \in SessionRecords
    PROVE  /\ Release(s) \in SessionRecords /\ Release(s).target = session[s].target
           /\ Release(s).turn = None /\ Release(s).stop = session[s].stop
           /\ Release(s).said = <<>>
<1>1. <<>> \in Seq(Prompts)
  OBVIOUS
<1> QED BY <1>1 DEF SessionRecords, Release

LEMMA LoadDoes ==
    ASSUME AgentTypes, NEW s \in Sessions, Load(s)
    PROVE  Loads(s)
<1> DEFINE t == ResolveTarget(Want[s])
<1>1. bots \subseteq bots' /\ UNCHANGED <<turn, reply>>
  BY DEF Load, ExistingOrNew
<1>2. CASE t = None \/ ~Bound(s)
  BY <1>1, <1>2 DEF Load, Loads
<1>3. CASE ~(t = None \/ ~Bound(s))
  <2>1. t \in Targets
    BY <1>3, TargetTyped DEF AgentTypes
  <2>2. Fresh(t) \in SessionRecords
    BY <2>1, FreshTyped
  <2>3. session' = [session EXCEPT ![s] = Fresh(t)]
    BY <1>3 DEF Load
  <2>4. SessionOne(s, Fresh(t))
    BY <2>2, <2>3, SetSession
  <2>5. t.kind = "bot" => t.name \in bots'
    BY <1>3 DEF Load, ExistingOrNew
  <2> QED BY <1>1, <1>3, <2>1, <2>4, <2>5 DEF Loads
<1> QED BY <1>2, <1>3

LEMMA PromptDoes ==
    ASSUME AgentTypes, NEW p \in Prompts, Prompt(p)
    PROVE  Refuses(p) \/ Joins(p) \/ Starts(p)
<1> DEFINE s == Job[p].session
<1>0. s \in Sessions /\ session[s] \in SessionRecords \cup {None} /\ turn[p] \in Turns
  BY JobTyped DEF AgentTypes
<1>1. CASE ~Readable(p) \/ session[s] = None
  BY <1>1 DEF Prompt, Refuses
<1>2. CASE Readable(p) /\ session[s] # None /\ session[s].turn # None
  <2>1. session[s] \in SessionRecords /\ session[s].turn \in Prompts
    BY <1>0, <1>2, SessionFields
  <2>2. session' = [session EXCEPT ![s] = [session[s] EXCEPT !.said = Append(session[s].said, p)]]
    BY <1>2 DEF Prompt
  <2>3. turn' = [turn EXCEPT ![p] = Joining(turn[p], session[s].turn)]
    BY <1>2 DEF Prompt, Joining
  <2>4. SessionOne(s, [session[s] EXCEPT !.said = Append(session[s].said, p)])
    BY <1>0, <2>1, <2>2, SaidGrows, SetSession
  <2>5. TurnOne(p, Joining(turn[p], session[s].turn))
    BY <1>0, <2>1, <2>3, TurnJoins, SetTurn
  <2> QED BY <1>2, <2>1, <2>4, <2>5 DEF Prompt, Joins
<1>3. CASE Readable(p) /\ session[s] # None /\ session[s].turn = None
  <2>1. session[s] \in SessionRecords
    BY <1>0, <1>3
  <2>2. session' = [session EXCEPT ![s] = Claim(s, p)]
    BY <1>3 DEF Prompt
  <2>3. turn' = [turn EXCEPT ![p] = Moved(turn[p], "top")]
    BY <1>3 DEF Prompt, Moved
  <2>4. SessionOne(s, Claim(s, p))
    BY <1>0, <2>1, <2>2, Claimed, SetSession
  <2>5. "top" \in TurnPcs
    BY DEF TurnPcs
  <2>6. TurnOne(p, Moved(turn[p], "top"))
    BY <1>0, <2>3, <2>5, TurnGoes, SetTurn
  <2> QED BY <1>3, <2>1, <2>4, <2>6 DEF Prompt, Starts
<1> QED BY <1>1, <1>2, <1>3

LEMMA CancelDoes ==
    ASSUME AgentTypes, NEW s \in Sessions, Cancel(s)
    PROVE  Cancels(s)
<1>1. CASE session[s] # None /\ session[s].turn # None
  <2>1. session[s] \in SessionRecords
    BY <1>1 DEF AgentTypes
  <2>2. session' = [session EXCEPT ![s] = [session[s] EXCEPT !.stop = TRUE]]
    BY <1>1 DEF Cancel
  <2>3. SessionOne(s, [session[s] EXCEPT !.stop = TRUE])
    BY <2>1, <2>2, StopSet, SetSession
  <2> QED BY <1>1, <2>1, <2>3 DEF Cancel, Cancels
<1>2. CASE ~(session[s] # None /\ session[s].turn # None)
  BY <1>2 DEF Cancel, Cancels
<1> QED BY <1>1, <1>2

-----------------------------------------------------------------------------
(***************************************************************************)
(* Turning: a session and its turn, and who heard what.                      *)
(***************************************************************************)

LEMMA RunningHas ==
    ASSUME AgentTypes, Turning, NEW p \in Prompts, Running(p)
    PROVE  /\ Job[p].session \in Sessions /\ Mine(p) = OfSession(p)
           /\ OfSession(p) \in SessionRecords /\ OfSession(p).turn = p
           /\ OfSession(p).turn # None /\ reply[p] = None
<1>1. Job[p].session \in Sessions /\ Mine(p) = OfSession(p)
  BY JobTyped DEF Mine, OfSession
<1>2. OfSession(p) # None /\ OfSession(p).turn = p
  BY DEF Turning, TurnsOwnTheirSession
<1>3. OfSession(p) \in SessionRecords
  BY <1>1, <1>2 DEF AgentTypes, OfSession
<1>4. reply[p] = None
  BY DEF Turning, Answered, Running
<1> QED BY <1>1, <1>2, <1>3, <1>4, NoneApart

LEMMA JoinedHas ==
    ASSUME AgentTypes, Turning, NEW q \in Prompts, turn[q].pc = "joined"
    PROVE  /\ Job[q].session \in Sessions /\ OfSession(q) \in SessionRecords
           /\ turn[q].with \in Prompts /\ OfSession(q).turn = turn[q].with
           /\ OfSession(q).turn # None /\ Running(turn[q].with)
           /\ Job[turn[q].with].session = Job[q].session
<1>1. Job[q].session \in Sessions /\ turn[q].with \in Prompts
      /\ OfSession(q) # None /\ OfSession(q).turn = turn[q].with
  BY JobTyped DEF Turning, Joiners
<1>2. OfSession(q) \in SessionRecords /\ OfSession(q).turn # None
  BY <1>1, NoneApart DEF AgentTypes, OfSession
<1>3. Running(OfSession(q).turn) /\ Job[OfSession(q).turn].session = Job[q].session
  BY <1>1, <1>2 DEF Turning, SessionsKnowTheirTurn, OfSession
<1> QED BY <1>1, <1>2, <1>3

LEMMA UnboundRuns ==
    ASSUME AgentTypes, Turning, NEW s \in Sessions, Bound(s)
    PROVE  /\ \A p \in Prompts : Job[p].session = s => ~Running(p) /\ turn[p].pc # "joined"
BY RunningHas, JoinedHas, NoneApart DEF Bound, OfSession

LEMMA TurningFrame ==
    ASSUME Turning, UNCHANGED <<session, turn, reply, heard, bots, mix>>
    PROVE  Turning'
BY DEF Turning, TurnsOwnTheirSession, SessionsKnowTheirTurn, Endings, HeardSoFar, Joiners, Answered,
       TargetsAreThere, OfSession, Running

LEMMA LoadTurns ==
    ASSUME AgentTypes, Turning, NEW s \in Sessions, Loads(s), UNCHANGED <<heard, mix>>
    PROVE  Turning'
<1>0. UNCHANGED <<turn, reply>> /\ bots \subseteq bots'
  BY DEF Loads
<1>1. CASE UNCHANGED session
  <2>1. TargetsAreThere'
    BY <1>0, <1>1 DEF Turning, TargetsAreThere
  <2> QED BY <1>0, <1>1, <2>1 DEF Turning, TurnsOwnTheirSession, SessionsKnowTheirTurn, Endings,
             HeardSoFar, Joiners, Answered, OfSession, Running
<1>2. ASSUME NEW t \in Targets, t = ResolveTarget(Want[s]), t # None, Bound(s),
             t.kind = "bot" => t.name \in bots', SessionOne(s, Fresh(t))
      PROVE  Turning'
  <2>1. session'[s] = Fresh(t) /\ \A z \in Sessions : z # s => session'[z] = session[z]
    BY <1>2 DEF SessionOne
  <2>2. Fresh(t).turn = None /\ Fresh(t).target = t /\ Fresh(t).said = <<>>
    BY DEF Fresh
  <2>3. \A p \in Prompts : Running(p)' = Running(p)
    BY <1>0 DEF Running
  <2>4. \A p \in Prompts : Running(p) \/ turn[p].pc = "joined" => OfSession(p)' = OfSession(p)
    BY <1>2, <2>1, UnboundRuns, JobTyped DEF OfSession
  <2>5. TurnsOwnTheirSession'
    BY <2>3, <2>4 DEF Turning, TurnsOwnTheirSession
  <2>6. SessionsKnowTheirTurn'
    BY <1>0, <2>1, <2>2 DEF Turning, SessionsKnowTheirTurn, Running
  <2>7. Joiners'
    BY <1>0, <2>4 DEF Turning, Joiners
  <2>8. t.name \in bots' \cup Groups /\ (mix.pin # None => t.kind = "bot" /\ t.name = mix.pin)
    BY <1>2, NoneApart DEF ResolveTarget
  <2>9. TargetsAreThere'
    BY <1>0, <2>1, <2>2, <2>8 DEF Turning, TargetsAreThere
  <2> QED BY <1>0, <2>5, <2>6, <2>7, <2>9 DEF Turning, Endings, HeardSoFar, Answered
<1> QED BY <1>1, <1>2 DEF Loads

LEMMA RefuseTurns ==
    ASSUME AgentTypes, Turning, NEW p \in Prompts, Refuses(p), UNCHANGED <<heard, mix>>,
           turn[p].pc = "idle"
    PROVE  Turning'
<1>1. \A q \in Prompts : reply'[q] = reply[q] \/ (q = p /\ reply'[q] = "error")
  BY DEF Refuses, AgentTypes
<1>2. UNCHANGED <<session, turn, bots>>
  BY DEF Refuses
<1>3. HeardSoFar' /\ Answered'
  BY <1>1, <1>2 DEF Turning, HeardSoFar, Answered
<1> QED BY <1>2, <1>3 DEF Turning, TurnsOwnTheirSession, SessionsKnowTheirTurn, Endings, Joiners,
           TargetsAreThere, OfSession, Running

LEMMA AppendRange ==
    ASSUME NEW S, NEW q \in Seq(S), NEW x \in S
    PROVE  Range(Append(q, x)) = Range(q) \cup {x}
<1>1. DOMAIN Append(q, x) = 1 .. Len(q) + 1 /\ DOMAIN q = 1 .. Len(q) /\ Len(q) \in Nat
  OBVIOUS
<1>2. \A i \in 1 .. Len(q) : Append(q, x)[i] = q[i]
  OBVIOUS
<1>3. Append(q, x)[Len(q) + 1] = x
  OBVIOUS
<1> QED BY <1>1, <1>2, <1>3 DEF Range

LEMMA JoinTurns ==
    ASSUME AgentTypes, Turning, NEW p \in Prompts, Joins(p), UNCHANGED <<heard, mix>>,
           turn[p].pc = "idle", reply[p] = None
    PROVE  Turning'
<1> DEFINE s == Job[p].session
<1>0. s \in Sessions /\ session[s] \in SessionRecords /\ session[s] # None /\ session[s].turn # None
      /\ session[s].turn \in Prompts
  BY JobTyped, SessionFields DEF Joins
<1>1. PICK r \in SessionRecords : /\ r = session'[s] /\ r # None /\ r.target = session[s].target
                                  /\ r.turn = session[s].turn
                                  /\ r.said = Append(session[s].said, p)
  <2>1. session'[s] = [session[s] EXCEPT !.said = Append(session[s].said, p)]
    BY DEF Joins, SessionOne
  <2> QED BY <1>0, <2>1, SaidGrows, SessionFields
<1>2. \A z \in Sessions : z # s => session'[z] = session[z]
  BY DEF Joins, SessionOne
<1>3. PICK t \in Turns : /\ t = turn'[p] /\ t.pc = "joined" /\ t.why = turn[p].why
                         /\ t.with = session[s].turn
  <2>1. turn'[p] = Joining(turn[p], session[s].turn) /\ turn[p] \in Turns
    BY DEF Joins, TurnOne, AgentTypes
  <2>2. turn'[p] \in Turns
    BY <1>0, <2>1, TurnJoins
  <2>3. /\ turn'[p].pc = "joined" /\ turn'[p].why = turn[p].why /\ turn'[p].with = session[s].turn
    BY <1>0, <2>1, TurnJoins
  <2> QED BY <2>2, <2>3
<1>4. \A q \in Prompts : q # p => turn'[q] = turn[q]
  BY DEF Joins, TurnOne
<1>5. UNCHANGED <<reply, bots>>
  BY DEF Joins
<1>6. \A q \in Prompts : Running(q)' = Running(q)
  BY <1>3, <1>4 DEF Running
<1>7. \A q \in Prompts : /\ OfSession(q) # None => OfSession(q)' # None
                         /\ OfSession(q) # None => OfSession(q)'.turn = OfSession(q).turn
  BY <1>0, <1>1, <1>2, JobTyped DEF OfSession
<1>8. Range(r.said) = Range(session[s].said) \cup {p}
  BY <1>0, <1>1, AppendRange, SessionFields
<1>9. \A q \in Prompts : OfSession(q) # None => Range(OfSession(q).said) \subseteq Range(OfSession(q)'.said)
  BY <1>1, <1>2, <1>8, JobTyped DEF OfSession
<1>10. TurnsOwnTheirSession'
  BY <1>6, <1>7 DEF Turning, TurnsOwnTheirSession
<1>11. SessionsKnowTheirTurn'
  <2>1. \A z \in Sessions : session'[z] # None /\ session'[z].turn # None =>
             session[z] # None /\ session[z].turn = session'[z].turn
    BY <1>0, <1>1, <1>2
  <2>2. \A z \in Sessions : session'[z] # None /\ session'[z].turn # None =>
             session'[z].turn \in Prompts
    BY <2>1, SessionFields DEF AgentTypes
  <2> QED BY <1>6, <2>1, <2>2 DEF Turning, SessionsKnowTheirTurn
<1>12. Joiners'
  <2> SUFFICES ASSUME NEW q \in Prompts, turn'[q].pc = "joined"
               PROVE  /\ turn'[q].with \in Prompts
                      /\ OfSession(q)' # None /\ OfSession(q)'.turn = turn'[q].with
                      /\ \/ q \in Range(OfSession(q)'.said)
                         \/ q \in heard
                         \/ turn'[turn'[q].with].pc = "over" /\ turn'[turn'[q].with].why = "StepLimit"
    BY DEF Joiners
  <2>1. CASE q = p
    BY <2>1, <1>0, <1>1, <1>3, <1>8 DEF OfSession
  <2>2. CASE q # p
    <3>1. turn[q].pc = "joined" /\ turn'[q].with = turn[q].with
      BY <2>2, <1>4
    <3>2. turn[q].with # p
      BY <3>1, JoinedHas DEF Running
    <3>3. turn'[turn[q].with] = turn[turn[q].with]
      BY <3>1, <3>2, <1>4, JoinedHas
    <3> QED BY <3>1, <3>3, <1>7, <1>9 DEF Turning, Joiners
  <2> QED BY <2>1, <2>2
<1>13. Endings' /\ HeardSoFar' /\ Answered'
  BY <1>3, <1>4, <1>5, NoneApart DEF Turning, Endings, HeardSoFar, Answered
<1>14. TargetsAreThere'
  BY <1>0, <1>1, <1>2, <1>5 DEF Turning, TargetsAreThere
<1> QED BY <1>10, <1>11, <1>12, <1>13, <1>14 DEF Turning

LEMMA StartTurns ==
    ASSUME AgentTypes, Turning, NEW p \in Prompts, Starts(p), UNCHANGED <<heard, mix>>,
           turn[p].pc = "idle", reply[p] = None
    PROVE  Turning'
<1> DEFINE s == Job[p].session
<1>0. s \in Sessions /\ session[s] \in SessionRecords /\ session[s] # None /\ session[s].turn = None
  BY JobTyped, SessionFields DEF Starts
<1>1. PICK r \in SessionRecords : /\ r = session'[s] /\ r # None /\ r.target = session[s].target
                                  /\ r.turn = p /\ r.said = <<>>
  <2>1. session'[s] = Claim(s, p)
    BY DEF Starts, SessionOne
  <2> QED BY <1>0, <2>1, Claimed, SessionFields
<1>2. \A z \in Sessions : z # s => session'[z] = session[z]
  BY DEF Starts, SessionOne
<1>3. PICK t \in Turns : /\ t = turn'[p] /\ t.pc = "top" /\ t.why = turn[p].why
                         /\ t.with = turn[p].with
  <2>1. turn'[p] = Moved(turn[p], "top") /\ turn[p] \in Turns
    BY DEF Starts, TurnOne, AgentTypes
  <2>2. "top" \in TurnPcs
    BY DEF TurnPcs
  <2>3. turn'[p] \in Turns
    BY <2>1, <2>2, TurnGoes
  <2>4. /\ turn'[p].pc = "top" /\ turn'[p].why = turn[p].why /\ turn'[p].with = turn[p].with
    BY <2>1, <2>2, TurnGoes
  <2> QED BY <2>3, <2>4
<1>4. \A q \in Prompts : q # p => turn'[q] = turn[q]
  BY DEF Starts, TurnOne
<1>5. UNCHANGED <<reply, bots>>
  BY DEF Starts
<1>6. \A q \in Prompts : Running(q)' = (Running(q) \/ q = p)
  BY <1>3, <1>4 DEF Running
<1>7. \A q \in Prompts : Job[q].session = s => ~Running(q) /\ turn[q].pc # "joined"
  BY <1>0, UnboundRuns DEF Bound
<1>8. TurnsOwnTheirSession'
  <2> SUFFICES ASSUME NEW q \in Prompts, Running(q)'
               PROVE  OfSession(q)' # None /\ OfSession(q)'.turn = q
    BY DEF TurnsOwnTheirSession
  <2>1. CASE q = p
    BY <2>1, <1>1 DEF OfSession
  <2>2. CASE q # p
    <3>1. Running(q) /\ Job[q].session # s /\ Job[q].session \in Sessions
      BY <2>2, <1>6, <1>7, JobTyped
    <3>2. OfSession(q)' = OfSession(q)
      BY <3>1, <1>2 DEF OfSession
    <3> QED BY <3>1, <3>2 DEF Turning, TurnsOwnTheirSession
  <2> QED BY <2>1, <2>2
<1>9. SessionsKnowTheirTurn'
  <2> SUFFICES ASSUME NEW z \in Sessions, session'[z] # None, session'[z].turn # None
               PROVE  /\ turn'[session'[z].turn].pc \in {"top", "thinking", "waiting", "over"}
                      /\ Job[session'[z].turn].session = z
    BY DEF SessionsKnowTheirTurn, Running
  <2>1. CASE z = s
    BY <2>1, <1>1, <1>3
  <2>2. CASE z # s
    <3>1. session'[z] = session[z]
      BY <2>2, <1>2
    <3>2. session[z].turn \in Prompts
      BY <3>1, SessionFields DEF AgentTypes
    <3>3. Running(session[z].turn) /\ Job[session[z].turn].session = z
      BY <3>1 DEF Turning, SessionsKnowTheirTurn
    <3> QED BY <3>1, <3>2, <3>3, <1>3, <1>4 DEF Running
  <2> QED BY <2>1, <2>2
<1>10. Joiners'
  <2> SUFFICES ASSUME NEW q \in Prompts, turn'[q].pc = "joined"
               PROVE  /\ turn'[q].with \in Prompts
                      /\ OfSession(q)' # None /\ OfSession(q)'.turn = turn'[q].with
                      /\ \/ q \in Range(OfSession(q)'.said)
                         \/ q \in heard
                         \/ turn'[turn'[q].with].pc = "over" /\ turn'[turn'[q].with].why = "StepLimit"
    BY DEF Joiners
  <2>1. q # p
    BY <1>3
  <2>2. turn'[q] = turn[q] /\ turn[q].pc = "joined"
    BY <2>1, <1>4
  <2>3. OfSession(q)' = OfSession(q)
    BY <2>2, <1>2, <1>7, JobTyped DEF OfSession
  <2>4. turn[q].with # p
    BY <2>2, JoinedHas DEF Running
  <2>5. turn'[turn[q].with] = turn[turn[q].with]
    BY <2>2, <2>4, <1>4, JoinedHas
  <2> QED BY <2>2, <2>3, <2>5 DEF Turning, Joiners
<1>11. Endings' /\ HeardSoFar' /\ Answered'
  BY <1>3, <1>4, <1>5, NoneApart DEF Turning, Endings, HeardSoFar, Answered
<1>12. TargetsAreThere'
  BY <1>0, <1>1, <1>2, <1>5 DEF Turning, TargetsAreThere
<1> QED BY <1>8, <1>9, <1>10, <1>11, <1>12 DEF Turning

\* A session of which only the flag changes is the same to all this.
LEMMA CancelTurns ==
    ASSUME AgentTypes, Turning, NEW s \in Sessions, Cancels(s), UNCHANGED <<heard, mix>>
    PROVE  Turning'
<1>1. UNCHANGED <<turn, reply, bots>>
  BY DEF Cancels
<1>2. CASE UNCHANGED session
  BY <1>1, <1>2, TurningFrame
<1>3. CASE /\ session[s] \in SessionRecords /\ session[s].turn # None
           /\ SessionOne(s, [session[s] EXCEPT !.stop = TRUE])
  <2>1. PICK r \in SessionRecords : /\ r = session'[s] /\ r # None /\ r.target = session[s].target
                                    /\ r.turn = session[s].turn /\ r.said = session[s].said
    <3>1. session'[s] = [session[s] EXCEPT !.stop = TRUE]
      BY <1>3 DEF SessionOne
    <3> QED BY <1>3, <3>1, StopSet, SessionFields
  <2>2. session[s] # None
    BY <1>3, SessionFields
  <2>3. \A z \in Sessions : /\ (session'[z] # None) = (session[z] # None)
                            /\ session[z] # None => /\ session'[z].turn = session[z].turn
                                                    /\ session'[z].said = session[z].said
                                                    /\ session'[z].target = session[z].target
    BY <1>3, <2>1, <2>2 DEF SessionOne
  <2>4. \A q \in Prompts : Running(q)' = Running(q)
    BY <1>1 DEF Running
  <2>5. TurnsOwnTheirSession'
    BY <2>3, <2>4, JobTyped DEF Turning, TurnsOwnTheirSession, OfSession
  <2>6. SessionsKnowTheirTurn'
    BY <1>1, <2>3 DEF Turning, SessionsKnowTheirTurn, Running
  <2>7. Joiners'
    BY <1>1, <2>3, JobTyped DEF Turning, Joiners, OfSession
  <2>8. TargetsAreThere'
    BY <1>1, <2>3 DEF Turning, TargetsAreThere
  <2> QED BY <1>1, <2>5, <2>6, <2>7, <2>8 DEF Turning, Endings, HeardSoFar, Answered
<1> QED BY <1>2, <1>3 DEF Cancels

\* A turn that goes on, or is over, with its session as it was.
LEMMA RunsOn ==
    ASSUME AgentTypes, Turning, NEW p \in Prompts, turn[p].pc \in {"top", "thinking", "waiting"},
           NEW t \in Turns, TurnOne(p, t), t.pc \in {"top", "waiting", "over"},
           t.with = turn[p].with,
           t.pc = "waiting" => p \in heard,
           t.pc = "over" => t.why \in Stopped /\ (t.why = "Completed" => p \in heard),
           UNCHANGED <<session, reply, heard, bots, mix>>
    PROVE  Turning'
<1>1. turn'[p] = t /\ \A q \in Prompts : q # p => turn'[q] = turn[q]
  BY DEF TurnOne
<1>2. \A q \in Prompts : Running(q)' = Running(q)
  BY <1>1 DEF Running
<1>3. TurnsOwnTheirSession'
  BY <1>2 DEF Turning, TurnsOwnTheirSession, OfSession
<1>4. SessionsKnowTheirTurn'
  <2> SUFFICES ASSUME NEW z \in Sessions, session[z] # None, session[z].turn # None
               PROVE  Running(session[z].turn)' /\ Job[session[z].turn].session = z
    BY DEF SessionsKnowTheirTurn, Running
  <2>1. session[z].turn \in Prompts
    BY SessionFields DEF AgentTypes
  <2> QED BY <2>1, <1>2 DEF Turning, SessionsKnowTheirTurn
<1>5. Endings' /\ HeardSoFar'
  BY <1>1 DEF Turning, Endings, HeardSoFar
<1>6. Joiners'
  <2> SUFFICES ASSUME NEW q \in Prompts, turn'[q].pc = "joined"
               PROVE  /\ turn'[q].with \in Prompts
                      /\ OfSession(q) # None /\ OfSession(q).turn = turn'[q].with
                      /\ \/ q \in Range(OfSession(q).said)
                         \/ q \in heard
                         \/ turn'[turn'[q].with].pc = "over" /\ turn'[turn'[q].with].why = "StepLimit"
    BY DEF Joiners, OfSession
  <2>1. turn'[q] = turn[q] /\ turn[q].pc = "joined"
    BY <1>1
  <2>2. turn[q].with \in Prompts /\ OfSession(q) # None /\ OfSession(q).turn = turn[q].with
        /\ \/ q \in Range(OfSession(q).said) \/ q \in heard
           \/ turn[turn[q].with].pc = "over" /\ turn[turn[q].with].why = "StepLimit"
    BY <2>1 DEF Turning, Joiners
  <2> QED BY <1>1, <2>1, <2>2
<1>7. Answered'
  <2>1. reply[p] = None
    BY RunningHas DEF Running
  <2> QED BY <1>1, <2>1 DEF Turning, Answered
<1> QED BY <1>3, <1>4, <1>5, <1>6, <1>7 DEF Turning, TargetsAreThere

\* The top of a step: what was said is read, or there is no step left to read it in.
LEMMA TakeTurns ==
    ASSUME AgentTypes, Turning, NEW p \in Prompts, turn[p].pc = "top",
           SessionOne(Job[p].session, [Mine(p) EXCEPT !.said = <<>>]),
           NEW t \in Turns, TurnOne(p, t), t.with = turn[p].with,
           \/ t.pc = "thinking" /\ heard' = heard \cup {p} \cup Range(Mine(p).said)
           \/ t.pc = "over" /\ t.why = "StepLimit" /\ heard' = heard,
           UNCHANGED <<reply, bots, mix>>
    PROVE  Turning'
<1> DEFINE s == Job[p].session
<1>0. /\ Running(p) /\ s \in Sessions /\ Mine(p) = session[s] /\ session[s] \in SessionRecords
      /\ session[s] # None /\ session[s].turn = p /\ reply[p] = None
  BY RunningHas, SessionFields DEF Running, Mine, OfSession
<1>1. PICK r \in SessionRecords : /\ r = session'[s] /\ r # None /\ r.target = session[s].target
                                  /\ r.turn = session[s].turn /\ r.said = <<>>
  <2>1. session'[s] = [session[s] EXCEPT !.said = <<>>]
    BY <1>0 DEF SessionOne
  <2> QED BY <1>0, <2>1, SaidTaken, SessionFields
<1>2. \A z \in Sessions : z # s => session'[z] = session[z]
  BY DEF SessionOne
<1>3. turn'[p] = t /\ \A q \in Prompts : q # p => turn'[q] = turn[q]
  BY DEF TurnOne
<1>4. \A q \in Prompts : Running(q)' = Running(q)
  BY <1>0, <1>3 DEF Running
<1>5. \A z \in Sessions : /\ (session'[z] # None) = (session[z] # None)
                          /\ session[z] # None => /\ session'[z].turn = session[z].turn
                                                  /\ session'[z].target = session[z].target
  BY <1>0, <1>1, <1>2
<1>6. TurnsOwnTheirSession'
  BY <1>4, <1>5, JobTyped DEF Turning, TurnsOwnTheirSession, OfSession
<1>7. SessionsKnowTheirTurn'
  <2> SUFFICES ASSUME NEW z \in Sessions, session'[z] # None, session'[z].turn # None
               PROVE  /\ turn'[session'[z].turn].pc \in {"top", "thinking", "waiting", "over"}
                      /\ Job[session'[z].turn].session = z
    BY DEF SessionsKnowTheirTurn, Running
  <2>1. session[z] # None /\ session[z].turn # None /\ session'[z].turn = session[z].turn
    BY <1>5
  <2>2. session[z].turn \in Prompts
    BY <2>1, SessionFields DEF AgentTypes
  <2>3. Running(session[z].turn) /\ Job[session[z].turn].session = z
    BY <2>1 DEF Turning, SessionsKnowTheirTurn
  <2> QED BY <1>3, <2>1, <2>2, <2>3 DEF Running
<1>8. Endings' /\ HeardSoFar' /\ Answered'
  <2>1. Endings'
    BY <1>3 DEF Turning, Endings, Stopped
  <2>2. HeardSoFar'
    BY <1>3 DEF Turning, HeardSoFar
  <2>3. Answered'
    BY <1>0, <1>3 DEF Turning, Answered
  <2> QED BY <2>1, <2>2, <2>3
<1>9. Joiners'
  <2> SUFFICES ASSUME NEW q \in Prompts, turn'[q].pc = "joined"
               PROVE  /\ turn'[q].with \in Prompts
                      /\ OfSession(q)' # None /\ OfSession(q)'.turn = turn'[q].with
                      /\ \/ q \in Range(OfSession(q)'.said)
                         \/ q \in heard'
                         \/ turn'[turn'[q].with].pc = "over" /\ turn'[turn'[q].with].why = "StepLimit"
    BY DEF Joiners
  <2>1. turn'[q] = turn[q] /\ turn[q].pc = "joined"
    BY <1>3
  <2>2. turn[q].with \in Prompts /\ OfSession(q) # None /\ OfSession(q).turn = turn[q].with
        /\ \/ q \in Range(OfSession(q).said) \/ q \in heard
           \/ turn[turn[q].with].pc = "over" /\ turn[turn[q].with].why = "StepLimit"
    BY <2>1 DEF Turning, Joiners
  <2>3. OfSession(q)' # None /\ OfSession(q)'.turn = turn[q].with
    BY <2>2, <1>5, JobTyped DEF OfSession
  <2>4. CASE Job[q].session = s
    <3>1. turn[q].with = p
      BY <2>2, <2>4, <1>0 DEF OfSession
    <3>2. q \in Range(Mine(p).said) \/ q \in heard
      BY <3>1, <2>2, <2>4, <1>0 DEF OfSession
    <3> QED BY <2>1, <2>2, <2>3, <3>1, <3>2, <1>3
  <2>5. CASE Job[q].session # s
    <3>1. OfSession(q)' = OfSession(q)
      BY <2>5, <1>2, JobTyped DEF OfSession
    <3>2. turn[q].with # p
      BY <2>1, <2>5, JoinedHas
    <3> QED BY <2>1, <2>2, <2>3, <3>1, <3>2, <1>3
  <2> QED BY <2>4, <2>5
<1>10. TargetsAreThere'
  BY <1>5 DEF Turning, TargetsAreThere
<1> QED BY <1>6, <1>7, <1>8, <1>9, <1>10 DEF Turning

LEMMA TurnEndIs ==
    ASSUME NEW why \in Stopped
    PROVE  /\ TurnEnd(why) \in Replies \ {"unheard"}
           /\ TurnEnd(why) = "EndTurn" => why = "Completed"
BY DEF Stopped, Replies, TurnEnd

LEMMA JoinersToldIs ==
    ASSUME NEW p \in Prompts, NEW why \in Stopped
    PROVE  /\ JoinersTold(p, why) \in Replies \ {"error"}
           /\ JoinersTold(p, why) = "EndTurn" => why = "Completed" /\ Mine(p).said = <<>>
BY DEF Stopped, Replies, TurnEnd, JoinersTold, JoinersToldTheStop

\* The end of a turn: its session is free, whoever joined it is told.
Ends(p) ==
    /\ SessionOne(Job[p].session, Release(Job[p].session))
    /\ turn' \in [Prompts -> Turns]
    /\ turn'[p].pc = "ended" /\ turn'[p].why = turn[p].why /\ turn'[p].with = turn[p].with
    /\ \A q \in Prompts \ {p} :
          IF turn[q].pc = "joined" /\ turn[q].with = p
          THEN /\ turn'[q].pc = "told" /\ turn'[q].why = JoinersTold(p, turn[p].why)
               /\ turn'[q].with = turn[q].with
          ELSE turn'[q] = turn[q]
    /\ reply' = [reply EXCEPT ![p] = TurnEnd(turn[p].why)]

LEMMA EndDoes ==
    ASSUME AgentTypes, Turning, NEW p \in Prompts, End(p)
    PROVE  Ends(p) /\ UNCHANGED <<heard, bots, mix>>
<1>1. turn[p].pc = "over" /\ turn[p].why \in Stopped
  BY DEF End, At, Turning, Endings
<1>2. Running(p) /\ Job[p].session \in Sessions /\ session[Job[p].session] \in SessionRecords
  BY <1>1, RunningHas DEF Running, OfSession
<1>3. SessionOne(Job[p].session, Release(Job[p].session))
  BY <1>2, Released, SetSession DEF End
<1>4. "ended" \in TurnPcs /\ "told" \in TurnPcs
  BY DEF TurnPcs
<1>5. JoinersTold(p, turn[p].why) \in Stopped \cup Replies
  BY <1>1, JoinersToldIs
<1> DEFINE told == JoinersTold(p, turn[p].why)
<1>6. turn' = [q \in Prompts |->
                  IF q = p THEN Moved(turn[q], "ended")
                  ELSE IF q \in JoinedTo(p) THEN Ended(turn[q], "told", told)
                  ELSE turn[q]]
  BY DEF End, Moved, Ended
<1>7. \A q \in Prompts : turn[q] \in Turns
  BY DEF AgentTypes
<1> HIDE DEF told
<1>8. \A q \in Prompts : turn'[q] \in Turns
  BY <1>4, <1>5, <1>6, <1>7, TurnGoes, TurnEnds DEF told
<1>9. turn'[p].pc = "ended" /\ turn'[p].why = turn[p].why /\ turn'[p].with = turn[p].with
  BY <1>4, <1>6, <1>7, TurnGoes
<1>10. ASSUME NEW q \in Prompts \ {p}
       PROVE  IF turn[q].pc = "joined" /\ turn[q].with = p
              THEN /\ turn'[q].pc = "told" /\ turn'[q].why = told
                   /\ turn'[q].with = turn[q].with
              ELSE turn'[q] = turn[q]
  <2>1. CASE q \in JoinedTo(p)
    <3>1. turn'[q] = Ended(turn[q], "told", told)
      BY <2>1, <1>6
    <3>2. turn'[q].pc = "told" /\ turn'[q].why = told /\ turn'[q].with = turn[q].with
      BY <3>1, <1>4, <1>5, <1>7, TurnEnds DEF told
    <3> QED BY <2>1, <3>2 DEF JoinedTo
  <2>2. CASE q \notin JoinedTo(p)
    <3>1. turn'[q] = turn[q]
      BY <2>2, <1>6
    <3> QED BY <2>2, <3>1 DEF JoinedTo
  <2> QED BY <2>1, <2>2
<1>11. turn' \in [Prompts -> Turns]
  BY <1>6, <1>8
<1>12. reply' = [reply EXCEPT ![p] = TurnEnd(turn[p].why)] /\ UNCHANGED <<heard, bots, mix>>
  BY DEF End
<1> QED BY <1>3, <1>9, <1>10, <1>11, <1>12 DEF Ends, told

LEMMA EndTurns ==
    ASSUME AgentTypes, Turning, NEW p \in Prompts, turn[p].pc = "over", Ends(p),
           UNCHANGED <<heard, bots, mix>>
    PROVE  Turning'
<1> DEFINE s == Job[p].session
<1>0. /\ Running(p) /\ s \in Sessions /\ Mine(p) = session[s] /\ session[s] \in SessionRecords
      /\ session[s] # None /\ session[s].turn = p /\ turn[p].why \in Stopped
  BY RunningHas, SessionFields DEF Running, Mine, OfSession, Turning, Endings
<1>1. PICK r \in SessionRecords : /\ r = session'[s] /\ r # None /\ r.target = session[s].target
                                  /\ r.turn = None
  <2>1. session'[s] = Release(s)
    BY DEF Ends, SessionOne
  <2> QED BY <1>0, <2>1, Released, SessionFields
<1>2. \A z \in Sessions : z # s => session'[z] = session[z]
  BY DEF Ends, SessionOne
<1>3. turn'[p].pc = "ended"
  BY DEF Ends
<1>4. \A q \in Prompts \ {p} : turn'[q] = turn[q]
          \/ /\ turn[q].pc = "joined" /\ turn[q].with = p /\ turn'[q].pc = "told"
             /\ turn'[q].why = JoinersTold(p, turn[p].why)
  BY DEF Ends
<1>5. \A q \in Prompts \ {p} : turn'[q].pc = "joined" =>
          turn'[q] = turn[q] /\ turn[q].with # p
  BY DEF Ends
<1>6. \A q \in Prompts : Running(q)' => q # p /\ Running(q) /\ turn'[q] = turn[q]
  BY <1>3, <1>4 DEF Running
<1>7. \A q \in Prompts : q # p /\ Running(q) => Running(q)'
  BY <1>4 DEF Running
<1>8. \A q \in Prompts : q # p /\ Running(q) => Job[q].session # s
  BY <1>0, RunningHas DEF OfSession
<1>9. TurnsOwnTheirSession'
  BY <1>2, <1>6, <1>8, JobTyped DEF Turning, TurnsOwnTheirSession, OfSession
<1>10. SessionsKnowTheirTurn'
  <2> SUFFICES ASSUME NEW z \in Sessions, session'[z] # None, session'[z].turn # None
               PROVE  /\ turn'[session'[z].turn].pc \in {"top", "thinking", "waiting", "over"}
                      /\ Job[session'[z].turn].session = z
    BY DEF SessionsKnowTheirTurn, Running
  <2>1. z # s /\ session'[z] = session[z]
    BY <1>1, <1>2
  <2>2. session[z].turn \in Prompts
    BY <2>1, SessionFields DEF AgentTypes
  <2>3. Running(session[z].turn) /\ Job[session[z].turn].session = z
    BY <2>1 DEF Turning, SessionsKnowTheirTurn
  <2>4. session[z].turn # p
    BY <2>1, <2>3
  <2>5. turn'[session[z].turn] = turn[session[z].turn]
    BY <2>2, <2>3, <2>4, <1>4 DEF Running
  <2> QED BY <2>1, <2>3, <2>5 DEF Running
<1>11. Endings'
  BY <1>0, <1>3, <1>4, JoinersToldIs DEF Turning, Endings
<1>12. turn[p].why = "Completed" => p \in heard
  BY DEF Turning, HeardSoFar
<1>13. \A q \in Prompts \ {p} : turn'[q].pc = "told" /\ turn'[q].why = "EndTurn" => q \in heard
  <2> SUFFICES ASSUME NEW q \in Prompts \ {p}, turn'[q].pc = "told", turn'[q].why = "EndTurn"
               PROVE  q \in heard
    OBVIOUS
  <2>1. CASE turn'[q] = turn[q]
    BY <2>1 DEF Turning, HeardSoFar
  <2>2. CASE turn'[q] # turn[q]
    <3>1. turn[q].pc = "joined" /\ turn[q].with = p
          /\ turn'[q].why = JoinersTold(p, turn[p].why)
      BY <2>2, <1>4
    <3>2. turn[p].why = "Completed" /\ Mine(p).said = <<>>
      BY <3>1, <1>0, JoinersToldIs
    <3>3. OfSession(q) = session[s]
      BY <3>1, JoinedHas DEF OfSession
    <3>4. Range(OfSession(q).said) = {}
      BY <3>2, <3>3, <1>0 DEF Range
    <3>5. turn[turn[q].with].why # "StepLimit"
      BY <3>1, <3>2
    <3> QED BY <3>1, <3>4, <3>5 DEF Turning, Joiners
  <2> QED BY <2>1, <2>2
<1>14. \A q \in Prompts : reply'[q] = IF q = p THEN TurnEnd(turn[p].why) ELSE reply[q]
  BY DEF Ends, AgentTypes
<1>15. HeardSoFar'
  <2>1. \A q \in Prompts : reply'[q] = "EndTurn" => q \in heard
    BY <1>0, <1>12, <1>14, TurnEndIs DEF Turning, HeardSoFar
  <2> QED BY <2>1, <1>3, <1>4, <1>13 DEF Turning, HeardSoFar
<1>16. Answered'
  <2>1. \A q \in Prompts : reply[q] # None => turn[q].pc \in {"ended", "idle"}
    BY DEF Turning, Answered
  <2> QED BY <1>3, <1>4, <1>14, <2>1 DEF Answered
<1>17. Joiners'
  <2> SUFFICES ASSUME NEW q \in Prompts, turn'[q].pc = "joined"
               PROVE  /\ turn'[q].with \in Prompts
                      /\ OfSession(q)' # None /\ OfSession(q)'.turn = turn'[q].with
                      /\ \/ q \in Range(OfSession(q)'.said)
                         \/ q \in heard
                         \/ turn'[turn'[q].with].pc = "over" /\ turn'[turn'[q].with].why = "StepLimit"
    BY DEF Joiners
  <2>1. turn'[q] = turn[q] /\ turn[q].pc = "joined" /\ turn[q].with # p
    BY <1>3, <1>5
  <2>2. Running(turn[q].with) /\ turn[q].with \in Prompts /\ Job[turn[q].with].session = Job[q].session
    BY <2>1, JoinedHas
  <2>3. Job[q].session # s
    BY <2>1, <2>2, <1>8
  <2>4. OfSession(q)' = OfSession(q)
    BY <2>3, <1>2, JobTyped DEF OfSession
  <2>5. turn'[turn[q].with] = turn[turn[q].with]
    BY <2>1, <2>2, <1>4 DEF Running
  <2> QED BY <2>1, <2>4, <2>5 DEF Turning, Joiners
<1>18. TargetsAreThere'
  BY <1>0, <1>1, <1>2 DEF Turning, TargetsAreThere
<1> QED BY <1>9, <1>10, <1>11, <1>15, <1>16, <1>17, <1>18 DEF Turning

\* Whoever joined comes back with what it was told.
LEMMA ToldTurns ==
    ASSUME AgentTypes, Turning, NEW p \in Prompts, turn[p].pc = "told",
           NEW t \in Turns, TurnOne(p, t), t.pc = "ended",
           reply' = [reply EXCEPT ![p] = turn[p].why],
           UNCHANGED <<session, heard, bots, mix>>
    PROVE  Turning'
<1>1. turn'[p] = t /\ \A q \in Prompts : q # p => turn'[q] = turn[q]
  BY DEF TurnOne
<1>2. \A q \in Prompts : Running(q)' = Running(q)
  BY <1>1 DEF Running
<1>3. TurnsOwnTheirSession'
  BY <1>2 DEF Turning, TurnsOwnTheirSession, OfSession
<1>4. SessionsKnowTheirTurn'
  <2> SUFFICES ASSUME NEW z \in Sessions, session[z] # None, session[z].turn # None
               PROVE  Running(session[z].turn)' /\ Job[session[z].turn].session = z
    BY DEF SessionsKnowTheirTurn, Running
  <2>1. session[z].turn \in Prompts
    BY SessionFields DEF AgentTypes
  <2> QED BY <2>1, <1>2 DEF Turning, SessionsKnowTheirTurn
<1>5. \A q \in Prompts : reply'[q] = IF q = p THEN turn[p].why ELSE reply[q]
  BY DEF AgentTypes
<1>6. Endings' /\ HeardSoFar'
  BY <1>1, <1>5 DEF Turning, Endings, HeardSoFar
<1>7. Answered'
  BY <1>1, <1>5 DEF Turning, Answered
<1>8. Joiners'
  <2> SUFFICES ASSUME NEW q \in Prompts, turn'[q].pc = "joined"
               PROVE  /\ turn'[q].with \in Prompts
                      /\ OfSession(q) # None /\ OfSession(q).turn = turn'[q].with
                      /\ \/ q \in Range(OfSession(q).said)
                         \/ q \in heard
                         \/ turn'[turn'[q].with].pc = "over" /\ turn'[turn'[q].with].why = "StepLimit"
    BY DEF Joiners, OfSession
  <2>1. turn'[q] = turn[q] /\ turn[q].pc = "joined"
    BY <1>1
  <2>2. turn[q].with # p
    BY <2>1, JoinedHas DEF Running
  <2> QED BY <1>1, <2>1, <2>2 DEF Turning, Joiners
<1> QED BY <1>3, <1>4, <1>6, <1>7, <1>8 DEF Turning, TargetsAreThere

-----------------------------------------------------------------------------
(***************************************************************************)
(* Stopping: the pipe, the flags and the commands.                           *)
(***************************************************************************)

\* The agent goes on with a turn: nothing leaves or enters the pipe.
LEMMA StepStops ==
    ASSUME Stopping,
           UNCHANGED <<toAgent, pressed, loop, opener, page, agent, engine, mix>>,
           \A q \in Prompts : turn[q].pc = "idle" => turn'[q].pc = "idle" /\ reply'[q] = reply[q],
           \A q \in Prompts : reply[q] # None => reply'[q] # None,
           \A q \in Prompts : turn'[q].pc # "idle" => turn[q].pc # "idle",
           \A s \in Sessions : session'[s] # None /\ session'[s].turn # None =>
               /\ session[s] # None /\ session[s].turn = session'[s].turn
               /\ session'[s].stop => session[s].stop,
           StopIsForThatTurn', toAgent \in Seq(Messages)
    PROVE  Stopping'
<1>0. \A i \in DOMAIN toAgent : toAgent[i] \in Messages
  OBVIOUS
<1>1. StopsAreMeant'
  BY DEF Stopping, StopsAreMeant
<1>2. PromptsInThePipe'
  <2> SUFFICES ASSUME NEW i \in DOMAIN toAgent, toAgent[i].kind = "prompt"
               PROVE  /\ turn'[toAgent[i].prompt].pc = "idle" /\ reply'[toAgent[i].prompt] = None
                      /\ loop[toAgent[i].prompt].pc # "idle"
                      /\ \A j \in DOMAIN toAgent :
                            toAgent[j].kind = "prompt" /\ toAgent[j].prompt = toAgent[i].prompt => j = i
    BY DEF PromptsInThePipe
  <2>1. toAgent[i].prompt \in Prompts
    BY <1>0, MessageFields
  <2> QED BY <2>1 DEF Stopping, PromptsInThePipe
<1>3. CancelsInThePipe'
  <2> SUFFICES ASSUME NEW i \in DOMAIN toAgent, toAgent[i].kind = "cancel"
               PROVE  /\ session'[toAgent[i].session] # None /\ session'[toAgent[i].session].turn # None
                            => session'[toAgent[i].session].turn \in pressed
                      /\ \A j \in DOMAIN toAgent :
                            j <= i /\ toAgent[j].kind = "prompt"
                                   /\ Job[toAgent[j].prompt].session = toAgent[i].session
                                => toAgent[j].prompt \in pressed
    BY DEF CancelsInThePipe
  <2>1. toAgent[i].session \in Sessions
    BY <1>0, MessageFields
  <2> QED BY <2>1 DEF Stopping, CancelsInThePipe
<1>4. Commands'
  <2>1. \A q \in Prompts : turn'[q].pc # "idle" \/ reply'[q] # None => turn[q].pc # "idle" \/ reply[q] # None
    OBVIOUS
  <2> QED BY <2>1 DEF Stopping, Commands
<1> QED BY <1>1, <1>2, <1>3, <1>4 DEF Stopping

\* The agent reads one message.
Head1 == Head(toAgent)
LEMMA ReceiveStops ==
    ASSUME AgentTypes, Stopping, toAgent # <<>>, toAgent' = Tail(toAgent),
           UNCHANGED <<pressed, loop, opener, page, agent, engine, mix>>,
           \A q \in Prompts : (Head1.kind = "prompt" => q # Head1.prompt) =>
               turn'[q] = turn[q] /\ reply'[q] = reply[q],
           \A q \in Prompts : reply[q] # None => reply'[q] # None,
           \A s \in Sessions : session'[s] # None /\ session'[s].turn # None =>
               \/ /\ session[s] # None /\ session[s].turn = session'[s].turn
                  /\ session'[s].stop => session[s].stop \/ session[s].turn \in pressed
               \/ /\ Head1.kind = "prompt" /\ session'[s].turn = Head1.prompt
                  /\ Job[Head1.prompt].session = s /\ ~session'[s].stop,
           StopIsForThatTurn'
    PROVE  Stopping'
<1>0. /\ Head1 \in Messages /\ 1 \in DOMAIN toAgent /\ Head1 = toAgent[1]
      /\ \A i \in DOMAIN toAgent' : i \in Nat /\ i + 1 \in DOMAIN toAgent /\ toAgent'[i] = toAgent[i + 1]
  <2>1. toAgent \in Seq(Messages)
    BY DEF AgentTypes
  <2> QED BY <2>1, HeadAndTail DEF Head1
<1>1. \A i \in DOMAIN toAgent : toAgent[i] \in Messages /\ i \in Nat /\ i >= 1
  <2>1. toAgent \in Seq(Messages)
    BY DEF AgentTypes
  <2> QED BY <2>1, InSeq
<1>2. StopsAreMeant'
  BY DEF Stopping, StopsAreMeant
<1>3. PromptsInThePipe'
  <2> SUFFICES ASSUME NEW i \in DOMAIN toAgent', toAgent'[i].kind = "prompt"
               PROVE  /\ turn'[toAgent'[i].prompt].pc = "idle" /\ reply'[toAgent'[i].prompt] = None
                      /\ loop[toAgent'[i].prompt].pc # "idle"
                      /\ \A j \in DOMAIN toAgent' :
                            toAgent'[j].kind = "prompt" /\ toAgent'[j].prompt = toAgent'[i].prompt => j = i
    BY DEF PromptsInThePipe
  <2>1. PICK k \in DOMAIN toAgent : k = i + 1 /\ toAgent'[i] = toAgent[k] /\ i \in Nat
    BY <1>0
  <2>2. k # 1
    BY <1>1, <1>0, <2>1
  <2>3. toAgent[k].prompt \in Prompts
    BY <2>1, <1>1, MessageFields
  <2>4. Head1.kind = "prompt" => toAgent[k].prompt # Head1.prompt
    BY <1>0, <2>1, <2>2 DEF Stopping, PromptsInThePipe
  <2>5. /\ turn[toAgent[k].prompt].pc = "idle" /\ reply[toAgent[k].prompt] = None
        /\ loop[toAgent[k].prompt].pc # "idle"
        /\ \A j \in DOMAIN toAgent :
              toAgent[j].kind = "prompt" /\ toAgent[j].prompt = toAgent[k].prompt => j = k
    BY <2>1 DEF Stopping, PromptsInThePipe
  <2>6. ASSUME NEW j \in DOMAIN toAgent', toAgent'[j].kind = "prompt",
               toAgent'[j].prompt = toAgent'[i].prompt
        PROVE  j = i
    <3>1. j \in Nat /\ j + 1 \in DOMAIN toAgent /\ toAgent'[j] = toAgent[j + 1]
      BY <1>0
    <3>2. j + 1 = k
      BY <2>1, <2>5, <2>6, <3>1
    <3> QED BY <2>1, <3>1, <3>2
  <2> QED BY <2>1, <2>3, <2>4, <2>5, <2>6
<1>4. CancelsInThePipe'
  <2> SUFFICES ASSUME NEW i \in DOMAIN toAgent', toAgent'[i].kind = "cancel"
               PROVE  /\ session'[toAgent'[i].session] # None /\ session'[toAgent'[i].session].turn # None
                            => session'[toAgent'[i].session].turn \in pressed
                      /\ \A j \in DOMAIN toAgent' :
                            j <= i /\ toAgent'[j].kind = "prompt"
                                   /\ Job[toAgent'[j].prompt].session = toAgent'[i].session
                                => toAgent'[j].prompt \in pressed
    BY DEF CancelsInThePipe
  <2>1. PICK k \in DOMAIN toAgent : k = i + 1 /\ toAgent'[i] = toAgent[k] /\ i \in Nat /\ k >= 1
    BY <1>0, <1>1
  <2>2. PICK s \in Sessions : s = toAgent[k].session
    BY <2>1, <1>1, MessageFields
  <2>3. /\ session[s] # None /\ session[s].turn # None => session[s].turn \in pressed
        /\ \A j \in DOMAIN toAgent : j <= k /\ toAgent[j].kind = "prompt"
                                        /\ Job[toAgent[j].prompt].session = s
                                      => toAgent[j].prompt \in pressed
    BY <2>1, <2>2 DEF Stopping, CancelsInThePipe
  <2>4. Head1.kind = "prompt" /\ Job[Head1.prompt].session = s => Head1.prompt \in pressed
    BY <1>0, <2>1, <2>3
  <2>5. session'[s] # None /\ session'[s].turn # None => session'[s].turn \in pressed
    BY <2>2, <2>3, <2>4
  <2>6. ASSUME NEW j \in DOMAIN toAgent', j <= i, toAgent'[j].kind = "prompt",
               Job[toAgent'[j].prompt].session = s
        PROVE  toAgent'[j].prompt \in pressed
    <3>1. j \in Nat /\ j + 1 \in DOMAIN toAgent /\ toAgent'[j] = toAgent[j + 1] /\ j + 1 <= k
      BY <1>0, <2>1, <2>6
    <3> QED BY <2>3, <2>6, <3>1
  <2> QED BY <2>1, <2>2, <2>5, <2>6
<1>5. Commands'
  <2>1. Head1.kind = "prompt" => loop[Head1.prompt].pc # "idle"
    BY <1>0 DEF Stopping, PromptsInThePipe
  <2>2. \A q \in Prompts : turn'[q].pc # "idle" \/ reply'[q] # None => loop[q].pc # "idle"
    BY <2>1 DEF Stopping, Commands
  <2> QED BY <2>2 DEF Stopping, Commands
<1> QED BY <1>2, <1>3, <1>4, <1>5 DEF Stopping

\* The window's side: the turns and their sessions stay as they are.
LEMMA WindowStops ==
    ASSUME AgentTypes, Stopping, UNCHANGED <<session, turn, reply, mix>>,
           pressed \subseteq pressed',
           \A q \in Prompts : loop[q].pc # "idle" => loop'[q].pc # "idle",
           toAgent' = toAgent \/ toAgent' = <<>>,
           Commands'
    PROVE  Stopping'
<1>0. \A i \in DOMAIN toAgent : toAgent[i] \in Messages /\ i \in Nat /\ i >= 1
  <2>1. toAgent \in Seq(Messages)
    BY DEF AgentTypes
  <2> QED BY <2>1, InSeq
<1>1. StopsAreMeant'
  BY DEF Stopping, StopsAreMeant, StopIsForThatTurn
<1>2. CASE toAgent' = <<>>
  <2>1. DOMAIN toAgent' = {}
    BY <1>2
  <2> QED BY <2>1, <1>1 DEF Stopping, PromptsInThePipe, CancelsInThePipe
<1>3. CASE toAgent' = toAgent
  <2>1. PromptsInThePipe'
    BY <1>0, <1>3, MessageFields DEF Stopping, PromptsInThePipe
  <2>2. CancelsInThePipe'
    BY <1>3 DEF Stopping, CancelsInThePipe
  <2> QED BY <1>1, <2>1, <2>2 DEF Stopping
<1> QED BY <1>2, <1>3

LEMMA AppendedAt ==
    ASSUME NEW S, NEW q \in Seq(S), NEW x \in S
    PROVE  /\ Append(q, x) \in Seq(S)
           /\ \A i \in DOMAIN Append(q, x) :
                 \/ i \in DOMAIN q /\ Append(q, x)[i] = q[i]
                 \/ i = Len(q) + 1 /\ Append(q, x)[i] = x
           /\ \A i \in DOMAIN q : i \in Nat /\ i <= Len(q)
           /\ Len(q) \in Nat
<1>1. DOMAIN Append(q, x) = 1 .. Len(q) + 1 /\ DOMAIN q = 1 .. Len(q) /\ Len(q) \in Nat
  OBVIOUS
<1>2. \A i \in 1 .. Len(q) : Append(q, x)[i] = q[i]
  OBVIOUS
<1>3. Append(q, x)[Len(q) + 1] = x
  OBVIOUS
<1>4. Append(q, x) \in Seq(S)
  OBVIOUS
<1> QED BY <1>1, <1>2, <1>3, <1>4

LEMMA PipeGrows ==
    ASSUME AgentTypes, Stopping, UNCHANGED <<session, turn, reply, mix>>,
           pressed \subseteq pressed',
           \A q \in Prompts : loop[q].pc # "idle" => loop'[q].pc # "idle",
           NEW m \in Messages, toAgent' = Append(toAgent, m),
           m.kind = "prompt" =>
               /\ turn[m.prompt].pc = "idle" /\ reply[m.prompt] = None
               /\ loop[m.prompt].pc = "idle" /\ loop'[m.prompt].pc # "idle",
           m.kind = "cancel" =>
               /\ session[m.session] # None /\ session[m.session].turn # None
                     => session[m.session].turn \in pressed'
               /\ \A j \in DOMAIN toAgent : toAgent[j].kind = "prompt"
                                              /\ Job[toAgent[j].prompt].session = m.session
                                            => toAgent[j].prompt \in pressed',
           Commands'
    PROVE  Stopping'
<1>0. toAgent \in Seq(Messages)
  BY DEF AgentTypes
<1>1. \A i \in DOMAIN toAgent : toAgent[i] \in Messages /\ i \in Nat /\ i >= 1
  BY <1>0, InSeq
<1>2. \A i \in DOMAIN toAgent' :
          \/ i \in DOMAIN toAgent /\ toAgent'[i] = toAgent[i]
          \/ i = Len(toAgent) + 1 /\ toAgent'[i] = m
  <2>1. \A i \in DOMAIN Append(toAgent, m) :
           \/ i \in DOMAIN toAgent /\ Append(toAgent, m)[i] = toAgent[i]
           \/ i = Len(toAgent) + 1 /\ Append(toAgent, m)[i] = m
    BY <1>0, AppendedAt
  <2> QED BY <2>1
<1>3. Len(toAgent) \in Nat /\ \A i \in DOMAIN toAgent : i \in Nat /\ i <= Len(toAgent)
  BY <1>0, AppendedAt
<1>4. StopsAreMeant'
  BY DEF Stopping, StopsAreMeant, StopIsForThatTurn
<1>5. PromptsInThePipe'
  <2> SUFFICES ASSUME NEW i \in DOMAIN toAgent', toAgent'[i].kind = "prompt"
               PROVE  /\ turn'[toAgent'[i].prompt].pc = "idle" /\ reply'[toAgent'[i].prompt] = None
                      /\ loop'[toAgent'[i].prompt].pc # "idle"
                      /\ \A j \in DOMAIN toAgent' :
                            toAgent'[j].kind = "prompt" /\ toAgent'[j].prompt = toAgent'[i].prompt => j = i
    BY DEF PromptsInThePipe
  <2>1. CASE i \in DOMAIN toAgent /\ toAgent'[i] = toAgent[i]
    <3>1. toAgent[i].prompt \in Prompts
      BY <2>1, <1>1, MessageFields
    <3>2. /\ turn[toAgent[i].prompt].pc = "idle" /\ reply[toAgent[i].prompt] = None
          /\ loop[toAgent[i].prompt].pc # "idle"
          /\ \A j \in DOMAIN toAgent :
                toAgent[j].kind = "prompt" /\ toAgent[j].prompt = toAgent[i].prompt => j = i
      BY <2>1 DEF Stopping, PromptsInThePipe
    <3> QED BY <1>2, <2>1, <3>1, <3>2
  <2>2. CASE i = Len(toAgent) + 1 /\ toAgent'[i] = m
    <3>1. \A j \in DOMAIN toAgent : toAgent[j].kind = "prompt" => toAgent[j].prompt # m.prompt
      BY <2>2 DEF Stopping, PromptsInThePipe
    <3> QED BY <1>2, <2>2, <3>1
  <2> QED BY <1>2, <2>1, <2>2
<1>6. CancelsInThePipe'
  <2> SUFFICES ASSUME NEW i \in DOMAIN toAgent', toAgent'[i].kind = "cancel"
               PROVE  /\ session[toAgent'[i].session] # None /\ session[toAgent'[i].session].turn # None
                            => session[toAgent'[i].session].turn \in pressed'
                      /\ \A j \in DOMAIN toAgent' :
                            j <= i /\ toAgent'[j].kind = "prompt"
                                   /\ Job[toAgent'[j].prompt].session = toAgent'[i].session
                                => toAgent'[j].prompt \in pressed'
    BY DEF CancelsInThePipe
  <2>1. CASE i \in DOMAIN toAgent /\ toAgent'[i] = toAgent[i]
    <3>1. /\ session[toAgent[i].session] # None /\ session[toAgent[i].session].turn # None
                => session[toAgent[i].session].turn \in pressed
          /\ \A j \in DOMAIN toAgent :
                j <= i /\ toAgent[j].kind = "prompt"
                       /\ Job[toAgent[j].prompt].session = toAgent[i].session
                    => toAgent[j].prompt \in pressed
      BY <2>1 DEF Stopping, CancelsInThePipe
    <3>2. \A j \in DOMAIN toAgent' : j <= i => j \in DOMAIN toAgent /\ toAgent'[j] = toAgent[j]
      BY <1>2, <1>3, <2>1
    <3> QED BY <2>1, <3>1, <3>2
  <2>2. CASE i = Len(toAgent) + 1 /\ toAgent'[i] = m
    <3>1. m.kind = "cancel"
      BY <2>2
    <3> QED BY <1>2, <2>2, <3>1
  <2> QED BY <1>2, <2>1, <2>2
<1> QED BY <1>4, <1>5, <1>6 DEF Stopping

-----------------------------------------------------------------------------
(***************************************************************************)
(* Asking: questions, their answers and the dialogs.                         *)
(***************************************************************************)

LEMMA AskingFrame ==
    ASSUME Asking, UNCHANGED <<hub, waits, turn, questions, cards, loop, parked, allowed, page, mix>>
    PROVE  Asking'
BY DEF Asking, Questions, Asked, Grants, DialogsAreAnswerable, Active

LEMMA QuestionsTyped ==
    ASSUME AgentTypes, NEW p \in Prompts
    PROVE  /\ questions[p] \in Seq(Asks)
           /\ \A i \in DOMAIN questions[p] : questions[p][i] \in Asks
<1>1. questions[p] \in Seq(Asks)
  BY DEF AgentTypes
<1> QED BY <1>1, InSeq

\* A turn moves on, and no question with it.
LEMMA TurnsAsk ==
    ASSUME AgentTypes, Asking, UNCHANGED <<hub, waits, cards, loop, parked, allowed, page, mix>>,
           questions' = questions \/ \E p \in Prompts : questions' = [questions EXCEPT ![p] = <<>>],
           \A q \in Prompts : turn[q].pc # "idle" => turn'[q].pc # "idle",
           \A q \in Prompts : turn[q].pc = "waiting" =>
               turn'[q].pc = "waiting" /\ turn'[q].step = turn[q].step
    PROVE  Asking'
<1>1. \A a \in Asks : a[1] \in Prompts
  BY DEF Asks
<1>2. \A a \in Asks : hub[a] # "none" => turn'[a[1]].pc # "idle"
  BY <1>1 DEF Asking, Questions
<1>3. \A a \in Asks : hub[a] = "open" => turn'[a[1]].pc = "waiting" /\ turn'[a[1]].step = a[2]
  BY <1>1 DEF Asking, Questions
<1>4. \A p \in Prompts : \A i \in DOMAIN questions'[p] :
          i \in DOMAIN questions[p] /\ questions'[p][i] = questions[p][i]
  <2> SUFFICES ASSUME NEW p \in Prompts, NEW i \in DOMAIN questions'[p]
               PROVE  i \in DOMAIN questions[p] /\ questions'[p][i] = questions[p][i]
    OBVIOUS
  <2>1. CASE questions' = questions
    BY <2>1
  <2>2. ASSUME NEW r \in Prompts, questions' = [questions EXCEPT ![r] = <<>>]
        PROVE  i \in DOMAIN questions[p] /\ questions'[p][i] = questions[p][i]
    <3>1. questions'[p] = IF p = r THEN <<>> ELSE questions[p]
      BY <2>2 DEF AgentTypes
    <3>2. p # r
      BY <3>1
    <3> QED BY <3>1, <3>2
  <2> QED BY <2>1, <2>2
<1>5. Questions'
  BY <1>2, <1>3, <1>4 DEF Asking, Questions, Asked
<1> QED BY <1>5 DEF Asking, Grants, DialogsAreAnswerable, Active

LEMMA AskPairs ==
    \A a \in Asks : a[1] \in Prompts /\ a = <<a[1], a[2]>>
BY DEF Asks

LEMMA CardsTyped ==
    ASSUME AgentTypes, NEW i \in DOMAIN cards
    PROVE  cards[i] \in Cards /\ cards[i].ask \in Asks /\ cards[i].session \in Sessions
<1>1. cards \in Seq(Cards)
  BY DEF AgentTypes
<1>2. cards[i] \in Cards
  BY <1>1, InSeq
<1> QED BY <1>2 DEF Cards

LEMMA HeldTyped ==
    ASSUME LoopShape, NEW p \in Prompts, NEW i \in DOMAIN loop[p].asks
    PROVE  loop[p].asks[i] \in Cards /\ loop[p].asks[i].ask \in Asks
<1>1. loop[p].asks \in Seq(Cards)
  BY DEF LoopShape
<1>2. loop[p].asks[i] \in Cards
  BY <1>1, InSeq
<1> QED BY <1>2 DEF Cards

\* Questions are put to the hub, answered, or given up.
LEMMA AnswersAsk ==
    ASSUME AgentTypes, LoopShape, parked \subseteq Asks, Asking,
           UNCHANGED <<cards, loop, parked, allowed, page, mix>>,
           \A a \in Asks : /\ waits[a].state # "none" => waits'[a].state # "none"
                           /\ waits'[a].choice = waits[a].choice,
           \A q \in Prompts : \A i \in DOMAIN questions'[q] :
               \/ \E j \in DOMAIN questions[q] : questions'[q][i] = questions[q][j]
               \/ questions'[q][i][1] = q /\ hub'[questions'[q][i]] # "none",
           \A a \in Asks : /\ hub[a] # "none" => hub'[a] # "none"
                           /\ hub'[a] # "none" => turn'[a[1]].pc # "idle"
                           /\ hub'[a] = "granted" => hub[a] = "granted" \/ a \in allowed
                           /\ hub'[a] = "open" => turn'[a[1]].pc = "waiting" /\ turn'[a[1]].step = a[2]
    PROVE  Asking'
<1>1. \A a \in Asks : Asked(a) => Asked(a)'
  BY DEF Asked
<1>2. \A p \in Prompts : \A i \in DOMAIN questions'[p] :
          questions'[p][i][1] = p /\ hub'[questions'[p][i]] # "none"
  <2> SUFFICES ASSUME NEW p \in Prompts, NEW i \in DOMAIN questions'[p]
               PROVE  questions'[p][i][1] = p /\ hub'[questions'[p][i]] # "none"
    OBVIOUS
  <2>1. ASSUME NEW j \in DOMAIN questions[p], questions'[p][i] = questions[p][j]
        PROVE  questions'[p][i][1] = p /\ hub'[questions'[p][i]] # "none"
    <3>1. questions[p][j] \in Asks
      BY QuestionsTyped
    <3>2. questions[p][j][1] = p /\ hub[questions[p][j]] # "none"
      BY DEF Asking, Questions
    <3> QED BY <2>1, <3>1, <3>2
  <2> QED BY <2>1
<1>3. \A i \in DOMAIN cards : Asked(cards[i].ask)'
  BY <1>1, CardsTyped DEF Asking, Questions, Asked
<1>4. \A p \in Prompts : \A i \in DOMAIN loop[p].asks : Asked(loop[p].asks[i].ask)'
  BY <1>1, HeldTyped DEF Asking, Questions, Asked
<1>5. \A a \in parked : Asked(a)'
  BY <1>1 DEF Asking, Questions
<1>6. Questions'
  BY <1>2, <1>3, <1>4, <1>5 DEF Questions, Asked
<1>7. Grants'
  BY DEF Asking, Grants
<1>8. DialogsAreAnswerable'
  BY DEF Asking, DialogsAreAnswerable, Active
<1> QED BY <1>6, <1>7, <1>8 DEF Asking

-----------------------------------------------------------------------------
(***************************************************************************)
(* The steps of the agent.                                                  *)
(***************************************************************************)

LEMMA AgentStep ==
    ASSUME IInv, UNCHANGED windowVars, AgentTypes', Turning', Stopping', Asking'
    PROVE  IInv'
<1>1. WindowTypes'
  BY DEF IInv, Shape, WindowTypes, LoopShape, LoopOf, OpenerShape, OpenerOf, windowVars
<1> QED BY <1>1 DEF IInv, Shape

LEMMA OverDoes ==
    ASSUME AgentTypes, NEW p \in Prompts, NEW why \in Stopped, Over(p, why)
    PROVE  \E t \in Turns : /\ TurnOne(p, t) /\ t.pc = "over" /\ t.why = why
                            /\ t.with = turn[p].with
<1>1. turn[p] \in Turns /\ "over" \in TurnPcs
  BY DEF AgentTypes, TurnPcs
<1>2. turn' = [turn EXCEPT ![p] = Ended(turn[p], "over", why)]
  BY DEF Over, Ended
<1>3. Ended(turn[p], "over", why) \in Turns
      /\ Ended(turn[p], "over", why).pc = "over" /\ Ended(turn[p], "over", why).why = why
      /\ Ended(turn[p], "over", why).with = turn[p].with
  BY <1>1, TurnEnds
<1>4. TurnOne(p, Ended(turn[p], "over", why))
  BY <1>2, <1>3, SetTurn
<1> QED BY <1>3, <1>4

LEMMA GoesDoes ==
    ASSUME AgentTypes, NEW p \in Prompts, NEW pc \in TurnPcs, Goes(p, pc)
    PROVE  \E t \in Turns : /\ TurnOne(p, t) /\ t.pc = pc /\ t.why = turn[p].why
                            /\ t.with = turn[p].with /\ t.step = turn[p].step
<1>1. turn[p] \in Turns
  BY DEF AgentTypes
<1>2. turn' = [turn EXCEPT ![p] = Moved(turn[p], pc)]
  BY DEF Goes, Moved
<1>3. Moved(turn[p], pc) \in Turns
      /\ Moved(turn[p], pc).pc = pc /\ Moved(turn[p], pc).why = turn[p].why
      /\ Moved(turn[p], pc).with = turn[p].with /\ Moved(turn[p], pc).step = turn[p].step
  BY <1>1, TurnGoes
<1>4. TurnOne(p, Moved(turn[p], pc))
  BY <1>2, <1>3, SetTurn
<1> QED BY <1>3, <1>4

\* A turn that runs on leaves the pipe and the flags alone.
LEMMA RunnerStops ==
    ASSUME AgentTypes, Turning, Stopping, NEW p \in Prompts, Running(p),
           NEW t \in Turns, TurnOne(p, t), t.pc # "idle", t.with = turn[p].with,
           t.why = turn[p].why \/ (t.why = "Cancelled" => Mine(p).stop),
           session' = session \/ SessionOne(Job[p].session, [Mine(p) EXCEPT !.said = <<>>]),
           UNCHANGED <<reply, toAgent, pressed, loop, opener, page, agent, engine, mix>>
    PROVE  Stopping'
<1>1. turn'[p] = t /\ \A q \in Prompts : q # p => turn'[q] = turn[q]
  BY DEF TurnOne
<1>2. /\ Job[p].session \in Sessions /\ Mine(p) = session[Job[p].session]
      /\ Mine(p) \in SessionRecords /\ Mine(p).turn = p /\ Mine(p).turn # None /\ Mine(p) # None
  BY RunningHas, SessionFields DEF Mine, OfSession
<1>3. \A s \in Sessions : session'[s] # None /\ session'[s].turn # None =>
               /\ session[s] # None /\ session[s].turn = session'[s].turn
               /\ session'[s].stop => session[s].stop
  <2>1. CASE session' = session
    BY <2>1
  <2>2. CASE SessionOne(Job[p].session, [Mine(p) EXCEPT !.said = <<>>])
    <3>1. PICK r \in SessionRecords : /\ r = session'[Job[p].session]
                                      /\ r.turn = Mine(p).turn /\ r.stop = Mine(p).stop
      <4>1. session'[Job[p].session] = [Mine(p) EXCEPT !.said = <<>>]
        BY <2>2 DEF SessionOne
      <4> QED BY <1>2, <4>1, SaidTaken
    <3>2. \A s \in Sessions : s # Job[p].session => session'[s] = session[s]
      BY <2>2 DEF SessionOne
    <3> QED BY <1>2, <3>1, <3>2
  <2> QED BY <2>1, <2>2
<1>4. StopIsForThatTurn'
  <2>1. Mine(p).stop => p \in pressed
    BY <1>2 DEF Stopping, StopsAreMeant
  <2>2. mix.prompts \subseteq Prompts
    BY PinNamed DEF AgentTypes
  <2> QED BY <1>1, <2>1, <2>2 DEF Stopping, StopsAreMeant, StopIsForThatTurn
<1>5. toAgent \in Seq(Messages)
  BY DEF AgentTypes
<1>6. turn[p].pc # "idle"
  BY DEF Running
<1> QED BY <1>1, <1>3, <1>4, <1>5, <1>6, StepStops

LEMMA RunnerTypes ==
    ASSUME AgentTypes, NEW p \in Prompts, NEW t \in Turns, TurnOne(p, t),
           session' = session \/ \E s, r : SessionOne(s, r),
           UNCHANGED <<mix, agent, reply, hub, waits, questions, cards, toAgent>>
    PROVE  AgentTypes'
BY DEF AgentTypes, TurnOne, SessionOne

LEMMA TopKeeps ==
    ASSUME IInv, NEW p \in Prompts, Top(p), UNCHANGED windowVars
    PROVE  IInv'
<1> DEFINE s == Job[p].session
<1>0. AgentTypes /\ Turning /\ Stopping /\ Asking
  BY DEF IInv, Shape
<1>1. turn[p].pc = "top" /\ Running(p)
      /\ UNCHANGED <<mix, agent, bots, questions, hub, toAgent, cards, waits, reply, pressed>>
  BY DEF Top, At, Running
<1>2. UNCHANGED <<loop, opener, page, engine, parked, allowed>>
  BY DEF windowVars
<1>3. s \in Sessions /\ Mine(p) = session[s] /\ session[s] \in SessionRecords
  BY <1>0, <1>1, RunningHas DEF OfSession
<1>4. ASSUME NEW t \in Turns, TurnOne(p, t), t.pc # "idle", t.with = turn[p].with,
             t.why = turn[p].why \/ (t.why = "Cancelled" => Mine(p).stop),
             session' = session \/ SessionOne(s, [Mine(p) EXCEPT !.said = <<>>]),
             Turning'
      PROVE  IInv'
  <2>1. AgentTypes'
    BY <1>0, <1>1, <1>4, RunnerTypes
  <2>2. Stopping'
    BY <1>0, <1>1, <1>2, <1>4, RunnerStops
  <2>3. \A q \in Prompts : turn[q].pc # "idle" => turn'[q].pc # "idle"
    BY <1>4 DEF TurnOne
  <2>4. \A q \in Prompts : turn[q].pc = "waiting" =>
               turn'[q].pc = "waiting" /\ turn'[q].step = turn[q].step
    BY <1>1, <1>4 DEF TurnOne
  <2>5. Asking'
    BY <1>0, <1>1, <1>2, <2>3, <2>4, TurnsAsk
  <2> QED BY <1>4, <2>1, <2>2, <2>5, AgentStep
<1>5. ASSUME NEW why \in {"NotAMember", "Cancelled"}, Over(p, why), why = "Cancelled" => Mine(p).stop,
             UNCHANGED <<session, heard>>
      PROVE  IInv'
  <2>1. why \in Stopped
    BY DEF Stopped
  <2>2. PICK t \in Turns : TurnOne(p, t) /\ t.pc = "over" /\ t.why = why /\ t.with = turn[p].with
    BY <1>0, <1>5, <2>1, OverDoes
  <2>3. Turning'
    BY <1>0, <1>1, <1>5, <2>1, <2>2, RunsOn
  <2> QED BY <1>4, <1>5, <2>2, <2>3
<1>6. ASSUME session' = [session EXCEPT ![s].said = <<>>],
             IF turn[p].step >= mix.steps
             THEN Over(p, "StepLimit") /\ UNCHANGED heard
             ELSE /\ turn' = [turn EXCEPT ![p].pc = "thinking", ![p].step = @ + 1]
                  /\ heard' = heard \cup {p} \cup Range(Mine(p).said)
      PROVE  IInv'
  <2>1. session' = [session EXCEPT ![s] = [Mine(p) EXCEPT !.said = <<>>]]
    BY <1>3, <1>6
  <2>2. [Mine(p) EXCEPT !.said = <<>>] \in SessionRecords
    BY <1>3, SaidTaken
  <2>3. SessionOne(s, [Mine(p) EXCEPT !.said = <<>>])
    BY <1>0, <1>3, <2>1, <2>2, SetSession
  <2>4. CASE turn[p].step >= mix.steps
    <3>1. "StepLimit" \in Stopped
      BY DEF Stopped
    <3>2. PICK t \in Turns : TurnOne(p, t) /\ t.pc = "over" /\ t.why = "StepLimit" /\ t.with = turn[p].with
      BY <1>0, <1>6, <2>4, <3>1, OverDoes
    <3>3. heard' = heard
      BY <1>6, <2>4
    <3>4. Turning'
      BY <1>0, <1>1, <2>3, <3>2, <3>3, TakeTurns
    <3> QED BY <1>4, <2>3, <3>2, <3>4
  <2>5. CASE ~(turn[p].step >= mix.steps)
    <3>1. turn[p] \in Turns
      BY <1>0 DEF AgentTypes
    <3>2. turn' = [turn EXCEPT ![p] = Stepped(turn[p])]
      BY <1>6, <2>5 DEF Stepped
    <3>3. TurnOne(p, Stepped(turn[p]))
      BY <1>0, <3>1, <3>2, TurnSteps, SetTurn
    <3>4. PICK t \in Turns : t = Stepped(turn[p]) /\ t.pc = "thinking" /\ t.with = turn[p].with
                             /\ t.why = turn[p].why
      BY <3>1, TurnSteps
    <3>5. heard' = heard \cup {p} \cup Range(Mine(p).said)
      BY <1>6, <2>5
    <3>6. Turning'
      BY <1>0, <1>1, <2>3, <3>3, <3>4, <3>5, TakeTurns
    <3> QED BY <1>4, <2>3, <3>3, <3>4, <3>6
  <2> QED BY <2>4, <2>5
<1>7. CASE OwnerFor(Mine(p).target) = None
  BY <1>5, <1>7 DEF Top
<1>8. CASE OwnerFor(Mine(p).target) # None /\ Mine(p).stop
  BY <1>5, <1>8 DEF Top
<1>9. CASE OwnerFor(Mine(p).target) # None /\ ~Mine(p).stop
  BY <1>6, <1>9 DEF Top
<1> QED BY <1>7, <1>8, <1>9

LEMMA HubSet ==
    ASSUME AgentTypes, NEW x, NEW v \in {"open", "granted", "denied", "given up"},
           hub' = [hub EXCEPT ![x] = v]
    PROVE  /\ hub' \in [Asks -> {"none", "open", "granted", "denied", "given up"}]
           /\ \A a \in Asks : hub'[a] = IF a = x THEN v ELSE hub[a]
BY DEF AgentTypes

WaitIs(x, v) == [waits EXCEPT ![x].state = v]
LEMMA WaitSet ==
    ASSUME AgentTypes, NEW x, NEW v \in {"open", "settled"}, waits' = WaitIs(x, v)
    PROVE  /\ waits' \in [Asks -> Waits]
           /\ \A a \in Asks : /\ waits'[a].choice = waits[a].choice
                              /\ waits'[a].state = IF a = x THEN v ELSE waits[a].state
<1>1. \A a \in Asks : waits[a] \in Waits
  BY DEF AgentTypes
<1>2. CASE x \in Asks
  <2>1. [waits[x] EXCEPT !.state = v] \in Waits
        /\ [waits[x] EXCEPT !.state = v].state = v
        /\ [waits[x] EXCEPT !.state = v].choice = waits[x].choice
    BY <1>1, <1>2 DEF Waits
  <2>2. waits' = [waits EXCEPT ![x] = [waits[x] EXCEPT !.state = v]]
    BY DEF WaitIs
  <2>3. waits'[x] = [waits[x] EXCEPT !.state = v] /\ \A a \in Asks : a # x => waits'[a] = waits[a]
    BY <1>2, <2>2 DEF AgentTypes
  <2>4. waits' \in [Asks -> Waits]
    BY <2>1, <2>2 DEF AgentTypes
  <2> QED BY <2>1, <2>3, <2>4
<1>3. CASE x \notin Asks
  <2>1. waits' = waits
    BY <1>3 DEF AgentTypes, WaitIs
  <2> QED BY <1>3, <2>1 DEF AgentTypes
<1> QED BY <1>2, <1>3

LEMMA ThinkKeeps ==
    ASSUME IInv, NEW p \in Prompts, Think(p), UNCHANGED windowVars
    PROVE  IInv'
<1>0. AgentTypes /\ Turning /\ Stopping /\ Asking /\ LoopShape /\ parked \subseteq Asks
  BY DEF IInv, Shape, WindowTypes
<1>1. turn[p].pc = "thinking" /\ Running(p) /\ p \in heard
      /\ UNCHANGED <<mix, agent, bots, session, toAgent, cards, waits, reply, heard, pressed>>
  BY <1>0 DEF Think, At, Running, Turning, HeardSoFar
<1>2. UNCHANGED <<loop, opener, page, engine, parked, allowed>>
  BY DEF windowVars
<1>3. ASSUME NEW why \in {"Cancelled", "Completed", "ModelFailed"}, Over(p, why),
             why = "Cancelled" => Mine(p).stop, UNCHANGED <<questions, hub>>
      PROVE  IInv'
  <2>1. why \in Stopped
    BY DEF Stopped
  <2>2. PICK t \in Turns : TurnOne(p, t) /\ t.pc = "over" /\ t.why = why /\ t.with = turn[p].with
    BY <1>0, <1>3, <2>1, OverDoes
  <2>3. Turning'
    BY <1>0, <1>1, <1>3, <2>1, <2>2, RunsOn
  <2>4. AgentTypes'
    BY <1>0, <1>1, <1>3, <2>2, RunnerTypes
  <2>5. Stopping'
    BY <1>0, <1>1, <1>2, <1>3, <2>2, RunnerStops
  <2>6. \A q \in Prompts : turn[q].pc # "idle" => turn'[q].pc # "idle"
    BY <2>2 DEF TurnOne
  <2>7. \A q \in Prompts : turn[q].pc = "waiting" =>
               turn'[q].pc = "waiting" /\ turn'[q].step = turn[q].step
    BY <1>1, <2>2 DEF TurnOne
  <2>8. Asking'
    BY <1>0, <1>1, <1>2, <1>3, <2>6, <2>7, TurnsAsk
  <2> QED BY <2>3, <2>4, <2>5, <2>8, AgentStep
<1>4. ASSUME NEW a \in Asks, a = <<p, turn[p].step>>, hub' = [hub EXCEPT ![a] = "open"],
             questions' = [questions EXCEPT ![p] = Append(@, a)], Goes(p, "waiting")
      PROVE  IInv'
  <2>1. "waiting" \in TurnPcs
    BY DEF TurnPcs
  <2>2. PICK t \in Turns : /\ TurnOne(p, t) /\ t.pc = "waiting" /\ t.why = turn[p].why
                           /\ t.with = turn[p].with /\ t.step = turn[p].step
    BY <1>0, <1>4, <2>1, GoesDoes
  <2>3. Turning'
    BY <1>0, <1>1, <2>2, RunsOn
  <2>4. Stopping'
    BY <1>0, <1>1, <1>2, <2>2, RunnerStops
  <2>5. /\ hub' \in [Asks -> {"none", "open", "granted", "denied", "given up"}]
        /\ \A b \in Asks : hub'[b] = IF b = a THEN "open" ELSE hub[b]
    BY <1>0, <1>4, HubSet
  <2>6. questions' = [questions EXCEPT ![p] = Append(questions[p], a)]
        /\ questions[p] \in Seq(Asks)
    BY <1>0, <1>4, QuestionsTyped
  <2>7. Append(questions[p], a) \in Seq(Asks)
        /\ \A i \in DOMAIN Append(questions[p], a) :
              \/ i \in DOMAIN questions[p] /\ Append(questions[p], a)[i] = questions[p][i]
              \/ Append(questions[p], a)[i] = a
    BY <2>6, AppendedAt
  <2>8. questions' \in [Prompts -> Seq(Asks)] /\ questions'[p] = Append(questions[p], a)
        /\ \A q \in Prompts : q # p => questions'[q] = questions[q]
    BY <1>0, <2>6, <2>7 DEF AgentTypes
  <2>9. AgentTypes'
    BY <1>0, <1>1, <2>2, <2>5, <2>8 DEF AgentTypes, TurnOne
  <2>10. turn'[p].pc = "waiting" /\ turn'[p].step = turn[p].step
         /\ \A q \in Prompts : q # p => turn'[q] = turn[q]
    BY <2>2 DEF TurnOne
  <2>11. a[1] = p /\ a[2] = turn[p].step
    BY <1>4
  <2>12. \A q \in Prompts : \A i \in DOMAIN questions'[q] :
               \/ \E j \in DOMAIN questions[q] : questions'[q][i] = questions[q][j]
               \/ questions'[q][i][1] = q /\ hub'[questions'[q][i]] # "none"
    <3> SUFFICES ASSUME NEW q \in Prompts, NEW i \in DOMAIN questions'[q]
                 PROVE  \/ \E j \in DOMAIN questions[q] : questions'[q][i] = questions[q][j]
                        \/ questions'[q][i][1] = q /\ hub'[questions'[q][i]] # "none"
      OBVIOUS
    <3>1. CASE q # p
      BY <3>1, <2>8
    <3>2. CASE q = p
      <4>1. i \in DOMAIN Append(questions[p], a) /\ questions'[q][i] = Append(questions[p], a)[i]
        BY <3>2, <2>8
      <4>2. CASE questions'[q][i] = a
        BY <3>2, <4>2, <2>5, <2>11
      <4>3. CASE i \in DOMAIN questions[p] /\ questions'[q][i] = questions[p][i]
        BY <3>2, <4>3
      <4> QED BY <4>1, <4>2, <4>3, <2>7
    <3> QED BY <3>1, <3>2
  <2>13. \A b \in Asks : /\ hub[b] # "none" => turn[b[1]].pc # "idle"
                         /\ hub[b] = "open" => turn[b[1]].pc = "waiting" /\ turn[b[1]].step = b[2]
    BY <1>0 DEF Asking, Questions
  <2>14. \A b \in Asks :
                         /\ hub[b] # "none" => hub'[b] # "none"
                         /\ hub'[b] # "none" => turn'[b[1]].pc # "idle"
                         /\ hub'[b] = "granted" => hub[b] = "granted" \/ b \in allowed
                         /\ hub'[b] = "open" => turn'[b[1]].pc = "waiting" /\ turn'[b[1]].step = b[2]
    BY <1>1, <2>5, <2>10, <2>11, <2>13, AskPairs
  <2>15. Asking'
    BY <1>0, <1>1, <1>2, <2>12, <2>14, AnswersAsk
  <2> QED BY <2>3, <2>4, <2>9, <2>15, AgentStep
<1>5. CASE Mine(p).stop
  BY <1>3, <1>5 DEF Think
<1>6. CASE ~Mine(p).stop
  BY <1>3, <1>4, <1>6 DEF Think
<1> QED BY <1>5, <1>6

\* A call that waits for an answer gets one, or none.
LEMMA WaitEnds ==
    ASSUME IInv, UNCHANGED windowVars, NEW p \in Prompts, turn[p].pc = "waiting",
           NEW t \in Turns, TurnOne(p, t), t.with = turn[p].with,
           \/ t.pc = "top" /\ t.why = turn[p].why
           \/ t.pc = "over" /\ t.why = "HubFailed",
           NEW v \in {"granted", "denied", "given up"},
           v = "granted" => \A a \in Asks : a = <<p, turn[p].step>> => a \in allowed,
           hub' = [hub EXCEPT ![<<p, turn[p].step>>] = v],
           waits' \in [Asks -> Waits],
           \A a \in Asks : /\ waits[a].state # "none" => waits'[a].state # "none"
                           /\ waits'[a].choice = waits[a].choice,
           questions' \in [Prompts -> Seq(Asks)],
           \A q \in Prompts : \A i \in DOMAIN questions'[q] :
               \E j \in DOMAIN questions[q] : questions'[q][i] = questions[q][j],
           UNCHANGED <<mix, agent, bots, session, toAgent, cards, reply, heard, pressed>>
    PROVE  IInv'
<1>0. AgentTypes /\ Turning /\ Stopping /\ Asking /\ LoopShape /\ parked \subseteq Asks
  BY DEF IInv, Shape, WindowTypes
<1>1. Running(p) /\ t.pc # "idle" /\ "HubFailed" \in Stopped
  BY DEF Running, Stopped
<1>2. UNCHANGED <<loop, opener, page, engine, parked, allowed>>
  BY DEF windowVars
<1>3. Turning'
  BY <1>0, <1>1, RunsOn
<1>4. Stopping'
  BY <1>0, <1>1, <1>2, RunnerStops
<1>5. /\ hub' \in [Asks -> {"none", "open", "granted", "denied", "given up"}]
      /\ \A b \in Asks : hub'[b] = IF b = <<p, turn[p].step>> THEN v ELSE hub[b]
  BY <1>0, HubSet
<1>6. AgentTypes'
  BY <1>0, <1>5 DEF AgentTypes, TurnOne
<1>7. turn'[p] = t /\ \A q \in Prompts : q # p => turn'[q] = turn[q]
  BY DEF TurnOne
<1>8. \A b \in Asks : /\ hub[b] # "none" => turn[b[1]].pc # "idle"
                      /\ hub[b] = "open" => turn[b[1]].pc = "waiting" /\ turn[b[1]].step = b[2]
  BY <1>0 DEF Asking, Questions
<1>9. ASSUME NEW b \in Asks
      PROVE  /\ hub[b] # "none" => hub'[b] # "none"
             /\ hub'[b] # "none" => turn'[b[1]].pc # "idle"
             /\ hub'[b] = "granted" => hub[b] = "granted" \/ b \in allowed
             /\ hub'[b] = "open" => turn'[b[1]].pc = "waiting" /\ turn'[b[1]].step = b[2]
  <2>1. b[1] \in Prompts /\ b = <<b[1], b[2]>>
    BY AskPairs
  <2>2. CASE b = <<p, turn[p].step>>
    <3>1. b[1] = p /\ hub'[b] = v
      BY <1>5, <2>2
    <3>2. v = "granted" => b \in allowed
      BY <2>2
    <3> QED BY <1>1, <1>7, <3>1, <3>2
  <2>3. CASE b # <<p, turn[p].step>>
    <3>1. hub'[b] = hub[b] /\ (hub[b] = "open" => b[1] # p)
      BY <1>5, <1>8, <2>1, <2>3
    <3> QED BY <1>1, <1>7, <1>8, <2>1, <3>1
  <2> QED BY <2>2, <2>3
<1>10. Asking'
  BY <1>0, <1>2, <1>9, AnswersAsk
<1> QED BY <1>3, <1>4, <1>6, <1>10, AgentStep

LEMMA ExpireKeeps ==
    ASSUME IInv, NEW p \in Prompts, Expire(p), UNCHANGED windowVars
    PROVE  IInv'
<1>0. AgentTypes
  BY DEF IInv, Shape
<1>1. "top" \in TurnPcs
  BY DEF TurnPcs
<1>2. Goes(p, "top") /\ turn[p].pc = "waiting" /\ hub' = [hub EXCEPT ![<<p, turn[p].step>>] = "given up"]
      /\ UNCHANGED <<waits, questions, mix, agent, bots, session, toAgent, cards, reply, heard, pressed>>
  BY DEF Expire, At
<1>3. PICK t \in Turns : /\ TurnOne(p, t) /\ t.pc = "top" /\ t.why = turn[p].why
                         /\ t.with = turn[p].with
  BY <1>0, <1>1, <1>2, GoesDoes
<1>4. waits' \in [Asks -> Waits] /\ questions' \in [Prompts -> Seq(Asks)]
  BY <1>0, <1>2 DEF AgentTypes
<1> QED BY <1>2, <1>3, <1>4, WaitEnds

LEMMA HubFailsKeeps ==
    ASSUME IInv, NEW p \in Prompts, HubFails(p), UNCHANGED windowVars
    PROVE  IInv'
<1>0. AgentTypes
  BY DEF IInv, Shape
<1>1. "HubFailed" \in Stopped
  BY DEF Stopped
<1>2. Over(p, "HubFailed") /\ turn[p].pc = "waiting"
      /\ hub' = [hub EXCEPT ![<<p, turn[p].step>>] = "given up"]
      /\ UNCHANGED <<waits, questions, mix, agent, bots, session, toAgent, cards, reply, heard, pressed>>
  BY DEF HubFails, At
<1>3. PICK t \in Turns : /\ TurnOne(p, t) /\ t.pc = "over" /\ t.why = "HubFailed"
                         /\ t.with = turn[p].with
  BY <1>0, <1>1, <1>2, OverDoes
<1>4. waits' \in [Asks -> Waits] /\ questions' \in [Prompts -> Seq(Asks)]
  BY <1>0, <1>2 DEF AgentTypes
<1> QED BY <1>2, <1>3, <1>4, WaitEnds

\* The turns, the pipe and the commands stay as they are.
LEMMA StoppingFrame ==
    ASSUME Stopping, UNCHANGED <<session, turn, reply, toAgent, pressed, loop, opener, page, agent,
                                 engine, mix>>
    PROVE  Stopping'
BY DEF Stopping, StopsAreMeant, StopIsForThatTurn, PromptsInThePipe, CancelsInThePipe, Commands

LEMMA AnswerKeeps ==
    ASSUME IInv, NEW p \in Prompts, Answer(p), UNCHANGED windowVars
    PROVE  IInv'
<1>0. AgentTypes /\ Turning /\ Stopping /\ Asking /\ LoopShape /\ parked \subseteq Asks
  BY DEF IInv, Shape, WindowTypes
<1>1. questions[p] \in Seq(Asks) /\ questions[p] # <<>>
  BY <1>0, QuestionsTyped DEF Answer
<1>2. PICK a \in Asks :
         /\ a = Head(questions[p]) /\ Tail(questions[p]) \in Seq(Asks)
         /\ 1 \in DOMAIN questions[p] /\ a = questions[p][1]
         /\ \A i \in DOMAIN Tail(questions[p]) :
               i + 1 \in DOMAIN questions[p] /\ Tail(questions[p])[i] = questions[p][i + 1]
  <2>1. Head(questions[p]) \in Asks
    BY <1>1, HeadAndTail
  <2> QED BY <1>1, <2>1, HeadAndTail
<1>3. a[1] = p /\ hub[a] # "none"
  BY <1>0, <1>2 DEF Asking, Questions
<1>4. /\ waits[a].state = "sent" /\ waits' = WaitIs(a, "settled")
      /\ Decide(p, a, a) /\ questions' = [questions EXCEPT ![p] = Tail(questions[p])]
      /\ UNCHANGED <<mix, agent, bots, session, toAgent, cards, reply, heard, pressed>>
  BY <1>2 DEF Answer, WaitIs
<1>5. UNCHANGED <<loop, opener, page, engine, parked, allowed>>
  BY DEF windowVars
<1>6. waits' \in [Asks -> Waits]
      /\ \A b \in Asks : /\ waits[b].state # "none" => waits'[b].state # "none"
                         /\ waits'[b].choice = waits[b].choice
  BY <1>0, <1>4, WaitSet
<1>7. questions' \in [Prompts -> Seq(Asks)] /\ questions'[p] = Tail(questions[p])
      /\ \A q \in Prompts : q # p => questions'[q] = questions[q]
  BY <1>0, <1>2, <1>4 DEF AgentTypes
<1>8. \A q \in Prompts : \A i \in DOMAIN questions'[q] :
          \E j \in DOMAIN questions[q] : questions'[q][i] = questions[q][j]
  <2> SUFFICES ASSUME NEW q \in Prompts, NEW i \in DOMAIN questions'[q]
               PROVE  \E j \in DOMAIN questions[q] : questions'[q][i] = questions[q][j]
    OBVIOUS
  <2>1. CASE q # p
    BY <2>1, <1>7
  <2>2. CASE q = p
    <3>1. i \in DOMAIN Tail(questions[p]) /\ questions'[q][i] = Tail(questions[p])[i]
      BY <2>2, <1>7
    <3> QED BY <2>2, <3>1, <1>2
  <2> QED BY <2>1, <2>2
<1>9. CASE hub[a] = "open"
  <2>1. turn[p].pc = "waiting" /\ turn[p].step = a[2]
    BY <1>0, <1>2, <1>3, <1>9 DEF Asking, Questions
  <2>2. a = <<p, turn[p].step>>
    BY <1>2, <1>3, <2>1, AskPairs
  <2>3. Goes(p, "top") /\ \E v \in {"granted", "denied"} :
             /\ hub' = [hub EXCEPT ![a] = v]
             /\ v = "granted" => Decision(waits[a].choice) = "allow"
    BY <1>4, <1>9 DEF Decide
  <2>4. PICK v \in {"granted", "denied"} : /\ hub' = [hub EXCEPT ![<<p, turn[p].step>>] = v]
                                           /\ v = "granted" => Decision(waits[a].choice) = "allow"
    BY <2>2, <2>3
  <2>5. v = "granted" => \A b \in Asks : b = <<p, turn[p].step>> => b \in allowed
    BY <1>0, <1>2, <2>2, <2>4 DEF Asking, Grants
  <2>6. "top" \in TurnPcs
    BY DEF TurnPcs
  <2>7. PICK t \in Turns : /\ TurnOne(p, t) /\ t.pc = "top" /\ t.why = turn[p].why
                           /\ t.with = turn[p].with
    BY <1>0, <2>3, <2>6, GoesDoes
  <2> QED BY <1>4, <1>6, <1>7, <1>8, <2>1, <2>4, <2>5, <2>7, WaitEnds
<1>10. CASE hub[a] # "open"
  <2>1. UNCHANGED <<hub, turn>>
    BY <1>4, <1>10 DEF Decide
  <2>2. AgentTypes'
    BY <1>0, <1>4, <1>6, <1>7, <2>1 DEF AgentTypes
  <2>3. Turning'
    BY <1>0, <1>4, <2>1, TurningFrame
  <2>4. Stopping'
    BY <1>0, <1>4, <1>5, <2>1, StoppingFrame
  <2>5. \A b \in Asks : /\ hub[b] # "none" => hub'[b] # "none"
                        /\ hub'[b] # "none" => turn'[b[1]].pc # "idle"
                        /\ hub'[b] = "granted" => hub[b] = "granted" \/ b \in allowed
                        /\ hub'[b] = "open" => turn'[b[1]].pc = "waiting" /\ turn'[b[1]].step = b[2]
    BY <1>0, <2>1 DEF Asking, Questions
  <2>6. Asking'
    BY <1>0, <1>4, <1>5, <1>6, <1>8, <2>5, AnswersAsk
  <2> QED BY <2>2, <2>3, <2>4, <2>6, AgentStep
<1> QED BY <1>9, <1>10

LEMMA PassOnKeeps ==
    ASSUME IInv, NEW p \in Prompts, PassOn(p), UNCHANGED windowVars
    PROVE  IInv'
<1>0. AgentTypes /\ Turning /\ Stopping /\ Asking
  BY DEF IInv, Shape
<1>1. UNCHANGED <<mix, agent, bots, session, turn, questions, hub, toAgent, cards, waits, reply,
                  heard, pressed>>
  BY DEF PassOn
<1>2. UNCHANGED <<loop, opener, page, engine, parked, allowed>>
  BY DEF windowVars
<1>3. AgentTypes' /\ Turning' /\ Stopping' /\ Asking'
  BY <1>0, <1>1, <1>2, TurningFrame, StoppingFrame, AskingFrame DEF AgentTypes
<1> QED BY <1>3, AgentStep

LEMMA AskKeeps ==
    ASSUME IInv, NEW p \in Prompts, Ask(p), UNCHANGED windowVars
    PROVE  IInv'
<1>0. AgentTypes /\ Turning /\ Stopping /\ Asking /\ LoopShape /\ parked \subseteq Asks
  BY DEF IInv, Shape, WindowTypes
<1>1. questions[p] \in Seq(Asks) /\ questions[p] # <<>>
  BY <1>0, QuestionsTyped DEF Ask
<1>2. PICK a \in Asks : a = Head(questions[p]) /\ 1 \in DOMAIN questions[p] /\ a = questions[p][1]
  BY <1>1, HeadAndTail
<1>3. hub[a] # "none"
  BY <1>0, <1>2 DEF Asking, Questions
<1>4. PICK card \in Cards : card = [ask |-> a, session |-> Job[p].session] /\ card.ask = a
  <2>1. [ask |-> a, session |-> Job[p].session] \in Cards
    BY JobTyped DEF Cards
  <2>2. [ask |-> a, session |-> Job[p].session].ask = a
    OBVIOUS
  <2> QED BY <2>1, <2>2
<1>5. /\ waits' = WaitIs(a, "open") /\ cards' = Append(cards, card)
      /\ UNCHANGED <<mix, agent, bots, session, turn, questions, hub, toAgent, reply, heard, pressed>>
  BY <1>2, <1>4 DEF Ask, WaitIs
<1>6. UNCHANGED <<loop, opener, page, engine, parked, allowed>>
  BY DEF windowVars
<1>7. waits' \in [Asks -> Waits]
      /\ \A b \in Asks : /\ waits[b].state # "none" => waits'[b].state # "none"
                         /\ waits'[b].choice = waits[b].choice
                         /\ b = a => waits'[b].state # "none"
  BY <1>0, <1>5, WaitSet
<1>8. cards \in Seq(Cards)
  BY <1>0 DEF AgentTypes
<1>9. Append(cards, card) \in Seq(Cards)
      /\ \A i \in DOMAIN Append(cards, card) :
            \/ i \in DOMAIN cards /\ Append(cards, card)[i] = cards[i]
            \/ Append(cards, card)[i] = card
  BY <1>4, <1>8, AppendedAt
<1>10. AgentTypes'
  BY <1>0, <1>5, <1>7, <1>9 DEF AgentTypes
<1>11. Turning' /\ Stopping'
  BY <1>0, <1>5, <1>6, TurningFrame, StoppingFrame
<1>12. \A b \in Asks : Asked(b) => Asked(b)'
  BY <1>5, <1>7 DEF Asked
<1>13. Asked(a)'
  BY <1>2, <1>3, <1>5, <1>7 DEF Asked
<1>14. \A i \in DOMAIN cards' : hub'[cards'[i].ask] # "none" /\ waits'[cards'[i].ask].state # "none"
  <2> SUFFICES ASSUME NEW i \in DOMAIN Append(cards, card)
               PROVE  /\ hub'[Append(cards, card)[i].ask] # "none"
                      /\ waits'[Append(cards, card)[i].ask].state # "none"
    BY <1>5
  <2>1. CASE Append(cards, card)[i] = card
    BY <2>1, <1>4, <1>13 DEF Asked
  <2>2. CASE i \in DOMAIN cards /\ Append(cards, card)[i] = cards[i]
    <3>1. Asked(cards[i].ask) /\ cards[i].ask \in Asks
      BY <2>2, <1>0, CardsTyped DEF Asking, Questions
    <3> QED BY <2>2, <3>1, <1>12 DEF Asked
  <2> QED BY <2>1, <2>2, <1>9
<1>15. \A q \in Prompts : \A i \in DOMAIN loop[q].asks : Asked(loop[q].asks[i].ask)'
  <2> SUFFICES ASSUME NEW q \in Prompts, NEW i \in DOMAIN loop[q].asks
               PROVE  hub'[loop[q].asks[i].ask] # "none" /\ waits'[loop[q].asks[i].ask].state # "none"
    BY <1>6 DEF Asked
  <2>1. Asked(loop[q].asks[i].ask) /\ loop[q].asks[i].ask \in Asks
    BY <1>0, HeldTyped DEF Asking, Questions
  <2> QED BY <2>1, <1>12 DEF Asked
<1>16. \A b \in parked : Asked(b)'
  BY <1>0, <1>12 DEF Asking, Questions
<1>17. Questions'
  <2>1. /\ \A b \in Asks : hub'[b] # "none" => turn'[b[1]].pc # "idle"
        /\ \A b \in Asks : hub'[b] = "open" => turn'[b[1]].pc = "waiting" /\ turn'[b[1]].step = b[2]
        /\ \A q \in Prompts : \A i \in DOMAIN questions'[q] :
              questions'[q][i][1] = q /\ hub'[questions'[q][i]] # "none"
    BY <1>0, <1>5 DEF Asking, Questions
  <2> QED BY <1>6, <1>14, <1>15, <1>16, <2>1 DEF Questions, Asked
<1>18. Grants'
  BY <1>0, <1>5, <1>6, <1>7 DEF Asking, Grants
<1>19. DialogsAreAnswerable'
  BY <1>0, <1>5, <1>6 DEF Asking, DialogsAreAnswerable, Active
<1> QED BY <1>10, <1>11, <1>17, <1>18, <1>19, AgentStep DEF Asking

LEMMA EndKeeps ==
    ASSUME IInv, NEW p \in Prompts, End(p), UNCHANGED windowVars
    PROVE  IInv'
<1>0. AgentTypes /\ Turning /\ Stopping /\ Asking
  BY DEF IInv, Shape
<1>1. /\ turn[p].pc = "over" /\ questions' = [questions EXCEPT ![p] = <<>>]
      /\ UNCHANGED <<mix, agent, hub, toAgent, cards, waits, heard, pressed>>
  BY DEF End, At
<1>2. UNCHANGED <<loop, opener, page, engine, parked, allowed>>
  BY DEF windowVars
<1>3. Ends(p) /\ UNCHANGED <<heard, bots, mix>>
  BY <1>0, EndDoes
<1>4. Turning'
  BY <1>0, <1>1, <1>3, EndTurns
<1>5. turn[p].why \in Stopped
  BY <1>0, <1>1 DEF Turning, Endings
<1>6. TurnEnd(turn[p].why) \in Replies \ {"unheard"}
  BY <1>5, TurnEndIs
<1>7. reply' \in [Prompts -> Replies \cup {None}]
      /\ \A q \in Prompts : reply'[q] = IF q = p THEN TurnEnd(turn[p].why) ELSE reply[q]
  BY <1>0, <1>3, <1>6 DEF AgentTypes, Ends
<1>8. <<>> \in Seq(Asks)
  OBVIOUS
<1>9. questions' \in [Prompts -> Seq(Asks)]
  BY <1>0, <1>1, <1>8 DEF AgentTypes
<1>10. AgentTypes'
  BY <1>0, <1>1, <1>3, <1>7, <1>9 DEF AgentTypes, Ends, SessionOne
<1>11. \A q \in Prompts \ {p} :
          \/ turn'[q] = turn[q]
          \/ turn[q].pc = "joined" /\ turn'[q].pc = "told" /\ turn'[q].with = turn[q].with
  BY <1>3 DEF Ends
<1>12. turn'[p].pc = "ended" /\ turn'[p].why = turn[p].why /\ turn'[p].with = turn[p].with
  BY <1>3 DEF Ends
<1>13. /\ Job[p].session \in Sessions /\ session[Job[p].session] \in SessionRecords
  BY <1>0, <1>1, RunningHas DEF Running, OfSession
<1>14. PICK r \in SessionRecords : r = session'[Job[p].session] /\ r.turn = None
  <2>1. session'[Job[p].session] = Release(Job[p].session)
    BY <1>3 DEF Ends, SessionOne
  <2> QED BY <1>13, <2>1, Released
<1>15. \A s \in Sessions : s # Job[p].session => session'[s] = session[s]
  BY <1>3 DEF Ends, SessionOne
<1>16. StopIsForThatTurn'
  <2>1. mix.prompts \subseteq Prompts
    BY <1>0, PinNamed DEF AgentTypes
  <2>2. \A q \in Prompts : turn[q].pc = "joined" => turn[q].with # None
    BY <1>0, JoinedHas, NoneApart
  <2> QED BY <1>0, <1>1, <1>11, <1>12, <2>1, <2>2 DEF Stopping, StopsAreMeant, StopIsForThatTurn
<1>17. Stopping'
  <2>1. \A q \in Prompts : turn[q].pc = "idle" => turn'[q].pc = "idle" /\ reply'[q] = reply[q]
    BY <1>1, <1>7, <1>11
  <2>2. \A q \in Prompts : reply[q] # None => reply'[q] # None
    BY <1>6, <1>7, NoneApart DEF Replies
  <2>3. \A q \in Prompts : turn'[q].pc # "idle" => turn[q].pc # "idle"
    BY <1>1, <1>11
  <2>4. \A s \in Sessions : session'[s] # None /\ session'[s].turn # None =>
               /\ session[s] # None /\ session[s].turn = session'[s].turn
               /\ session'[s].stop => session[s].stop
    BY <1>14, <1>15
  <2>5. toAgent \in Seq(Messages)
    BY <1>0 DEF AgentTypes
  <2> QED BY <1>0, <1>1, <1>2, <1>16, <2>1, <2>2, <2>3, <2>4, <2>5, StepStops
<1>18. \A q \in Prompts : turn[q].pc # "idle" => turn'[q].pc # "idle"
  BY <1>11, <1>12
<1>19. \A q \in Prompts : turn[q].pc = "waiting" =>
               turn'[q].pc = "waiting" /\ turn'[q].step = turn[q].step
  BY <1>1, <1>11
<1>20. Asking'
  BY <1>0, <1>1, <1>2, <1>18, <1>19, TurnsAsk
<1> QED BY <1>4, <1>10, <1>17, <1>20, AgentStep

LEMMA JoinedKeeps ==
    ASSUME IInv, NEW p \in Prompts, Joined(p), UNCHANGED windowVars
    PROVE  IInv'
<1>0. AgentTypes /\ Turning /\ Stopping /\ Asking
  BY DEF IInv, Shape
<1>1. /\ turn[p].pc = "told" /\ Goes(p, "ended") /\ reply' = [reply EXCEPT ![p] = turn[p].why]
      /\ UNCHANGED <<mix, agent, bots, session, questions, hub, toAgent, cards, waits, heard, pressed>>
  BY DEF Joined, At
<1>2. UNCHANGED <<loop, opener, page, engine, parked, allowed>>
  BY DEF windowVars
<1>3. "ended" \in TurnPcs /\ turn[p].why \in Replies \ {"error"}
  BY <1>0, <1>1 DEF TurnPcs, Turning, Endings
<1>4. PICK t \in Turns : /\ TurnOne(p, t) /\ t.pc = "ended" /\ t.why = turn[p].why
                         /\ t.with = turn[p].with
  BY <1>0, <1>1, <1>3, GoesDoes
<1>5. Turning'
  BY <1>0, <1>1, <1>4, ToldTurns
<1>6. reply' \in [Prompts -> Replies \cup {None}]
      /\ \A q \in Prompts : reply'[q] = IF q = p THEN turn[p].why ELSE reply[q]
  BY <1>0, <1>1, <1>3 DEF AgentTypes
<1>7. AgentTypes'
  BY <1>0, <1>1, <1>4, <1>6 DEF AgentTypes, TurnOne
<1>8. turn'[p] = t /\ \A q \in Prompts : q # p => turn'[q] = turn[q]
  BY <1>4 DEF TurnOne
<1>9. Stopping'
  <2>1. \A q \in Prompts : turn[q].pc = "idle" => turn'[q].pc = "idle" /\ reply'[q] = reply[q]
    BY <1>1, <1>6, <1>8
  <2>2. \A q \in Prompts : reply[q] # None => reply'[q] # None
    BY <1>3, <1>6, NoneApart DEF Replies
  <2>3. \A q \in Prompts : turn'[q].pc # "idle" => turn[q].pc # "idle"
    BY <1>1, <1>8
  <2>4. StopIsForThatTurn'
    <3>1. mix.prompts \subseteq Prompts
      BY <1>0, PinNamed DEF AgentTypes
    <3> QED BY <1>0, <1>1, <1>4, <1>8, <3>1 DEF Stopping, StopsAreMeant, StopIsForThatTurn
  <2>5. toAgent \in Seq(Messages)
    BY <1>0 DEF AgentTypes
  <2> QED BY <1>0, <1>1, <1>2, <2>1, <2>2, <2>3, <2>4, <2>5, StepStops
<1>10. \A q \in Prompts : turn[q].pc # "idle" => turn'[q].pc # "idle"
  BY <1>4, <1>8
<1>11. \A q \in Prompts : turn[q].pc = "waiting" =>
               turn'[q].pc = "waiting" /\ turn'[q].step = turn[q].step
  BY <1>1, <1>8
<1>12. Asking'
  BY <1>0, <1>1, <1>2, <1>10, <1>11, TurnsAsk
<1> QED BY <1>5, <1>7, <1>9, <1>12, AgentStep

\* The agent reads one message: what it does to the sessions, the turns and the answers.
LEMMA ReadKeeps ==
    ASSUME IInv, UNCHANGED windowVars, toAgent # <<>>, toAgent' = Tail(toAgent),
           UNCHANGED <<mix, agent, questions, hub, cards, waits, heard, pressed>>,
           session' \in [Sessions -> SessionRecords \cup {None}],
           turn' \in [Prompts -> Turns], reply' \in [Prompts -> Replies \cup {None}],
           Turning',
           \A q \in Prompts : (Head1.kind = "prompt" => q # Head1.prompt) =>
               turn'[q] = turn[q] /\ reply'[q] = reply[q],
           Head1.kind = "prompt" =>
               /\ turn'[Head1.prompt] = turn[Head1.prompt] \/ turn'[Head1.prompt].pc # "idle"
               /\ turn'[Head1.prompt].why = turn[Head1.prompt].why
               /\ turn'[Head1.prompt].with = None => turn[Head1.prompt].with = None,
           \A s \in Sessions : session'[s] # None /\ session'[s].turn # None =>
               \/ /\ session[s] # None /\ session[s].turn = session'[s].turn
                  /\ session'[s].stop => session[s].stop \/ session[s].turn \in pressed
               \/ /\ Head1.kind = "prompt" /\ session'[s].turn = Head1.prompt
                  /\ Job[Head1.prompt].session = s /\ ~session'[s].stop
    PROVE  IInv'
<1>0. AgentTypes /\ Turning /\ Stopping /\ Asking
  BY DEF IInv, Shape
<1>1. UNCHANGED <<loop, opener, page, engine, parked, allowed>>
  BY DEF windowVars
<1>2. Head1 \in Messages /\ Tail(toAgent) \in Seq(Messages) /\ Head1 = toAgent[1] /\ 1 \in DOMAIN toAgent
  <2>1. toAgent \in Seq(Messages)
    BY <1>0 DEF AgentTypes
  <2> QED BY <2>1, HeadAndTail DEF Head1
<1>3. Head1.kind = "prompt" => /\ Head1.prompt \in Prompts /\ turn[Head1.prompt].pc = "idle"
                               /\ reply[Head1.prompt] = None
  BY <1>0, <1>2, MessageFields DEF Stopping, PromptsInThePipe
<1>4. AgentTypes'
  BY <1>0, <1>2 DEF AgentTypes
<1>5. StopIsForThatTurn'
  <2> SUFFICES ASSUME NEW q \in mix.prompts, turn'[q].why = "Cancelled", turn'[q].with = None
               PROVE  q \in pressed
    BY DEF StopIsForThatTurn
  <2>1. q \in Prompts
    BY <1>0, PinNamed DEF AgentTypes
  <2>2. turn[q].why = "Cancelled" /\ turn[q].with = None
    BY <2>1
  <2> QED BY <1>0, <2>2 DEF Stopping, StopsAreMeant, StopIsForThatTurn
<1>6. \A q \in Prompts : reply[q] # None => reply'[q] # None
  BY <1>3
<1>7. Stopping'
  BY <1>0, <1>1, <1>5, <1>6, ReceiveStops
<1>8. \A q \in Prompts : turn[q].pc # "idle" => turn'[q].pc # "idle"
  BY <1>3
<1>9. \A q \in Prompts : turn[q].pc = "waiting" =>
               turn'[q].pc = "waiting" /\ turn'[q].step = turn[q].step
  BY <1>3
<1>10. Asking'
  BY <1>0, <1>1, <1>8, <1>9, TurnsAsk
<1> QED BY <1>4, <1>7, <1>10, AgentStep

LEMMA ReceiveKeeps ==
    ASSUME IInv, Receive, UNCHANGED windowVars
    PROVE  IInv'
<1>0. AgentTypes /\ Turning /\ Stopping /\ Asking
  BY DEF IInv, Shape
<1>1. toAgent # <<>> /\ toAgent' = Tail(toAgent)
      /\ UNCHANGED <<mix, agent, questions, hub, cards, waits, heard, pressed>>
  BY DEF Receive
<1>2. Head1 \in Messages /\ Head1 = toAgent[1] /\ 1 \in DOMAIN toAgent
  <2>1. toAgent \in Seq(Messages)
    BY <1>0 DEF AgentTypes
  <2> QED BY <1>1, <2>1, HeadAndTail DEF Head1
<1>3. Head1.session \in Sessions
  BY <1>2, MessageFields
<1>4. session \in [Sessions -> SessionRecords \cup {None}] /\ turn \in [Prompts -> Turns]
      /\ reply \in [Prompts -> Replies \cup {None}]
  BY <1>0 DEF AgentTypes
<1>5. CASE Head1.kind = "load" /\ Load(Head1.session)
  <2>1. PICK s \in Sessions : s = Head1.session /\ Loads(s)
    BY <1>0, <1>3, <1>5, LoadDoes
  <2>2. Turning'
    BY <1>0, <1>1, <2>1, LoadTurns
  <2>3. UNCHANGED <<turn, reply>>
    BY <2>1 DEF Loads
  <2>4. UNCHANGED session \/ \E t \in Targets : SessionOne(s, Fresh(t))
    BY <2>1 DEF Loads
  <2>5. session' \in [Sessions -> SessionRecords \cup {None}]
    BY <1>4, <2>4 DEF SessionOne
  <2>6. \A z \in Sessions : session'[z] # None /\ session'[z].turn # None => session'[z] = session[z]
    <3>1. ASSUME NEW t \in Targets, SessionOne(s, Fresh(t))
          PROVE  /\ session'[s].turn = None
                 /\ \A z \in Sessions : z # s => session'[z] = session[z]
      BY <3>1 DEF SessionOne, Fresh
    <3> QED BY <2>4, <3>1
  <2> QED BY <1>1, <1>4, <1>5, <2>2, <2>3, <2>5, <2>6, ReadKeeps
<1>6. CASE Head1.kind = "prompt" /\ Prompt(Head1.prompt)
  <2>1. PICK p \in Prompts : p = Head1.prompt
    BY <1>2, <1>6, MessageFields
  <2>2. turn[p].pc = "idle" /\ reply[p] = None
    BY <1>0, <1>2, <1>6, <2>1 DEF Stopping, PromptsInThePipe
  <2>3. CASE Refuses(p)
    <3>1. Turning'
      BY <1>0, <1>1, <2>2, <2>3, RefuseTurns
    <3>2. UNCHANGED <<session, turn>> /\ reply' = [reply EXCEPT ![p] = "error"]
      BY <2>3 DEF Refuses
    <3>3. "error" \in Replies
      BY DEF Replies
    <3>4. reply' \in [Prompts -> Replies \cup {None}] /\ \A q \in Prompts : q # p => reply'[q] = reply[q]
      BY <1>4, <3>2, <3>3
    <3> QED BY <1>1, <1>4, <1>6, <2>1, <3>1, <3>2, <3>4, ReadKeeps
  <2>4. CASE Joins(p)
    <3> DEFINE s == Job[p].session
    <3>1. Turning'
      BY <1>0, <1>1, <2>2, <2>4, JoinTurns
    <3>2. /\ session[s] \in SessionRecords /\ UNCHANGED reply
          /\ SessionOne(s, [session[s] EXCEPT !.said = Append(session[s].said, p)])
          /\ TurnOne(p, Joining(turn[p], session[s].turn)) /\ session[s].turn # None
      BY <2>4 DEF Joins
    <3>3. session[s].turn \in Prompts
      BY <3>2, SessionFields
    <3>4. PICK r \in SessionRecords : /\ r = session'[s] /\ r.turn = session[s].turn
                                      /\ r.stop = session[s].stop
      <4>1. session'[s] = [session[s] EXCEPT !.said = Append(session[s].said, p)]
        BY <3>2 DEF SessionOne
      <4> QED BY <3>2, <4>1, SaidGrows
    <3>5. turn'[p].pc = "joined" /\ turn'[p].why = turn[p].why /\ turn'[p].with = session[s].turn
      <4>1. turn'[p] = Joining(turn[p], session[s].turn)
        BY <3>2 DEF TurnOne
      <4> QED BY <1>4, <3>3, <4>1, TurnJoins
    <3>6. \A z \in Sessions : session'[z] # None /\ session'[z].turn # None =>
               /\ session[z] # None /\ session[z].turn = session'[z].turn
               /\ session'[z].stop => session[z].stop
      BY <3>2, <3>4, SessionFields DEF SessionOne
    <3> HIDE DEF s
    <3>7. turn'[p].with # None
      BY <3>3, <3>5, NoneApart
    <3>8. session' \in [Sessions -> SessionRecords \cup {None}] /\ turn' \in [Prompts -> Turns]
          /\ \A q \in Prompts : q # p => turn'[q] = turn[q]
      BY <3>2 DEF SessionOne, TurnOne
    <3> QED BY <1>1, <1>4, <1>6, <2>1, <3>1, <3>2, <3>5, <3>6, <3>7, <3>8, ReadKeeps
  <2>5. CASE Starts(p)
    <3> DEFINE s == Job[p].session
    <3>1. Turning'
      BY <1>0, <1>1, <2>2, <2>5, StartTurns
    <3>2. /\ session[s] \in SessionRecords /\ UNCHANGED reply
          /\ SessionOne(s, Claim(s, p)) /\ TurnOne(p, Moved(turn[p], "top"))
      BY <2>5 DEF Starts
    <3>3. session'[s].turn = p /\ session'[s].stop = FALSE
      <4>1. session'[s] = Claim(s, p) /\ s \in Sessions
        BY <3>2, JobTyped DEF SessionOne
      <4>2. Claim(s, p).turn = p /\ Claim(s, p).stop = FALSE
        BY <3>2, <4>1, Claimed
      <4> QED BY <4>1, <4>2
    <3>4. turn'[p].pc = "top" /\ turn'[p].why = turn[p].why /\ turn'[p].with = turn[p].with
      <4>1. turn'[p] = Moved(turn[p], "top") /\ "top" \in TurnPcs
        BY <3>2 DEF TurnOne, TurnPcs
      <4> QED BY <1>4, <4>1, TurnGoes
    <3>5. \A z \in Sessions : z # s => session'[z] = session[z]
      BY <3>2 DEF SessionOne
    <3>6. session' \in [Sessions -> SessionRecords \cup {None}] /\ turn' \in [Prompts -> Turns]
          /\ \A q \in Prompts : q # p => turn'[q] = turn[q]
      BY <3>2 DEF SessionOne, TurnOne
    <3> QED BY <1>1, <1>4, <1>6, <2>1, <3>1, <3>2, <3>3, <3>4, <3>5, <3>6, ReadKeeps
  <2> QED BY <1>0, <1>6, <2>1, <2>3, <2>4, <2>5, PromptDoes
<1>7. CASE Head1.kind = "cancel" /\ Cancel(Head1.session)
  <2>1. PICK s \in Sessions : s = Head1.session /\ Cancels(s)
    BY <1>0, <1>3, <1>7, CancelDoes
  <2>2. Turning'
    BY <1>0, <1>1, <2>1, CancelTurns
  <2>3. UNCHANGED <<turn, reply>>
    BY <2>1 DEF Cancels
  <2>4. session[s] # None /\ session[s].turn # None => session[s].turn \in pressed
    BY <1>0, <1>2, <1>7, <2>1 DEF Stopping, CancelsInThePipe
  <2>5. CASE UNCHANGED session
    BY <1>1, <1>4, <1>7, <2>2, <2>3, <2>5, ReadKeeps
  <2>6. CASE /\ session[s] \in SessionRecords /\ session[s].turn # None
             /\ SessionOne(s, [session[s] EXCEPT !.stop = TRUE])
    <3>1. session'[s] = [session[s] EXCEPT !.stop = TRUE]
      BY <2>6 DEF SessionOne
    <3>2. session'[s].turn = session[s].turn
      BY <2>6, <3>1, StopSet
    <3>3. session[s] # None
      BY <2>6, SessionFields
    <3>4. session' \in [Sessions -> SessionRecords \cup {None}]
          /\ \A z \in Sessions : z # s => session'[z] = session[z]
      BY <2>6 DEF SessionOne
    <3>5. \A z \in Sessions : session'[z] # None /\ session'[z].turn # None =>
               /\ session[z] # None /\ session[z].turn = session'[z].turn
               /\ session'[z].stop => session[z].stop \/ session[z].turn \in pressed
      BY <2>4, <2>6, <3>2, <3>3, <3>4
    <3> QED BY <1>1, <1>4, <1>7, <2>2, <2>3, <3>4, <3>5, ReadKeeps
  <2> QED BY <2>1, <2>5, <2>6 DEF Cancels
<1> QED BY <1>5, <1>6, <1>7 DEF Receive, Head1

-----------------------------------------------------------------------------
(***************************************************************************)
(* The steps of the window.                                                 *)
(***************************************************************************)

\* One command moves, and no other.
LoopOne(p, pc, asks) ==
    /\ LoopShape'
    /\ loop'[p].pc = pc /\ loop'[p].asks = asks
    /\ \A q \in Prompts : q # p => loop'[q] = loop[q]

LEMMA SetLoop ==
    ASSUME LoopShape, NEW p \in Prompts, NEW c, c = LoopOf(c), c.pc \in LoopPcs,
           c.asks \in Seq(Cards), loop' = [loop EXCEPT ![p] = c]
    PROVE  LoopOne(p, c.pc, c.asks)
<1>1. DOMAIN loop = Prompts
  BY DEF LoopShape
<1>2. loop'[p] = c /\ \A q \in Prompts : q # p => loop'[q] = loop[q]
  BY <1>1
<1>3. \A q \in Prompts : loop'[q] = LoopOf(loop'[q])
  BY <1>2 DEF LoopShape, LoopOf
<1>4. loop' = [q \in Prompts |-> LoopOf(loop'[q])]
  <2>1. loop' = [q \in Prompts |-> loop'[q]]
    BY <1>1 DEF LoopShape
  <2> QED BY <1>3, <2>1
<1>5. \A q \in Prompts : loop'[q].pc \in LoopPcs /\ loop'[q].asks \in Seq(Cards)
  BY <1>2 DEF LoopShape
<1>6. LoopShape'
  BY <1>4, <1>5 DEF LoopShape, LoopOf
<1> QED BY <1>2, <1>6 DEF LoopOne

LEMMA LoopIs ==
    ASSUME LoopShape, NEW p \in Prompts
    PROVE  loop[p] = LoopOf(loop[p]) /\ loop[p].pc \in LoopPcs /\ loop[p].asks \in Seq(Cards)
           /\ DOMAIN loop = Prompts
BY DEF LoopShape

\* What the steps of a command do to it, a field at a time.
WithPc(l, x)      == [l EXCEPT !.pc = x]
WithHeld(l, x)    == [l EXCEPT !.held = x]
WithTaken(l, x)   == [l EXCEPT !.taken = x]
WithAsks(l, x)    == [l EXCEPT !.asks = x]
WithResult(l, x)  == [l EXCEPT !.result = x]
WithEcho(l, x) == [l EXCEPT !.echo = x]

Drained(l, held, pc)   == WithPc(WithHeld(l, held), pc)
Kept(l, taken, pc)     == WithPc(WithTaken(WithHeld(l, Nothing), taken), pc)
ShownAll(l)            == WithPc(WithTaken(l, <<>>), "withdraw")
Parking(l, asks)       == WithPc(WithAsks(WithTaken(l, <<>>), asks), "park")
Failed(l)              == WithResult(WithPc(l, "withdraw"), "error")
ShownFailed(l)         == WithResult(WithPc(WithTaken(l, <<>>), "withdraw"), "error")
Looked(l, pc, result)  == WithResult(WithPc(WithAsks(l, <<>>), pc), result)
Finished(l)            == WithPc(l, "done")
Sent(l, echo)          == WithEcho(WithPc(l, "look"), echo)

Becomes(l, pc, asks) == l = LoopOf(l) /\ l.pc = pc /\ l.asks = asks

LEMMA FieldSet ==
    ASSUME NEW l, NEW pc, NEW asks, Becomes(l, pc, asks), NEW x
    PROVE  /\ Becomes(WithPc(l, x), x, asks)
           /\ Becomes(WithHeld(l, x), pc, asks)
           /\ Becomes(WithTaken(l, x), pc, asks)
           /\ Becomes(WithAsks(l, x), pc, x)
           /\ Becomes(WithResult(l, x), pc, asks)
           /\ Becomes(WithEcho(l, x), pc, asks)
<1>1. PICK b, c, e, f : l = [pc |-> pc, held |-> b, taken |-> c, asks |-> asks,
                             result |-> e, echo |-> f]
  BY DEF Becomes, LoopOf
<1>2. Becomes(WithPc(l, x), x, asks)
  <2>1. WithPc(l, x) = [pc |-> x, held |-> b, taken |-> c, asks |-> asks, result |-> e, echo |-> f]
    BY <1>1 DEF WithPc
  <2> QED BY <2>1 DEF Becomes, LoopOf
<1>3. Becomes(WithHeld(l, x), pc, asks)
  <2>1. WithHeld(l, x) = [pc |-> pc, held |-> x, taken |-> c, asks |-> asks, result |-> e, echo |-> f]
    BY <1>1 DEF WithHeld
  <2> QED BY <2>1 DEF Becomes, LoopOf
<1>4. Becomes(WithTaken(l, x), pc, asks)
  <2>1. WithTaken(l, x) = [pc |-> pc, held |-> b, taken |-> x, asks |-> asks, result |-> e, echo |-> f]
    BY <1>1 DEF WithTaken
  <2> QED BY <2>1 DEF Becomes, LoopOf
<1>5. Becomes(WithAsks(l, x), pc, x)
  <2>1. WithAsks(l, x) = [pc |-> pc, held |-> b, taken |-> c, asks |-> x, result |-> e, echo |-> f]
    BY <1>1 DEF WithAsks
  <2> QED BY <2>1 DEF Becomes, LoopOf
<1>6. Becomes(WithResult(l, x), pc, asks)
  <2>1. WithResult(l, x) = [pc |-> pc, held |-> b, taken |-> c, asks |-> asks, result |-> x, echo |-> f]
    BY <1>1 DEF WithResult
  <2> QED BY <2>1 DEF Becomes, LoopOf
<1>7. Becomes(WithEcho(l, x), pc, asks)
  <2>1. WithEcho(l, x) = [pc |-> pc, held |-> b, taken |-> c, asks |-> asks, result |-> e, echo |-> x]
    BY <1>1 DEF WithEcho
  <2> QED BY <2>1 DEF Becomes, LoopOf
<1> QED BY <1>2, <1>3, <1>4, <1>5, <1>6, <1>7

LEMMA CommandFields ==
    ASSUME NEW l, l = LoopOf(l)
    PROVE  /\ \A held, pc : Becomes(Drained(l, held, pc), pc, l.asks)
           /\ \A taken, pc : Becomes(Kept(l, taken, pc), pc, l.asks)
           /\ Becomes(ShownAll(l), "withdraw", l.asks)
           /\ \A asks : Becomes(Parking(l, asks), "park", asks)
           /\ Becomes(Failed(l), "withdraw", l.asks)
           /\ Becomes(ShownFailed(l), "withdraw", l.asks)
           /\ \A pc, result : Becomes(Looked(l, pc, result), pc, <<>>)
           /\ Becomes(Finished(l), "done", l.asks)
           /\ \A echo : Becomes(Sent(l, echo), "look", l.asks)
<1>1. Becomes(l, l.pc, l.asks)
  BY DEF Becomes
<1>2. \A held, pc : Becomes(Drained(l, held, pc), pc, l.asks)
  BY <1>1, FieldSet DEF Drained
<1>3. \A taken, pc : Becomes(Kept(l, taken, pc), pc, l.asks)
  BY <1>1, FieldSet DEF Kept
<1>4. Becomes(ShownAll(l), "withdraw", l.asks)
  BY <1>1, FieldSet DEF ShownAll
<1>5. \A asks : Becomes(Parking(l, asks), "park", asks)
  BY <1>1, FieldSet DEF Parking
<1>6. Becomes(Failed(l), "withdraw", l.asks) /\ Becomes(ShownFailed(l), "withdraw", l.asks)
  BY <1>1, FieldSet DEF Failed, ShownFailed
<1>7. \A pc, result : Becomes(Looked(l, pc, result), pc, <<>>)
  BY <1>1, FieldSet DEF Looked
<1>8. Becomes(Finished(l), "done", l.asks)
  BY <1>1, FieldSet DEF Finished
<1>9. \A echo : Becomes(Sent(l, echo), "look", l.asks)
  BY <1>1, FieldSet DEF Sent
<1> QED BY <1>2, <1>3, <1>4, <1>5, <1>6, <1>7, <1>8, <1>9

LEMMA CommandBecomes ==
    ASSUME LoopShape, NEW p \in Prompts, NEW c, NEW pc \in LoopPcs, NEW asks \in Seq(Cards),
           Becomes(c, pc, asks), loop' = [loop EXCEPT ![p] = c]
    PROVE  LoopOne(p, pc, asks)
<1>1. c = LoopOf(c) /\ c.pc = pc /\ c.asks = asks
  BY DEF Becomes
<1> QED BY <1>1, SetLoop

\* One opening moves, and no other.
OpenerOne(s, pc) ==
    /\ OpenerShape'
    /\ opener'[s].pc = pc
    /\ \A t \in Sessions : t # s => opener'[t] = opener[t]

LEMMA SetOpener ==
    ASSUME OpenerShape, NEW s \in Sessions, NEW pc \in OpenerPcs, NEW held,
           opener' = [opener EXCEPT ![s] = [pc |-> pc, held |-> held]]
    PROVE  OpenerOne(s, pc)
<1>1. DOMAIN opener = Sessions
  BY DEF OpenerShape
<1>2. opener'[s] = [pc |-> pc, held |-> held]
      /\ \A t \in Sessions : t # s => opener'[t] = opener[t]
  BY <1>1
<1>3. \A t \in Sessions : opener'[t] = OpenerOf(opener'[t])
  BY <1>2 DEF OpenerShape, OpenerOf
<1>4. opener' = [t \in Sessions |-> OpenerOf(opener'[t])]
  <2>1. opener' = [t \in Sessions |-> opener'[t]]
    BY <1>1 DEF OpenerShape
  <2> QED BY <1>3, <2>1
<1>5. OpenerShape'
  BY <1>2, <1>4 DEF OpenerShape, OpenerOf
<1> QED BY <1>2, <1>5 DEF OpenerOne

LEMMA OpenerGoes ==
    ASSUME OpenerShape, NEW s \in Sessions, NEW pc \in OpenerPcs,
           opener' = [opener EXCEPT ![s].pc = pc]
    PROVE  OpenerOne(s, pc)
<1>1. opener[s] = [pc |-> opener[s].pc, held |-> opener[s].held]
  BY DEF OpenerShape, OpenerOf
<1>2. [opener[s] EXCEPT !.pc = pc] = [pc |-> pc, held |-> opener[s].held]
  BY <1>1
<1>3. opener' = [opener EXCEPT ![s] = [pc |-> pc, held |-> opener[s].held]]
  BY <1>2
<1> QED BY <1>3, SetOpener

\* Answering changes no question's having been asked.
LEMMA SettleDoes ==
    ASSUME AgentTypes, NEW asks, NEW choice \in Clicks \cup {None}, Settle(asks, choice)
    PROVE  /\ waits' \in [Asks -> Waits]
           /\ \A a \in Asks : /\ waits[a].state # "none" => waits'[a].state # "none"
                              /\ \/ waits'[a].choice = waits[a].choice
                                 \/ a \in asks /\ waits'[a].choice = choice
<1>1. \A a \in Asks : waits[a] \in Waits
  BY DEF AgentTypes
<1>2. [state |-> "sent", choice |-> choice] \in Waits
  BY DEF Waits
<1>3. waits' = [a \in Asks |->
                IF a \in asks /\ waits[a].state = "open" THEN [state |-> "sent", choice |-> choice]
                ELSE waits[a]]
  BY DEF Settle
<1>4. waits' \in [Asks -> Waits]
  BY <1>1, <1>2, <1>3
<1>5. ASSUME NEW a \in Asks
      PROVE  /\ waits[a].state # "none" => waits'[a].state # "none"
             /\ \/ waits'[a].choice = waits[a].choice
                \/ a \in asks /\ waits'[a].choice = choice
  <2>1. CASE a \in asks /\ waits[a].state = "open"
    BY <1>3, <2>1
  <2>2. CASE ~(a \in asks /\ waits[a].state = "open")
    <3>1. waits'[a] = waits[a]
      BY <1>3, <2>2
    <3> QED BY <3>1
  <2> QED BY <2>1, <2>2
<1> QED BY <1>4, <1>5

LEMMA Refusal == Decision(None) = "deny" /\ Decision("reject-once") = "deny"
                 /\ Decision("stale option") = "deny" /\ None \in Clicks \cup {None}
BY NoneApart DEF Decision

\* A step of the window: the agent's sessions, turns and questions are as they were.
LEMMA WindowKeeps ==
    ASSUME IInv, UNCHANGED <<mix, bots, session, turn, questions, hub, reply, heard>>,
           agent' \in BOOLEAN, waits' \in [Asks -> Waits], cards' \in Seq(Cards),
           toAgent' \in Seq(Messages), WindowTypes', Stopping', Asking'
    PROVE  IInv'
<1>1. AgentTypes'
  BY DEF IInv, Shape, AgentTypes
<1>2. Turning'
  BY TurningFrame DEF IInv
<1> QED BY <1>1, <1>2 DEF IInv, Shape

\* Questions move between the places they are held in; a yes is somebody's.
LEMMA WindowAsks ==
    ASSUME Asking, UNCHANGED <<turn, questions, hub>>,
           \A a \in Asks : /\ waits[a].state # "none" => waits'[a].state # "none"
                           /\ \/ waits'[a].choice = waits[a].choice
                              \/ Decision(waits'[a].choice) = "allow" => a \in allowed',
           allowed \subseteq allowed',
           \A i \in DOMAIN cards' : cards'[i].ask \in Asks /\ Asked(cards'[i].ask),
           \A p \in Prompts : \A i \in DOMAIN loop'[p].asks :
               loop'[p].asks[i].ask \in Asks /\ Asked(loop'[p].asks[i].ask),
           \A a \in parked' : a \in Asks /\ Asked(a),
           DialogsAreAnswerable'
    PROVE  Asking'
<1>1. \A i \in DOMAIN cards' : hub'[cards'[i].ask] # "none" /\ waits'[cards'[i].ask].state # "none"
  BY DEF Asked
<1>2. \A p \in Prompts : \A i \in DOMAIN loop'[p].asks :
          hub'[loop'[p].asks[i].ask] # "none" /\ waits'[loop'[p].asks[i].ask].state # "none"
  BY DEF Asked
<1>3. \A a \in parked' : hub'[a] # "none" /\ waits'[a].state # "none"
  BY DEF Asked
<1>4. /\ \A a \in Asks : hub'[a] # "none" => turn'[a[1]].pc # "idle"
      /\ \A a \in Asks : hub'[a] = "open" => turn'[a[1]].pc = "waiting" /\ turn'[a[1]].step = a[2]
      /\ \A p \in Prompts : \A i \in DOMAIN questions'[p] :
            questions'[p][i][1] = p /\ hub'[questions'[p][i]] # "none"
  BY DEF Asking, Questions
<1>5. Questions'
  BY <1>1, <1>2, <1>3, <1>4 DEF Questions, Asked
<1>6. Grants'
  <2> SUFFICES ASSUME NEW a \in Asks
               PROVE  /\ Decision(waits'[a].choice) = "allow" => a \in allowed'
                      /\ hub'[a] = "granted" => a \in allowed'
    BY DEF Grants, Decision
  <2>1. Decision(waits[a].choice) = "allow" => a \in allowed'
    BY DEF Asking, Grants
  <2>2. hub'[a] = "granted" => a \in allowed'
    BY DEF Asking, Grants
  <2> QED BY <2>1, <2>2
<1> QED BY <1>5, <1>6 DEF Asking

\* What is held stays asked.
LEMMA HeldIsAsked ==
    ASSUME IInv
    PROVE  /\ \A i \in DOMAIN cards : cards[i].ask \in Asks /\ Asked(cards[i].ask)
           /\ \A p \in Prompts : \A i \in DOMAIN loop[p].asks :
                 loop[p].asks[i].ask \in Asks /\ Asked(loop[p].asks[i].ask)
           /\ \A a \in parked : a \in Asks /\ Asked(a)
<1>1. AgentTypes /\ LoopShape /\ parked \subseteq Asks /\ Questions
  BY DEF IInv, Shape, WindowTypes, Asking
<1>2. \A i \in DOMAIN cards : cards[i].ask \in Asks
  BY <1>1, CardsTyped
<1>3. \A p \in Prompts : \A i \in DOMAIN loop[p].asks : loop[p].asks[i].ask \in Asks
  BY <1>1, HeldTyped
<1> QED BY <1>1, <1>2, <1>3 DEF Questions

Late == {"last", "last keep", "last show", "withdraw", "done"}

LEMMA CommandMoves ==
    ASSUME Commands, NEW p \in Prompts, loop[p].pc # "idle",
           UNCHANGED <<turn, reply, opener, engine, agent>>, page'.session = page.session,
           NEW pc \in LoopPcs \ {"idle"}, agent /\ pc \in Late => reply[p] # None,
           loop'[p].pc = pc, \A q \in Prompts : q # p => loop'[q] = loop[q]
    PROVE  Commands'
BY DEF Commands, Late

LEMMA StillActive ==
    ASSUME NEW p \in Prompts, Active(p), NEW pc \in LoopPcs \ {"idle", "done"},
           NEW asks, LoopOne(p, pc, asks)
    PROVE  \A q \in Prompts : Active(q)' = Active(q)
BY DEF Active, LoopOne

\* A command that goes on, with the questions it holds, or with those there are.
LEMMA MovesKeep ==
    ASSUME IInv, AcpUntouched, NEW p \in Prompts, Active(p),
           NEW pc \in LoopPcs \ {"idle", "done"}, NEW asks \in Seq(Cards), LoopOne(p, pc, asks),
           agent /\ pc \in Late => reply[p] # None,
           UNCHANGED <<toAgent, waits, pressed, page, opener, engine, parked, stopping, allowed>>,
           cards' = cards \/ cards' = <<>>,
           asks = loop[p].asks \/ asks = cards
    PROVE  IInv'
<1>0. AgentTypes /\ WindowTypes /\ Stopping /\ Asking /\ Commands
  BY DEF IInv, Shape, Stopping
<1>1. UNCHANGED <<mix, bots, session, turn, questions, hub, reply, heard, agent>>
  BY DEF AcpUntouched
<1>2. \A q \in Prompts : q # p => loop'[q] = loop[q]
  BY DEF LoopOne
<1>3. loop'[p].pc = pc /\ loop'[p].asks = asks /\ LoopShape'
  BY DEF LoopOne
<1>4. loop[p].pc # "idle"
  BY DEF Active
<1>5. WindowTypes'
  BY <1>0, <1>3 DEF WindowTypes, OpenerShape, OpenerOf
<1>6. Commands'
  BY <1>0, <1>1, <1>2, <1>3, <1>4, CommandMoves
<1>7. Stopping'
  BY <1>0, <1>1, <1>2, <1>3, <1>4, <1>6, WindowStops
<1>8. \A i \in DOMAIN cards' : cards'[i].ask \in Asks /\ Asked(cards'[i].ask)
  <2>1. CASE cards' = cards
    BY <2>1, HeldIsAsked
  <2>2. CASE cards' = <<>>
    BY <2>2
  <2> QED BY <2>1, <2>2
<1>9. \A q \in Prompts : \A i \in DOMAIN loop'[q].asks :
          loop'[q].asks[i].ask \in Asks /\ Asked(loop'[q].asks[i].ask)
  <2> SUFFICES ASSUME NEW q \in Prompts, NEW i \in DOMAIN loop'[q].asks
               PROVE  loop'[q].asks[i].ask \in Asks /\ Asked(loop'[q].asks[i].ask)
    OBVIOUS
  <2>1. CASE q # p
    BY <2>1, <1>2, HeldIsAsked
  <2>2. CASE q = p /\ asks = loop[p].asks
    BY <2>2, <1>3, HeldIsAsked
  <2>3. CASE q = p /\ asks = cards
    BY <2>3, <1>3, HeldIsAsked
  <2> QED BY <2>1, <2>2, <2>3
<1>10. \A a \in parked' : a \in Asks /\ Asked(a)
  BY HeldIsAsked
<1>11. DialogsAreAnswerable'
  <2>1. \A q \in Prompts : Active(q)' = Active(q)
    BY StillActive
  <2>2. mix.prompts \subseteq Prompts
    BY <1>0, PinNamed DEF AgentTypes
  <2> QED BY <1>0, <1>1, <2>1, <2>2 DEF Asking, DialogsAreAnswerable
<1>12. Asking'
  BY <1>0, <1>1, <1>8, <1>9, <1>10, <1>11, WindowAsks
<1>13. cards' \in Seq(Cards) /\ toAgent' \in Seq(Messages) /\ waits' \in [Asks -> Waits] /\ agent' \in BOOLEAN
  <2>1. <<>> \in Seq(Cards)
    OBVIOUS
  <2> QED BY <1>0, <1>1, <2>1 DEF AgentTypes
<1> QED BY <1>1, <1>5, <1>7, <1>12, <1>13, WindowKeeps

LEMMA DrainKeeps ==
    ASSUME IInv, NEW p \in Prompts, Drain(p)
    PROVE  IInv'
<1>0. LoopShape /\ Commands /\ agent \in BOOLEAN
  BY DEF IInv, Shape, AgentTypes, WindowTypes, Stopping
<1>1. /\ loop[p].pc \in {"look", "last"} /\ Active(p) /\ AcpUntouched
      /\ UNCHANGED <<toAgent, cards, waits, pressed, page, opener, engine, parked, stopping, allowed>>
  BY DEF Drain, Active
<1>2. loop[p] = LoopOf(loop[p]) /\ loop[p].asks \in Seq(Cards)
  BY <1>0, LoopIs
<1>3. CASE engine
  <2>1. PICK pc \in {"last keep", "keep"} : pc = IF loop[p].pc = "last" THEN "last keep" ELSE "keep"
    OBVIOUS
  <2>2. pc \in LoopPcs \ {"idle", "done"}
    BY DEF LoopPcs
  <2>3. loop' = [loop EXCEPT ![p].held = updates, ![p].pc = pc]
    BY <1>3, <2>1 DEF Drain
  <2>4. PICK h : h = updates
    OBVIOUS
  <2>5. loop' = [loop EXCEPT ![p] = Drained(loop[p], h, pc)]
    BY <2>3, <2>4 DEF Drained, WithPc, WithHeld
  <2>6. LoopOne(p, pc, loop[p].asks)
    BY <1>0, <1>2, <2>2, <2>5, CommandFields, CommandBecomes
  <2>7. agent /\ pc \in Late => reply[p] # None
    BY <1>0, <1>1, <2>1 DEF Commands, Late
  <2> QED BY <1>1, <1>2, <2>2, <2>6, <2>7, MovesKeep
<1>4. CASE ~engine
  <2>1. loop' = [loop EXCEPT ![p].pc = "withdraw", ![p].result = "error"]
    BY <1>4 DEF Drain
  <2>2. "withdraw" \in LoopPcs \ {"idle", "done"}
    BY DEF LoopPcs
  <2>3. loop' = [loop EXCEPT ![p] = Failed(loop[p])]
    BY <2>1 DEF Failed, WithPc, WithResult
  <2>4. LoopOne(p, "withdraw", loop[p].asks)
    BY <1>0, <1>2, <2>2, <2>3, CommandFields, CommandBecomes
  <2>5. ~agent
    BY <1>0, <1>4 DEF Commands
  <2> QED BY <1>1, <1>2, <2>2, <2>4, <2>5, MovesKeep
<1> QED BY <1>3, <1>4

LEMMA KeepKeeps ==
    ASSUME IInv, NEW p \in Prompts, Keep(p)
    PROVE  IInv'
<1>0. LoopShape /\ Commands
  BY DEF IInv, Shape, WindowTypes, Stopping
<1>1. /\ loop[p].pc \in {"keep", "last keep"} /\ Active(p) /\ AcpUntouched
      /\ UNCHANGED <<toAgent, cards, waits, pressed, page, opener, engine, parked, stopping, allowed>>
  BY DEF Keep, Active
<1>2. loop[p] = LoopOf(loop[p]) /\ loop[p].asks \in Seq(Cards)
  BY <1>0, LoopIs
<1>3. PICK pc \in {"show", "last show"} : pc = IF loop[p].pc = "keep" THEN "show" ELSE "last show"
  OBVIOUS
<1>4. pc \in LoopPcs \ {"idle", "done"}
  BY DEF LoopPcs
<1>5. PICK t : loop' = [loop EXCEPT ![p].held = Nothing, ![p].taken = t, ![p].pc = pc]
  BY <1>3 DEF Keep
<1>6. loop' = [loop EXCEPT ![p] = Kept(loop[p], t, pc)]
  BY <1>5 DEF Kept, WithPc, WithHeld, WithTaken
<1>7. LoopOne(p, pc, loop[p].asks)
  BY <1>0, <1>2, <1>4, <1>6, CommandFields, CommandBecomes
<1>8. agent /\ pc \in Late => reply[p] # None
  BY <1>0, <1>1, <1>3 DEF Commands, Late
<1> QED BY <1>1, <1>2, <1>4, <1>7, <1>8, MovesKeep

LEMMA ShowKeeps ==
    ASSUME IInv, NEW p \in Prompts, Show(p)
    PROVE  IInv'
<1>0. LoopShape /\ Commands /\ cards \in Seq(Cards)
  BY DEF IInv, Shape, AgentTypes, WindowTypes, Stopping
<1>1. /\ loop[p].pc \in {"show", "last show"} /\ Active(p) /\ AcpUntouched
      /\ UNCHANGED <<toAgent, waits, pressed, page, opener, engine, parked, stopping, allowed>>
  BY DEF Show, Active
<1>2. loop[p] = LoopOf(loop[p]) /\ loop[p].asks \in Seq(Cards)
  BY <1>0, LoopIs
<1>3. "withdraw" \in LoopPcs \ {"idle", "done"} /\ "park" \in LoopPcs \ {"idle", "done"}
  BY DEF LoopPcs
<1>4. CASE loop[p].pc = "last show"
  <2>1. loop' = [loop EXCEPT ![p].taken = <<>>, ![p].pc = "withdraw"] /\ UNCHANGED cards
    BY <1>4 DEF Show
  <2>2. loop' = [loop EXCEPT ![p] = ShownAll(loop[p])]
    BY <2>1 DEF ShownAll, WithPc, WithTaken
  <2>3. LoopOne(p, "withdraw", loop[p].asks)
    BY <1>0, <1>2, <1>3, <2>2, CommandFields, CommandBecomes
  <2>4. agent => reply[p] # None
    BY <1>0, <1>4 DEF Commands
  <2> QED BY <1>1, <1>2, <1>3, <2>1, <2>3, <2>4, MovesKeep
<1>5. CASE loop[p].pc # "last show" /\ engine
  <2>1. loop' = [loop EXCEPT ![p].taken = <<>>, ![p].asks = cards, ![p].pc = "park"] /\ cards' = <<>>
    BY <1>5 DEF Show
  <2>2. loop' = [loop EXCEPT ![p] = Parking(loop[p], cards)]
    BY <2>1 DEF Parking, WithPc, WithTaken, WithAsks
  <2>3. LoopOne(p, "park", cards)
    BY <1>0, <1>2, <1>3, <2>2, CommandFields, CommandBecomes
  <2>4. "park" \notin Late
    BY DEF Late
  <2> QED BY <1>0, <1>1, <1>3, <2>1, <2>3, <2>4, MovesKeep
<1>6. CASE loop[p].pc # "last show" /\ ~engine
  <2>1. loop' = [loop EXCEPT ![p].taken = <<>>, ![p].pc = "withdraw", ![p].result = "error"]
        /\ UNCHANGED cards
    BY <1>6 DEF Show
  <2>2. loop' = [loop EXCEPT ![p] = ShownFailed(loop[p])]
    BY <2>1 DEF ShownFailed, WithPc, WithTaken, WithResult
  <2>3. LoopOne(p, "withdraw", loop[p].asks)
    BY <1>0, <1>2, <1>3, <2>2, CommandFields, CommandBecomes
  <2>4. ~agent
    BY <1>0, <1>6 DEF Commands
  <2> QED BY <1>1, <1>2, <1>3, <2>1, <2>3, <2>4, MovesKeep
<1> QED BY <1>4, <1>5, <1>6

Pages == [session : Sessions \cup {None}, busy : BOOLEAN, dialogs : SUBSET Asks]

PageBusy(g, b)    == [g EXCEPT !.busy = b]
PageDialogs(g, d) == [g EXCEPT !.dialogs = d]
PageSession(g, s) == [g EXCEPT !.session = s]

LEMMA PageFields ==
    ASSUME NEW g \in Pages
    PROVE  /\ g.session \in Sessions \cup {None} /\ g.busy \in BOOLEAN /\ g.dialogs \subseteq Asks
           /\ \A b \in BOOLEAN :
                 /\ PageBusy(g, b) \in Pages
                 /\ PageBusy(g, b).session = g.session /\ PageBusy(g, b).dialogs = g.dialogs
           /\ \A d \in SUBSET Asks :
                 /\ PageDialogs(g, d) \in Pages
                 /\ PageDialogs(g, d).session = g.session /\ PageDialogs(g, d).dialogs = d
           /\ \A s \in Sessions \cup {None} :
                 /\ PageSession(g, s) \in Pages
                 /\ PageSession(g, s).session = s /\ PageSession(g, s).dialogs = g.dialogs
BY DEF Pages, PageBusy, PageDialogs, PageSession

LEMMA DialogsSet ==
    ASSUME NEW g \in Pages, NEW d \in SUBSET Asks
    PROVE  /\ PageDialogs(g, d) \in Pages
           /\ PageDialogs(g, d).session = g.session /\ PageDialogs(g, d).dialogs = d
BY DEF Pages, PageDialogs

LEMMA ShownSet ==
    ASSUME NEW g \in Pages, NEW s \in Sessions \cup {None}
    PROVE  /\ PageSession(g, s) \in Pages
           /\ PageSession(g, s).session = s /\ PageSession(g, s).dialogs = g.dialogs
BY DEF Pages, PageSession

\* Nothing is answered but with a refusal, and nothing more is parked.
LEMMA RefusalKeeps ==
    ASSUME IInv, UNCHANGED <<mix, bots, session, turn, questions, hub, reply, heard, allowed>>,
           agent' \in BOOLEAN, NEW asks, Settle(asks, None) \/ UNCHANGED waits,
           cards' = cards \/ cards' = <<>>, toAgent' \in Seq(Messages),
           parked' \subseteq parked,
           \A q \in Prompts : loop'[q].asks = loop[q].asks,
           WindowTypes', Stopping', DialogsAreAnswerable'
    PROVE  IInv'
<1>0. AgentTypes /\ Asking
  BY DEF IInv, Shape
<1>1. waits' \in [Asks -> Waits]
      /\ \A a \in Asks : /\ waits[a].state # "none" => waits'[a].state # "none"
                         /\ waits'[a].choice = waits[a].choice \/ waits'[a].choice = None
  <2>1. CASE Settle(asks, None)
    BY <1>0, <2>1, SettleDoes
  <2>2. CASE UNCHANGED waits
    BY <1>0, <2>2 DEF AgentTypes
  <2> QED BY <2>1, <2>2
<1>2. \A a \in Asks : \/ waits'[a].choice = waits[a].choice
                      \/ Decision(waits'[a].choice) = "allow" => a \in allowed'
  BY <1>1, Refusal
<1>3. cards' \in Seq(Cards) /\ \A i \in DOMAIN cards' : cards'[i].ask \in Asks /\ Asked(cards'[i].ask)
  <2>1. CASE cards' = cards
    BY <1>0, <2>1, HeldIsAsked DEF AgentTypes
  <2>2. CASE cards' = <<>>
    BY <2>2
  <2> QED BY <2>1, <2>2
<1>4. \A q \in Prompts : \A i \in DOMAIN loop'[q].asks :
          loop'[q].asks[i].ask \in Asks /\ Asked(loop'[q].asks[i].ask)
  BY HeldIsAsked
<1>5. \A a \in parked' : a \in Asks /\ Asked(a)
  BY HeldIsAsked
<1>6. Asking'
  BY <1>0, <1>1, <1>2, <1>3, <1>4, <1>5, WindowAsks
<1> QED BY <1>1, <1>3, <1>6, WindowKeeps

LEMMA WithdrawKeeps ==
    ASSUME IInv, NEW p \in Prompts, WithdrawSession(p)
    PROVE  IInv'
<1> DEFINE s == Job[p].session
           asks == ParkedOf(s)
<1>0. /\ AgentTypes /\ WindowTypes /\ Stopping /\ Commands /\ LoopShape /\ page \in Pages
      /\ DialogsAreAnswerable
  BY DEF IInv, Shape, WindowTypes, Stopping, Asking, Pages
<1>1. /\ loop[p].pc = "withdraw" /\ AcpUntouched /\ Settle(asks, None) /\ parked' = parked \ asks
      /\ page' = [page EXCEPT !.dialogs = page.dialogs \ asks, !.busy = FALSE]
      /\ loop' = [loop EXCEPT ![p].pc = "done"]
      /\ UNCHANGED <<toAgent, cards, pressed, opener, engine, stopping, allowed>>
  BY DEF WithdrawSession
<1>2. UNCHANGED <<mix, agent, bots, session, turn, questions, hub, reply, heard>>
  BY <1>1 DEF AcpUntouched
<1>3. page' \in Pages /\ page'.session = page.session /\ page'.dialogs = page.dialogs \ asks
  <2>1. page.dialogs \ asks \in SUBSET Asks
    BY <1>0, PageFields
  <2>2. PICK d \in SUBSET Asks : d = page.dialogs \ asks
    BY <2>1
  <2>3. page' = PageBusy(PageDialogs(page, d), FALSE)
    BY <1>1, <2>2 DEF PageBusy, PageDialogs
  <2>4. /\ PageDialogs(page, d) \in Pages
        /\ PageDialogs(page, d).session = page.session /\ PageDialogs(page, d).dialogs = d
    BY <1>0, DialogsSet
  <2> QED BY <2>2, <2>3, <2>4, PageFields
<1>4. "done" \in LoopPcs \ {"idle"} /\ loop[p].asks \in Seq(Cards)
  BY <1>0 DEF LoopPcs, LoopShape
<1>5. loop' = [loop EXCEPT ![p] = Finished(loop[p])]
  BY <1>1 DEF Finished, WithPc
<1>6. LoopOne(p, "done", loop[p].asks)
  BY <1>0, <1>4, <1>5, LoopIs, CommandFields, CommandBecomes
<1>7. /\ loop'[p].pc = "done" /\ LoopShape' /\ \A q \in Prompts : q # p => loop'[q] = loop[q]
      /\ loop'[p].asks = loop[p].asks
  BY <1>6 DEF LoopOne
<1>8. WindowTypes'
  BY <1>0, <1>1, <1>3, <1>7 DEF WindowTypes, OpenerShape, OpenerOf, Pages
<1>9. agent => reply[p] # None
  BY <1>0, <1>1 DEF Commands
<1>10. Commands'
  BY <1>0, <1>1, <1>2, <1>3, <1>4, <1>7, <1>9, CommandMoves
<1>11. Stopping'
  BY <1>0, <1>1, <1>2, <1>7, <1>10, WindowStops
<1>12. DialogsAreAnswerable'
  <2>1. page'.dialogs = parked'
    BY <1>0, <1>1, <1>3 DEF DialogsAreAnswerable
  <2>2. ASSUME NEW a \in parked', Job[a[1]].session = page.session
        PROVE  \E q \in mix.prompts : Active(q)' /\ Job[q].session = page.session
    <3>1. a \in parked /\ page.session # s
      BY <1>1, <2>2 DEF ParkedOf
    <3>2. PICK q \in mix.prompts : Active(q) /\ Job[q].session = page.session
      BY <1>0, <2>2, <3>1 DEF DialogsAreAnswerable
    <3>3. q # p /\ q \in Prompts
      BY <1>0, <3>1, <3>2, PinNamed DEF AgentTypes
    <3>4. Active(q)'
      BY <1>7, <3>2, <3>3 DEF Active
    <3> QED BY <3>2, <3>4
  <2> QED BY <1>2, <1>3, <2>1, <2>2 DEF DialogsAreAnswerable
<1>13. toAgent' \in Seq(Messages) /\ agent' \in BOOLEAN
  BY <1>0, <1>1, <1>2 DEF AgentTypes
<1>14. \A q \in Prompts : loop'[q].asks = loop[q].asks
  BY <1>7
<1> QED BY <1>1, <1>2, <1>8, <1>11, <1>12, <1>13, <1>14, RefusalKeeps

LEMMA StopKeeps ==
    ASSUME IInv, Stop
    PROVE  IInv'
<1>0. /\ AgentTypes /\ WindowTypes /\ Stopping /\ Commands /\ page \in Pages /\ DialogsAreAnswerable
  BY DEF IInv, Shape, WindowTypes, Stopping, Asking, Pages
<1>1. PICK asks : /\ Settle(asks, None) /\ parked' = parked \ asks
                  /\ page' = [page EXCEPT !.dialogs = page.dialogs \ asks]
  BY DEF Stop, TakeDown
<1>2. /\ stopping' = page.session /\ page.session # None
      /\ UNCHANGED <<mix, agent, bots, session, turn, questions, hub, reply, heard>>
      /\ UNCHANGED <<toAgent, pressed, cards, loop, opener, engine, allowed>>
  BY DEF Stop, AcpUntouched
<1>3. page' \in Pages /\ page'.session = page.session /\ page'.dialogs = page.dialogs \ asks
  <2>1. page.dialogs \ asks \in SUBSET Asks
    BY <1>0, PageFields
  <2>2. page' = PageDialogs(page, page.dialogs \ asks)
    BY <1>1 DEF PageDialogs
  <2> QED BY <1>0, <2>1, <2>2, PageFields
<1>4. stopping' \in Sessions
  BY <1>0, <1>2, PageFields
<1>5. WindowTypes'
  BY <1>0, <1>1, <1>2, <1>3, <1>4 DEF WindowTypes, LoopShape, LoopOf, OpenerShape, OpenerOf, Pages
<1>6. Commands'
  BY <1>0, <1>2, <1>3 DEF Commands
<1>7. Stopping'
  BY <1>0, <1>2, <1>6, WindowStops
<1>8. DialogsAreAnswerable'
  BY <1>0, <1>1, <1>2, <1>3 DEF DialogsAreAnswerable, Active
<1>9. toAgent' \in Seq(Messages) /\ agent' \in BOOLEAN
  BY <1>0, <1>2 DEF AgentTypes
<1> QED BY <1>1, <1>2, <1>5, <1>7, <1>8, <1>9, RefusalKeeps

LEMMA GiveUpKeeps ==
    ASSUME IInv, NEW a \in Asks, GiveUp(a)
    PROVE  IInv'
<1>0. AgentTypes /\ WindowTypes /\ Stopping /\ DialogsAreAnswerable
  BY DEF IInv, Shape, Asking
<1>1. /\ Settle({a}, None)
      /\ UNCHANGED <<mix, agent, bots, session, turn, questions, hub, reply, heard, toAgent, cards,
                     pressed>>
      /\ UNCHANGED <<page, loop, opener, engine, parked, stopping, allowed>>
  BY DEF GiveUp, AcpUntouched, windowVars
<1>2. WindowTypes' /\ DialogsAreAnswerable'
  BY <1>0, <1>1 DEF WindowTypes, LoopShape, LoopOf, OpenerShape, OpenerOf, DialogsAreAnswerable, Active
<1>3. Stopping'
  BY <1>0, <1>1, StoppingFrame
<1>4. toAgent' \in Seq(Messages) /\ agent' \in BOOLEAN
  BY <1>0, <1>1 DEF AgentTypes
<1> QED BY <1>1, <1>2, <1>3, <1>4, RefusalKeeps

LEMMA AgentDiesKeeps ==
    ASSUME IInv, AgentDies
    PROVE  IInv'
<1>0. AgentTypes /\ WindowTypes /\ Stopping /\ Commands /\ DialogsAreAnswerable
  BY DEF IInv, Shape, Asking, Stopping
<1>1. /\ agent' = FALSE /\ toAgent' = <<>>
      /\ UNCHANGED <<mix, bots, session, turn, questions, hub, reply, heard, cards, waits, pressed>>
      /\ UNCHANGED <<page, loop, opener, engine, parked, stopping, allowed>>
  BY DEF AgentDies, windowVars
<1>2. WindowTypes' /\ DialogsAreAnswerable'
  BY <1>0, <1>1 DEF WindowTypes, LoopShape, LoopOf, OpenerShape, OpenerOf, DialogsAreAnswerable, Active
<1>3. Commands'
  BY <1>0, <1>1 DEF Commands
<1>4. Stopping'
  BY <1>0, <1>1, <1>3, WindowStops
<1>5. toAgent' \in Seq(Messages) /\ agent' \in BOOLEAN
  <2>1. <<>> \in Seq(Messages)
    OBVIOUS
  <2> QED BY <1>1, <2>1
<1> QED BY <1>1, <1>2, <1>4, <1>5, RefusalKeeps

LEMMA DisconnectKeeps ==
    ASSUME IInv, Disconnect
    PROVE  IInv'
<1>0. AgentTypes /\ WindowTypes /\ Stopping /\ Commands
  BY DEF IInv, Shape, Stopping
<1>1. /\ agent' = FALSE /\ engine' = FALSE /\ toAgent' = <<>> /\ cards' = <<>> /\ parked' = {}
      /\ Settle(parked, None) /\ page' = [session |-> None, busy |-> FALSE, dialogs |-> {}]
      /\ UNCHANGED <<mix, bots, session, turn, questions, hub, reply, heard, pressed>>
      /\ UNCHANGED <<loop, opener, stopping, allowed>>
  BY DEF Disconnect
<1>2. page'.session = None /\ page'.dialogs = {}
      /\ page' \in [session : Sessions \cup {None}, busy : BOOLEAN, dialogs : SUBSET Asks]
  BY <1>1
<1>3. WindowTypes'
  BY <1>0, <1>1, <1>2 DEF WindowTypes, LoopShape, LoopOf, OpenerShape, OpenerOf
<1>4. DialogsAreAnswerable'
  BY <1>1, <1>2 DEF DialogsAreAnswerable
<1>5. Commands'
  BY <1>0, <1>1, <1>2 DEF Commands
<1>6. Stopping'
  BY <1>0, <1>1, <1>5, WindowStops
<1>7. toAgent' \in Seq(Messages) /\ agent' \in BOOLEAN
  <2>1. <<>> \in Seq(Messages)
    OBVIOUS
  <2> QED BY <1>1, <2>1
<1> QED BY <1>1, <1>3, <1>4, <1>6, <1>7, RefusalKeeps

LEMMA MessageKeeps ==
    ASSUME IInv, NEW p \in Prompts, Message(p)
    PROVE  IInv'
<1>0. /\ AgentTypes /\ WindowTypes /\ Stopping /\ Commands /\ LoopShape /\ page \in Pages
      /\ Turning /\ Asking
  BY DEF IInv, Shape, WindowTypes, Stopping, Pages
<1>1. /\ loop[p].pc = "idle" /\ page.session = Job[p].session /\ AcpUntouched
      /\ page' = PageBusy(page, TRUE)
      /\ loop' = [loop EXCEPT ![p].pc = "look", ![p].echo = Echo(p)]
      /\ toAgent' = IF agent THEN Append(toAgent, [kind |-> "prompt", prompt |-> p, session |-> Job[p].session])
                    ELSE toAgent
      /\ UNCHANGED <<cards, waits, pressed, opener, engine, parked, stopping, allowed>>
  BY DEF Message, PageBusy
<1>2. UNCHANGED <<mix, agent, bots, session, turn, questions, hub, reply, heard>>
  BY <1>1 DEF AcpUntouched
<1>3. page' \in Pages /\ page'.session = page.session /\ page'.dialogs = page.dialogs
  BY <1>0, <1>1, PageFields
<1>4. "look" \in LoopPcs \ {"idle", "done"} /\ loop[p].asks \in Seq(Cards)
  BY <1>0 DEF LoopPcs, LoopShape
<1>5. loop' = [loop EXCEPT ![p] = Sent(loop[p], Echo(p))]
  BY <1>1 DEF Sent, WithPc, WithEcho
<1>6. LoopOne(p, "look", loop[p].asks)
  BY <1>0, <1>4, <1>5, LoopIs, CommandFields, CommandBecomes
<1>7. /\ loop'[p].pc = "look" /\ LoopShape' /\ \A q \in Prompts : q # p => loop'[q] = loop[q]
      /\ loop'[p].asks = loop[p].asks
  BY <1>6 DEF LoopOne
<1>8. WindowTypes'
  BY <1>0, <1>1, <1>3, <1>7 DEF WindowTypes, OpenerShape, OpenerOf, Pages
<1>9. turn[p].pc = "idle" /\ reply[p] = None
  BY <1>0, <1>1 DEF Commands
<1>10. opener[Job[p].session].pc = "open"
  BY <1>0, <1>1, JobTyped, NoneApart DEF Commands
<1>11. Commands'
  BY <1>0, <1>1, <1>2, <1>3, <1>7, <1>10 DEF Commands
<1>12. PICK m \in Messages : /\ m = [kind |-> "prompt", prompt |-> p, session |-> Job[p].session]
                             /\ m.kind = "prompt" /\ m.prompt = p
  <2>1. [kind |-> "prompt", prompt |-> p, session |-> Job[p].session] \in Messages
    BY JobTyped DEF Messages
  <2> QED BY <2>1
<1>13. Stopping'
  <2>1. \A q \in Prompts : loop[q].pc # "idle" => loop'[q].pc # "idle"
    BY <1>7
  <2>2. CASE agent
    <3>1. toAgent' = Append(toAgent, m)
      BY <1>1, <1>12, <2>2
    <3> QED BY <1>0, <1>1, <1>2, <1>7, <1>9, <1>11, <1>12, <2>1, <3>1, PipeGrows
  <2>3. CASE ~agent
    BY <1>0, <1>1, <1>2, <1>11, <2>1, <2>3, WindowStops
  <2> QED BY <2>2, <2>3
<1>14. toAgent' \in Seq(Messages) /\ agent' \in BOOLEAN
  <2>1. toAgent \in Seq(Messages)
    BY <1>0 DEF AgentTypes
  <2>2. Append(toAgent, m) \in Seq(Messages)
    BY <2>1, <1>12
  <2> QED BY <1>0, <1>1, <1>2, <1>12, <2>1, <2>2 DEF AgentTypes
<1>15. DialogsAreAnswerable'
  <2>1. mix.prompts \subseteq Prompts
    BY <1>0, PinNamed DEF AgentTypes
  <2>2. \A q \in Prompts : Active(q) => Active(q)'
    BY <1>7 DEF Active
  <2> QED BY <1>0, <1>1, <1>2, <1>3, <2>1, <2>2 DEF Asking, DialogsAreAnswerable
<1>16. \A q \in Prompts : loop'[q].asks = loop[q].asks
  BY <1>7
<1> QED BY <1>1, <1>2, <1>8, <1>13, <1>14, <1>15, <1>16, RefusalKeeps

LEMMA ParkKeeps ==
    ASSUME IInv, NEW p \in Prompts, p \in mix.prompts, Park(p)
    PROVE  IInv'
<1> DEFINE asks == {loop[p].asks[i].ask : i \in DOMAIN loop[p].asks}
<1>0. /\ AgentTypes /\ WindowTypes /\ Stopping /\ Commands /\ LoopShape /\ page \in Pages
      /\ Asking /\ parked \subseteq Asks
  BY DEF IInv, Shape, WindowTypes, Stopping, Pages
<1>1. /\ loop[p].pc = "park" /\ Active(p) /\ AcpUntouched /\ Announce(p, asks)
      /\ UNCHANGED <<toAgent, cards, pressed, opener, engine, stopping, allowed>>
  BY DEF Park, Active
<1>2. UNCHANGED <<mix, agent, bots, session, turn, questions, hub, reply, heard>>
  BY <1>1 DEF AcpUntouched
<1>3. PICK pc \in {"last", "withdraw", "look"} :
         /\ \E r : loop' = [loop EXCEPT ![p].asks = <<>>, ![p].pc = pc, ![p].result = r]
         /\ pc \in Late => reply[p] # None \/ Gone(p)
  <2>1. PICK pc : /\ pc = CASE reply[p] \notin {None, "error", "unheard"} -> "last"
                            [] reply[p] \in {"error", "unheard"} \/ Gone(p) -> "withdraw"
                            [] OTHER -> "look"
                  /\ \E r : loop' = [loop EXCEPT ![p].asks = <<>>, ![p].pc = pc, ![p].result = r]
    BY DEF Park
  <2>2. CASE reply[p] \notin {None, "error", "unheard"}
    <3>1. ~(reply[p] \in {"error", "unheard"} \/ Gone(p))
      BY <2>2 DEF Gone
    <3> QED BY <2>1, <2>2, <3>1
  <2>3. CASE reply[p] \in {"error", "unheard"} \/ Gone(p)
    <3>1. ~(reply[p] \notin {None, "error", "unheard"})
      BY <2>3 DEF Gone
    <3>2. pc = "withdraw" /\ (reply[p] # None \/ Gone(p))
      BY <2>1, <2>3, <3>1, NoneApart
    <3> QED BY <2>1, <3>2
  <2>4. CASE reply[p] \in {None, "error", "unheard"} /\ ~(reply[p] \in {"error", "unheard"} \/ Gone(p))
    <3>1. pc = "look"
      BY <2>1, <2>4
    <3> QED BY <2>1, <3>1 DEF Late
  <2> QED BY <2>2, <2>3, <2>4
<1>4. pc \in LoopPcs \ {"idle", "done"} /\ <<>> \in Seq(Cards)
  <2>1. pc \in LoopPcs \ {"idle", "done"}
    BY DEF LoopPcs
  <2>2. <<>> \in Seq(Cards)
    OBVIOUS
  <2> QED BY <2>1, <2>2
<1>5. \E r : loop' = [loop EXCEPT ![p] = Looked(loop[p], pc, r)]
  BY <1>3 DEF Looked, WithPc, WithAsks, WithResult
<1>6. LoopOne(p, pc, <<>>)
  BY <1>0, <1>4, <1>5, LoopIs, CommandFields, CommandBecomes
<1>7. /\ loop'[p].pc = pc /\ loop'[p].asks = <<>> /\ LoopShape'
      /\ \A q \in Prompts : q # p => loop'[q] = loop[q]
  BY <1>6 DEF LoopOne
<1>8. \A a \in asks : a \in Asks /\ Asked(a)
  BY HeldIsAsked
<1>9. /\ page' \in Pages /\ page'.session = page.session
      /\ parked' \subseteq Asks /\ \A a \in parked' : Asked(a)
      /\ page'.dialogs = parked'
      /\ parked' = parked \/ page.session = Job[p].session
  <2>1. CASE page.session = Job[p].session
    <3>1. page' = PageDialogs(page, page.dialogs \cup asks) /\ parked' = parked \cup asks
      BY <1>1, <2>1 DEF Announce, PageDialogs
    <3>2. page.dialogs \cup asks \in SUBSET Asks
      BY <1>0, <1>8, PageFields
    <3>3. page.dialogs = parked
      BY <1>0 DEF Asking, DialogsAreAnswerable
    <3>4. page' \in Pages /\ page'.session = page.session /\ page'.dialogs = page.dialogs \cup asks
      BY <1>0, <3>1, <3>2, PageFields
    <3>5. \A a \in parked : Asked(a)
      BY HeldIsAsked
    <3> HIDE DEF asks
    <3> QED BY <1>0, <1>8, <2>1, <3>1, <3>3, <3>4, <3>5
  <2>2. CASE page.session # Job[p].session
    <3>1. UNCHANGED <<parked, page>>
      BY <1>1, <2>2 DEF Announce
    <3>2. page.dialogs = parked
      BY <1>0 DEF Asking, DialogsAreAnswerable
    <3> QED BY <1>0, <3>1, <3>2, HeldIsAsked
  <2> QED BY <2>1, <2>2
<1>10. waits' \in [Asks -> Waits]
       /\ \A a \in Asks : /\ waits[a].state # "none" => waits'[a].state # "none"
                          /\ waits'[a].choice = waits[a].choice \/ waits'[a].choice = None
  <2>1. UNCHANGED waits \/ \E x : Settle(x, None)
    BY <1>1 DEF Announce
  <2>2. CASE UNCHANGED waits
    BY <1>0, <2>2 DEF AgentTypes
  <2>3. ASSUME NEW x, Settle(x, None)
        PROVE  waits' \in [Asks -> Waits]
               /\ \A a \in Asks : /\ waits[a].state # "none" => waits'[a].state # "none"
                                  /\ waits'[a].choice = waits[a].choice \/ waits'[a].choice = None
    BY <1>0, <2>3, SettleDoes
  <2> QED BY <2>1, <2>2, <2>3
<1>11. WindowTypes'
  BY <1>0, <1>1, <1>7, <1>9 DEF WindowTypes, OpenerShape, OpenerOf, Pages
<1>12. Commands'
  BY <1>0, <1>1, <1>2, <1>3, <1>4, <1>7, <1>9, CommandMoves DEF Gone
<1>13. Stopping'
  BY <1>0, <1>1, <1>2, <1>4, <1>7, <1>12, WindowStops
<1>14. DialogsAreAnswerable'
  <2>1. \A q \in Prompts : Active(q)' = Active(q)
    BY <1>1, <1>4, <1>6, StillActive
  <2>2. mix.prompts \subseteq Prompts
    BY <1>0, PinNamed DEF AgentTypes
  <2>3. CASE parked' = parked
    BY <1>0, <1>2, <1>9, <2>1, <2>2, <2>3 DEF Asking, DialogsAreAnswerable
  <2>4. CASE page.session = Job[p].session
    BY <1>1, <1>2, <1>9, <2>1, <2>4 DEF DialogsAreAnswerable
  <2> QED BY <1>9, <2>3, <2>4
<1>15. \A a \in Asks : \/ waits'[a].choice = waits[a].choice
                       \/ Decision(waits'[a].choice) = "allow" => a \in allowed'
  BY <1>10, Refusal
<1>16. \A i \in DOMAIN cards' : cards'[i].ask \in Asks /\ Asked(cards'[i].ask)
  BY <1>1, HeldIsAsked
<1>17. \A q \in Prompts : \A i \in DOMAIN loop'[q].asks :
          loop'[q].asks[i].ask \in Asks /\ Asked(loop'[q].asks[i].ask)
  BY <1>7, HeldIsAsked
<1>18. Asking'
  BY <1>0, <1>1, <1>2, <1>9, <1>10, <1>14, <1>15, <1>16, <1>17, WindowAsks
<1>19. cards' \in Seq(Cards) /\ toAgent' \in Seq(Messages) /\ agent' \in BOOLEAN
  BY <1>0, <1>1, <1>2 DEF AgentTypes
<1> QED BY <1>2, <1>10, <1>11, <1>13, <1>18, <1>19, WindowKeeps

LEMMA ClickKeeps ==
    ASSUME IInv, NEW a \in Asks, NEW choice \in Clicks, Click(a, choice)
    PROVE  IInv'
<1>0. /\ AgentTypes /\ WindowTypes /\ Stopping /\ Commands /\ page \in Pages
      /\ Asking /\ parked \subseteq Asks
  BY DEF IInv, Shape, WindowTypes, Stopping, Pages
<1>1. /\ parked' = parked \ {a} /\ page' = PageDialogs(page, page.dialogs \ {a})
      /\ Settle({a}, choice)
      /\ allowed' = IF Decision(choice) = "allow" THEN allowed \cup {a} ELSE allowed
      /\ UNCHANGED <<mix, agent, bots, session, turn, questions, hub, reply, heard>>
      /\ UNCHANGED <<toAgent, cards, pressed, loop, opener, engine, stopping>>
  BY DEF Click, AcpUntouched, PageDialogs
<1>2. page' \in Pages /\ page'.session = page.session /\ page'.dialogs = page.dialogs \ {a}
  <2>1. page.dialogs \ {a} \in SUBSET Asks
    BY <1>0, PageFields
  <2> QED BY <1>0, <1>1, <2>1, PageFields
<1>3. waits' \in [Asks -> Waits]
      /\ \A b \in Asks : /\ waits[b].state # "none" => waits'[b].state # "none"
                         /\ \/ waits'[b].choice = waits[b].choice
                            \/ b = a /\ waits'[b].choice = choice
  BY <1>0, <1>1, SettleDoes
<1>4. WindowTypes'
  BY <1>0, <1>1, <1>2 DEF WindowTypes, LoopShape, LoopOf, OpenerShape, OpenerOf, Pages
<1>5. Commands'
  BY <1>0, <1>1, <1>2 DEF Commands
<1>6. Stopping'
  BY <1>0, <1>1, <1>5, WindowStops
<1>7. DialogsAreAnswerable'
  BY <1>0, <1>1, <1>2 DEF Asking, DialogsAreAnswerable, Active
<1>8. \A b \in Asks : \/ waits'[b].choice = waits[b].choice
                      \/ Decision(waits'[b].choice) = "allow" => b \in allowed'
  BY <1>1, <1>3
<1>9. Asking'
  <2>1. allowed \subseteq allowed' /\ parked' \subseteq parked
    BY <1>1
  <2> QED BY <1>0, <1>1, <1>3, <1>7, <1>8, <2>1, HeldIsAsked, WindowAsks
<1>10. cards' \in Seq(Cards) /\ toAgent' \in Seq(Messages) /\ agent' \in BOOLEAN
  BY <1>0, <1>1 DEF AgentTypes
<1> QED BY <1>1, <1>3, <1>4, <1>6, <1>9, <1>10, WindowKeeps

LEMMA OpenKeeps ==
    ASSUME IInv, NEW s \in Sessions, Open(s)
    PROVE  IInv'
<1>0. /\ AgentTypes /\ WindowTypes /\ Stopping /\ Commands /\ OpenerShape /\ page \in Pages /\ Asking
  BY DEF IInv, Shape, WindowTypes, Stopping, Pages
<1>1. /\ opener[s].pc = "idle" /\ Settle(page.dialogs, None) /\ parked' = parked \ page.dialogs
      /\ page' = [page EXCEPT !.session = None, !.dialogs = {}]
      /\ opener' = [opener EXCEPT ![s].pc = "loading"]
      /\ toAgent' = IF agent THEN Append(toAgent, [kind |-> "load", session |-> s]) ELSE toAgent
      /\ UNCHANGED <<mix, agent, bots, session, turn, questions, hub, reply, heard>>
      /\ UNCHANGED <<cards, pressed, loop, engine, stopping, allowed>>
  BY DEF Open, AcpUntouched
<1>2. page' \in Pages /\ page'.session = None /\ page'.dialogs = {}
  <2>1. PICK g \in Pages : g = PageSession(page, None) /\ g.session = None
    BY <1>0, ShownSet
  <2>2. page' = PageDialogs(g, {}) /\ {} \in SUBSET Asks
    BY <1>1, <2>1 DEF PageDialogs, PageSession
  <2> QED BY <2>1, <2>2, DialogsSet
<1>3. parked' = {}
  BY <1>0, <1>1 DEF Asking, DialogsAreAnswerable
<1>4. "loading" \in OpenerPcs
  BY DEF OpenerPcs
<1>5. OpenerOne(s, "loading")
  BY <1>0, <1>1, <1>4, OpenerGoes
<1>6. /\ OpenerShape' /\ opener'[s].pc = "loading"
      /\ \A t \in Sessions : t # s => opener'[t] = opener[t]
  BY <1>5 DEF OpenerOne
<1>7. WindowTypes'
  BY <1>0, <1>1, <1>2, <1>3, <1>6 DEF WindowTypes, LoopShape, LoopOf, Pages
<1>8. Commands'
  BY <1>0, <1>1, <1>2, <1>6, JobTyped DEF Commands
<1>9. PICK m \in Messages : m = [kind |-> "load", session |-> s] /\ m.kind = "load"
  <2>1. [kind |-> "load", session |-> s] \in Messages
    BY DEF Messages
  <2> QED BY <2>1
<1>10. Stopping'
  <2>1. CASE agent
    <3>1. toAgent' = Append(toAgent, m)
      BY <1>1, <1>9, <2>1
    <3> QED BY <1>0, <1>1, <1>8, <1>9, <3>1, PipeGrows
  <2>2. CASE ~agent
    BY <1>0, <1>1, <1>8, <2>2, WindowStops
  <2> QED BY <2>1, <2>2
<1>11. toAgent' \in Seq(Messages) /\ agent' \in BOOLEAN
  <2>1. toAgent \in Seq(Messages)
    BY <1>0 DEF AgentTypes
  <2>2. Append(toAgent, m) \in Seq(Messages)
    BY <2>1, <1>9
  <2> QED BY <1>0, <1>1, <1>9, <2>1, <2>2 DEF AgentTypes
<1>12. DialogsAreAnswerable'
  BY <1>2, <1>3 DEF DialogsAreAnswerable
<1> QED BY <1>1, <1>3, <1>7, <1>10, <1>11, <1>12, RefusalKeeps

LEMMA ReloadKeeps ==
    ASSUME IInv, NEW s \in Sessions, Reload(s)
    PROVE  IInv'
<1>0. /\ AgentTypes /\ WindowTypes /\ Stopping /\ Commands /\ Asking
  BY DEF IInv, Shape, Stopping
<1>1. /\ toAgent = <<>> /\ toAgent' = <<[kind |-> "load", session |-> s]>>
      /\ UNCHANGED <<mix, agent, bots, session, turn, questions, hub, reply, heard>>
      /\ UNCHANGED <<cards, waits, pressed>>
      /\ UNCHANGED <<page, loop, opener, engine, parked, stopping, allowed>>
  BY DEF Reload, AcpUntouched, windowVars
<1>2. PICK m \in Messages : m = [kind |-> "load", session |-> s] /\ m.kind = "load"
  <2>1. [kind |-> "load", session |-> s] \in Messages
    BY DEF Messages
  <2> QED BY <2>1
<1>3. toAgent' = Append(toAgent, m) /\ toAgent' \in Seq(Messages) /\ agent' \in BOOLEAN
  <2>1. toAgent' = <<m>>
    BY <1>1, <1>2
  <2>2. Append(toAgent, m) = <<m>> /\ <<m>> \in Seq(Messages)
    BY <1>1, <1>2
  <2> QED BY <1>0, <1>1, <2>1, <2>2 DEF AgentTypes
<1>4. WindowTypes' /\ DialogsAreAnswerable' /\ Commands'
  BY <1>0, <1>1 DEF WindowTypes, LoopShape, LoopOf, OpenerShape, OpenerOf, Asking, DialogsAreAnswerable,
                    Active, Commands
<1>5. Stopping'
  BY <1>0, <1>1, <1>2, <1>3, <1>4, PipeGrows
<1> QED BY <1>1, <1>3, <1>4, <1>5, RefusalKeeps

\* An opening that goes on, before the conversation is on screen.
LEMMA OpeningKeeps ==
    ASSUME IInv, AcpUntouched, NEW s \in Sessions, opener[s].pc # "open",
           NEW pc \in OpenerPcs \ {"open"}, OpenerOne(s, pc),
           UNCHANGED <<toAgent, cards, waits, pressed, page, loop, engine, parked, stopping, allowed>>
    PROVE  IInv'
<1>0. /\ AgentTypes /\ WindowTypes /\ Stopping /\ Commands /\ Asking /\ page \in Pages
  BY DEF IInv, Shape, WindowTypes, Stopping, Pages
<1>1. UNCHANGED <<mix, agent, bots, session, turn, questions, hub, reply, heard>>
  BY DEF AcpUntouched
<1>2. /\ OpenerShape' /\ opener'[s].pc = pc
      /\ \A t \in Sessions : t # s => opener'[t] = opener[t]
  BY DEF OpenerOne
<1>3. page.session # s /\ page.session \in Sessions \cup {None}
  <2>1. page.session \in Sessions \cup {None}
    BY <1>0, PageFields
  <2>2. page.session # None => opener[page.session].pc = "open"
    BY <1>0 DEF Commands
  <2> QED BY <2>1, <2>2, NoneApart
<1>4. Commands'
  <2>1. page.session # None => opener'[page.session].pc = "open"
    BY <1>0, <1>2, <1>3 DEF Commands
  <2>2. \A p \in Prompts : opener'[Job[p].session].pc # "open" => loop[p].pc = "idle"
    BY <1>0, <1>2, JobTyped DEF Commands
  <2> QED BY <1>0, <1>1, <2>1, <2>2 DEF Commands
<1>5. WindowTypes' /\ DialogsAreAnswerable'
  BY <1>0, <1>1, <1>2 DEF WindowTypes, LoopShape, LoopOf, Asking, DialogsAreAnswerable, Active
<1>6. Stopping'
  BY <1>0, <1>1, <1>4, WindowStops
<1>7. toAgent' \in Seq(Messages) /\ agent' \in BOOLEAN
  BY <1>0, <1>1 DEF AgentTypes
<1> QED BY <1>1, <1>5, <1>6, <1>7, RefusalKeeps

LEMMA OpenedKeeps ==
    ASSUME IInv, NEW s \in Sessions, Opened(s)
    PROVE  IInv'
<1>0. OpenerShape
  BY DEF IInv, Shape, WindowTypes
<1>1. PICK pc \in {"drain", "failed"} : opener' = [opener EXCEPT ![s].pc = pc]
  BY DEF Opened
<1>2. pc \in OpenerPcs \ {"open"}
  BY DEF OpenerPcs
<1>3. OpenerOne(s, pc)
  BY <1>0, <1>1, <1>2, OpenerGoes
<1> QED BY <1>2, <1>3, OpeningKeeps DEF Opened

LEMMA DrainHistoryKeeps ==
    ASSUME IInv, NEW s \in Sessions, DrainHistory(s)
    PROVE  IInv'
<1>0. OpenerShape
  BY DEF IInv, Shape, WindowTypes
<1>1. "keep" \in OpenerPcs \ {"open"} /\ "failed" \in OpenerPcs \ {"open"}
  BY DEF OpenerPcs
<1>2. /\ opener[s].pc # "open" /\ AcpUntouched
      /\ UNCHANGED <<toAgent, cards, waits, pressed, page, loop, engine, parked, stopping, allowed>>
  BY DEF DrainHistory
<1>3. CASE engine
  <2>1. opener' = [opener EXCEPT ![s] = [pc |-> "keep", held |-> updates]]
    BY <1>3 DEF DrainHistory
  <2>2. OpenerOne(s, "keep")
    BY <1>0, <1>1, <2>1, SetOpener
  <2> QED BY <1>1, <1>2, <2>2, OpeningKeeps
<1>4. CASE ~engine
  <2>1. opener' = [opener EXCEPT ![s].pc = "failed"]
    BY <1>4 DEF DrainHistory
  <2>2. OpenerOne(s, "failed")
    BY <1>0, <1>1, <2>1, OpenerGoes
  <2> QED BY <1>1, <1>2, <2>2, OpeningKeeps
<1> QED BY <1>3, <1>4

LEMMA KeepHistoryKeeps ==
    ASSUME IInv, NEW s \in Sessions, KeepHistory(s)
    PROVE  IInv'
<1>0. /\ AgentTypes /\ WindowTypes /\ Stopping /\ Commands /\ Asking /\ Questions /\ page \in Pages
      /\ OpenerShape /\ parked \subseteq Asks
  BY DEF IInv, Shape, WindowTypes, Stopping, Asking, Pages
<1>1. /\ opener[s].pc = "keep" /\ opener' = [opener EXCEPT ![s] = [pc |-> "open", held |-> Nothing]]
      /\ page' = PageSession(page, s)
      /\ UNCHANGED <<mix, agent, bots, session, turn, questions, hub, reply, heard>>
      /\ UNCHANGED <<toAgent, cards, waits, pressed, loop, engine, parked, stopping, allowed>>
  BY DEF KeepHistory, AcpUntouched, PageSession
<1>2. "open" \in OpenerPcs
  BY DEF OpenerPcs
<1>3. OpenerOne(s, "open")
  BY <1>0, <1>1, <1>2, SetOpener
<1>4. /\ OpenerShape' /\ opener'[s].pc = "open"
      /\ \A t \in Sessions : t # s => opener'[t] = opener[t]
  BY <1>3 DEF OpenerOne
<1>5. page' \in Pages /\ page'.session = s /\ page'.dialogs = page.dialogs
  BY <1>0, <1>1, PageFields
<1>6. Commands'
  <2>1. \A p \in Prompts : opener'[Job[p].session].pc # "open" => opener[Job[p].session].pc # "open"
    BY <1>4, JobTyped
  <2> QED BY <1>0, <1>1, <1>4, <1>5, <2>1 DEF Commands
<1>7. WindowTypes'
  BY <1>0, <1>1, <1>4, <1>5 DEF WindowTypes, LoopShape, LoopOf, Pages
<1>8. Stopping'
  BY <1>0, <1>1, <1>6, WindowStops
<1>9. DialogsAreAnswerable'
  <2>1. ASSUME NEW a \in parked
        PROVE  Job[a[1]].session # s
    <3>1. a \in Asks /\ a[1] \in Prompts /\ hub[a] # "none"
      BY <1>0, HeldIsAsked, AskPairs DEF Asked
    <3>2. turn[a[1]].pc # "idle"
      BY <1>0, <3>1 DEF Questions
    <3>3. loop[a[1]].pc # "idle"
      BY <1>0, <3>1, <3>2 DEF Commands
    <3> QED BY <1>0, <1>1, <3>1, <3>3 DEF Commands
  <2> QED BY <1>0, <1>1, <1>5, <2>1 DEF Asking, DialogsAreAnswerable
<1>10. toAgent' \in Seq(Messages) /\ agent' \in BOOLEAN
  BY <1>0, <1>1 DEF AgentTypes
<1> QED BY <1>1, <1>7, <1>8, <1>9, <1>10, RefusalKeeps

LEMMA TellAgentKeeps ==
    ASSUME IInv, TellAgent
    PROVE  IInv'
<1>0. /\ AgentTypes /\ WindowTypes /\ Stopping /\ Commands /\ Asking /\ PromptsInThePipe
      /\ Turning /\ stopping \in Sessions \cup {None}
  BY DEF IInv, Shape, WindowTypes, Stopping
<1>1. PICK s \in Sessions : s = stopping
  BY <1>0 DEF TellAgent
<1>2. /\ toAgent' = IF engine /\ agent THEN Append(toAgent, [kind |-> "cancel", session |-> s]) ELSE toAgent
      /\ pressed' = pressed \cup {p \in Prompts : Active(p) /\ Job[p].session = s}
      /\ stopping' = None
      /\ UNCHANGED <<mix, agent, bots, session, turn, questions, hub, reply, heard>>
      /\ UNCHANGED <<cards, waits, page, loop, opener, engine, parked, allowed>>
  BY <1>1 DEF TellAgent, AcpUntouched
<1>3. PICK m \in Messages : m = [kind |-> "cancel", session |-> s] /\ m.kind = "cancel" /\ m.session = s
  <2>1. [kind |-> "cancel", session |-> s] \in Messages
    BY DEF Messages
  <2> QED BY <2>1
<1>4. Commands' /\ WindowTypes' /\ DialogsAreAnswerable'
  BY <1>0, <1>2 DEF Commands, WindowTypes, LoopShape, LoopOf, OpenerShape, OpenerOf, Asking,
                    DialogsAreAnswerable, Active
<1>5. ASSUME NEW p \in Prompts, agent, loop[p].pc # "idle", reply[p] = None, Job[p].session = s
      PROVE  p \in pressed'
  <2>1. loop[p].pc # "done"
    BY <1>0, <1>5 DEF Commands
  <2> QED BY <1>2, <1>5, <2>1 DEF Active
<1>6. agent /\ session[s] # None /\ session[s].turn # None => session[s].turn \in pressed'
  <2> SUFFICES ASSUME agent, session[s] # None, session[s].turn # None
               PROVE  session[s].turn \in pressed'
    OBVIOUS
  <2>1. session[s].turn \in Prompts
    BY <1>0, SessionFields DEF AgentTypes
  <2>2. Running(session[s].turn) /\ Job[session[s].turn].session = s
    BY <1>0 DEF Turning, SessionsKnowTheirTurn
  <2>3. reply[session[s].turn] = None /\ turn[session[s].turn].pc # "idle"
    BY <1>0, <2>1, <2>2, RunningHas DEF Running
  <2> QED BY <1>0, <1>5, <2>1, <2>2, <2>3 DEF Commands
<1>7. \A j \in DOMAIN toAgent : agent /\ toAgent[j].kind = "prompt"
                                      /\ Job[toAgent[j].prompt].session = s
                                   => toAgent[j].prompt \in pressed'
  <2> SUFFICES ASSUME NEW j \in DOMAIN toAgent, agent, toAgent[j].kind = "prompt",
                      Job[toAgent[j].prompt].session = s
               PROVE  toAgent[j].prompt \in pressed'
    OBVIOUS
  <2>1. toAgent \in Seq(Messages)
    BY <1>0 DEF AgentTypes
  <2>2. toAgent[j].prompt \in Prompts
    BY <2>1, InSeq, MessageFields
  <2> QED BY <1>0, <1>5, <2>2 DEF PromptsInThePipe
<1>8. Stopping'
  <2>1. pressed \subseteq pressed'
    BY <1>2
  <2>2. CASE engine /\ agent
    <3>1. toAgent' = Append(toAgent, m)
      BY <1>2, <1>3, <2>2
    <3> QED BY <1>0, <1>2, <1>3, <1>4, <1>6, <1>7, <2>1, <2>2, <3>1, PipeGrows
  <2>3. CASE ~(engine /\ agent)
    BY <1>0, <1>2, <1>4, <2>1, <2>3, WindowStops
  <2> QED BY <2>2, <2>3
<1>9. toAgent' \in Seq(Messages) /\ agent' \in BOOLEAN
  <2>1. toAgent \in Seq(Messages)
    BY <1>0 DEF AgentTypes
  <2>2. Append(toAgent, m) \in Seq(Messages)
    BY <2>1, <1>3
  <2> QED BY <1>0, <1>2, <1>3, <2>1, <2>2 DEF AgentTypes
<1> QED BY <1>2, <1>4, <1>8, <1>9, RefusalKeeps

-----------------------------------------------------------------------------
(***************************************************************************)
(* The invariant holds, and what it says.                                   *)
(***************************************************************************)

LEMMA InitIInv == Init => IInv
<1> SUFFICES ASSUME Init PROVE IInv
  OBVIOUS
<1>1. AgentTypes
  <2>1. [pc |-> "idle", step |-> 0, why |-> None, with |-> None] \in Turns
    BY DEF Turns, TurnPcs
  <2>2. [state |-> "none", choice |-> None] \in Waits
    BY DEF Waits
  <2>3. turn \in [Prompts -> Turns] /\ waits \in [Asks -> Waits]
    BY <2>1, <2>2 DEF Init, AcpInit
  <2>4. <<>> \in Seq(Asks) /\ <<>> \in Seq(Cards) /\ <<>> \in Seq(Messages)
    OBVIOUS
  <2>5. questions \in [Prompts -> Seq(Asks)] /\ cards \in Seq(Cards) /\ toAgent \in Seq(Messages)
    BY <2>4 DEF Init, AcpInit
  <2>6. mix \in Mixes /\ agent \in BOOLEAN /\ session \in [Sessions -> SessionRecords \cup {None}]
        /\ reply \in [Prompts -> Replies \cup {None}]
        /\ hub \in [Asks -> {"none", "open", "granted", "denied", "given up"}]
    BY DEF Init, AcpInit
  <2> QED BY <2>3, <2>5, <2>6 DEF AgentTypes
<1>2. LoopShape /\ \A p \in Prompts : loop[p].pc = "idle" /\ loop[p].asks = <<>>
  <2>1. \A p \in Prompts : loop[p] = [pc |-> "idle", held |-> Nothing, taken |-> <<>>, asks |-> <<>>,
                                      result |-> None, echo |-> None]
    BY DEF Init
  <2>2. \A p \in Prompts : /\ loop[p].pc = "idle" /\ loop[p].asks = <<>>
                           /\ loop[p] = LoopOf(loop[p])
    BY <2>1 DEF LoopOf
  <2>3. loop = [p \in Prompts |-> loop[p]]
    BY DEF Init
  <2>4. loop = [p \in Prompts |-> LoopOf(loop[p])]
    BY <2>2, <2>3
  <2>5. <<>> \in Seq(Cards) /\ "idle" \in LoopPcs
    BY DEF LoopPcs
  <2> QED BY <2>2, <2>4, <2>5 DEF LoopShape
<1>3. OpenerShape /\ \A s \in Sessions : opener[s].pc = "idle"
  BY DEF Init, OpenerShape, OpenerOf, OpenerPcs
<1>4. page.session = None /\ page.dialogs = {} /\ parked = {} /\ engine = TRUE /\ stopping = None
      /\ page \in [session : Sessions \cup {None}, busy : BOOLEAN, dialogs : SUBSET Asks]
  BY DEF Init
<1>5. WindowTypes
  BY <1>2, <1>3, <1>4 DEF WindowTypes
<1>6. \A p \in Prompts : turn[p].pc = "idle" /\ turn[p].why = None /\ reply[p] = None
                         /\ questions[p] = <<>>
  BY DEF Init, AcpInit
<1>7. /\ \A s \in Sessions : session[s] = None
      /\ \A a \in Asks : hub[a] = "none" /\ waits[a].choice = None
      /\ toAgent = <<>> /\ cards = <<>>
  BY DEF Init, AcpInit
<1>8. Turning
  BY <1>6, <1>7, NoneApart DEF Turning, TurnsOwnTheirSession, SessionsKnowTheirTurn, Endings,
        HeardSoFar, Joiners, Answered, TargetsAreThere, Running
<1>9. Stopping
  <2>1. mix.prompts \subseteq Prompts
    BY <1>1, PinNamed DEF AgentTypes
  <2>2. StopsAreMeant
    BY <1>4, <1>6, <1>7, <2>1, NoneApart DEF StopsAreMeant, StopIsForThatTurn
  <2>4. PromptsInThePipe /\ CancelsInThePipe
    BY <1>7 DEF PromptsInThePipe, CancelsInThePipe
  <2>5. Commands
    BY <1>2, <1>4, <1>6, NoneApart DEF Commands
  <2> QED BY <2>2, <2>4, <2>5 DEF Stopping
<1>10. Asking
  <2>1. Questions
    BY <1>2, <1>4, <1>6, <1>7 DEF Questions
  <2>2. Grants
    BY <1>7, Refusal DEF Grants
  <2> QED BY <1>4, <2>1, <2>2 DEF Asking, DialogsAreAnswerable
<1> QED BY <1>1, <1>5, <1>8, <1>9, <1>10 DEF IInv, Shape

LEMMA StutterKeeps ==
    ASSUME IInv, UNCHANGED vars
    PROVE  IInv'
<1>0. AgentTypes /\ Turning /\ Stopping /\ Asking
  BY DEF IInv, Shape
<1>1. UNCHANGED windowVars
      /\ UNCHANGED <<mix, agent, bots, session, turn, questions, hub, toAgent, cards, waits, reply,
                     heard, pressed>>
  BY DEF vars, acpVars
<1>2. UNCHANGED <<loop, opener, page, engine, parked, allowed>>
  BY <1>1 DEF windowVars
<1>3. AgentTypes' /\ Turning' /\ Stopping' /\ Asking'
  BY <1>0, <1>1, <1>2, TurningFrame, StoppingFrame, AskingFrame DEF AgentTypes
<1> QED BY <1>1, <1>3, AgentStep

LEMMA NextKeeps ==
    ASSUME IInv, [Next]_vars
    PROVE  IInv'
<1>0. mix.prompts \subseteq Prompts /\ mix.opens \subseteq Sessions
  BY PinNamed DEF IInv, Shape, AgentTypes
<1>1. CASE AcpStep /\ UNCHANGED windowVars
  <2>1. CASE Receive
    BY <1>1, <2>1, ReceiveKeeps
  <2>2. ASSUME NEW p \in mix.prompts,
               Top(p) \/ Think(p) \/ PassOn(p) \/ Ask(p) \/ Answer(p) \/ End(p) \/ Joined(p)
        PROVE  IInv'
    BY <1>0, <1>1, <2>2, TopKeeps, ThinkKeeps, PassOnKeeps, AskKeeps, AnswerKeeps, EndKeeps, JoinedKeeps
  <2> QED BY <1>1, <2>1, <2>2 DEF AcpStep
<1>2. CASE Troubles /\ UNCHANGED windowVars
  BY <1>0, <1>2, ExpireKeeps, HubFailsKeeps DEF Troubles
<1>3. CASE WindowStep
  <2>1. ASSUME NEW p \in mix.prompts, Drain(p) \/ Keep(p) \/ Show(p) \/ Park(p) \/ WithdrawSession(p)
        PROVE  IInv'
    BY <1>0, <2>1, DrainKeeps, KeepKeeps, ShowKeeps, ParkKeeps, WithdrawKeeps
  <2>2. ASSUME NEW s \in mix.opens, Opened(s) \/ DrainHistory(s) \/ KeepHistory(s)
        PROVE  IInv'
    BY <1>0, <2>2, OpenedKeeps, DrainHistoryKeeps, KeepHistoryKeeps
  <2>3. ASSUME NEW a \in Asks, GiveUp(a)
        PROVE  IInv'
    BY <2>3, GiveUpKeeps
  <2> QED BY <1>3, <2>1, <2>2, <2>3, TellAgentKeeps DEF WindowStep
<1>4. CASE Person
  <2>1. ASSUME NEW p \in mix.prompts, Message(p)
        PROVE  IInv'
    BY <1>0, <2>1, MessageKeeps
  <2>2. ASSUME NEW s \in mix.opens, Open(s) \/ Reload(s)
        PROVE  IInv'
    BY <1>0, <2>2, OpenKeeps, ReloadKeeps
  <2>3. ASSUME NEW a \in Asks, NEW c \in Clicks, Click(a, c)
        PROVE  IInv'
    BY <2>3, ClickKeeps
  <2> QED BY <1>4, <2>1, <2>2, <2>3, StopKeeps, DisconnectKeeps, AgentDiesKeeps DEF Person
<1>5. CASE UNCHANGED vars
  BY <1>5, StutterKeeps
<1> QED BY <1>1, <1>2, <1>3, <1>4, <1>5 DEF Next

\* The whole of the invariant, in every state.
THEOREM WindowInvariant == Spec => []IInv
<1>1. Init => IInv
  BY InitIInv
<1>2. IInv /\ [Next]_vars => IInv'
  BY NextKeeps
<1> QED BY <1>1, <1>2, PTL DEF Spec

LEMMA IInvTyped == IInv => TypeOK
<1> SUFFICES ASSUME IInv PROVE TypeOK
  OBVIOUS
<1>0. AgentTypes /\ WindowTypes /\ Turning /\ Asking
  BY DEF IInv, Shape
<1>1. \A p \in Prompts : turn[p] \in Turns /\ reply[p] \in Replies \cup {None} /\ loop[p].pc \in LoopPcs
  BY <1>0 DEF AgentTypes, WindowTypes, LoopShape
<1>2. \A p \in Prompts : turn[p].pc \in TurnPcs
  BY <1>1, TurnFields
<1>3. \A s \in Sessions : session[s] # None /\ session[s].turn # None => Job[session[s].turn].session = s
  BY <1>0 DEF Turning, SessionsKnowTheirTurn
<1>4. \A a \in page.dialogs : hub[a] # "none" /\ waits[a].state # "none"
  BY <1>0 DEF Asking, Questions, Asked, DialogsAreAnswerable
<1>5. \A p \in Prompts : reply[p] # None => turn[p].pc \in {"ended", "idle"}
  BY <1>0 DEF Turning, Answered
<1> QED BY <1>1, <1>2, <1>3, <1>4, <1>5 DEF TypeOK, TurnPcs, LoopPcs, Replies

\* A session answers one prompt at a time, as the Bot it was opened for; loading it again does
\* not set it free; and whatever comes back as ended was read (claim_turn, bind_session,
\* join_turn, release_turn, resolve_target).
THEOREM TurnsAreOneAndHeard == Spec => []OneTurnEachHeard
<1>1. IInv => OneTurnEachHeard
  <2> SUFFICES ASSUME IInv PROVE OneTurnEachHeard
    OBVIOUS
  <2>1. TypeOK
    BY IInvTyped
  <2>2. OneTurnAtATime
    BY DEF IInv, Turning, TurnsOwnTheirSession, OneTurnAtATime, OfSession
  <2>3. mix.prompts \subseteq Prompts
    BY PinNamed DEF IInv, Shape, AgentTypes
  <2>4. HeardOrTold
    BY <2>3 DEF IInv, Turning, HeardSoFar, HeardOrTold
  <2>5. TargetsAreThere
    BY DEF IInv, Turning
  <2> QED BY <2>1, <2>2, <2>4, <2>5 DEF OneTurnEachHeard
<1> QED BY <1>1, WindowInvariant, PTL

\* A question is answered yes only by a person who said yes to it, what is on screen is what
\* still waits, and a stop reaches only a turn that was there when it was pressed (ask_client,
\* decision, withdraw_session, cancel, claim_turn).
THEOREM DecisionsAreThePersons == Spec => []ThePersonDecides
<1>1. IInv => ThePersonDecides
  BY DEF IInv, Asking, Grants, Stopping, StopsAreMeant, ThePersonDecides, GrantIsThePersons
<1> QED BY <1>1, WindowInvariant, PTL

=============================================================================
