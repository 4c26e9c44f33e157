--------------------------------- MODULE Hub ---------------------------------
(***************************************************************************)
(* The Computer Hub (crates/botrosterd/src/hub.rs): the router between the   *)
(* harnesses that call tools and the tool servers (guests) that run them.    *)
(*                                                                         *)
(* All of the hub's tables sit behind one mutex, so one action is one        *)
(* critical section, or one that is followed only by steps nothing else can  *)
(* tell apart.  A request runs on a task of its own and its steps interleave *)
(* with everything; a notification and a response are handled inline by the   *)
(* reader of the connection they arrive on.                                  *)
(*                                                                         *)
(* The requests clients may make are the constant set Requests; each is made *)
(* at most once, at any moment its connection is up.  A connection id is      *)
(* minted by the hub and never reused, so a peer that reconnects is another   *)
(* element of Conns.                                                         *)
(***************************************************************************)
EXTENDS Policy

CONSTANTS Harnesses,     \* connections that say hello as a harness
          Guests,        \* connections whose hello names a server: every tool
                         \* server, and any harness that names one
          Upstream,      \* the harnesses that speak the published dialect
          AckMayFail,    \* connections whose hello_ack may fail to be written
          Servers,       \* server ids
          ServerOf,      \* the server_id in the hello of a guest
          Sessions,      \* session ids
          CallIds,       \* call ids, chosen by the callers
          Requests,      \* the requests clients may make ...
          Req,           \* ... and what each of them says
          DefaultPolicy, \* the policy handed to a new session
          HubTools,      \* the tools the hub serves itself
          SecretTool,    \* the credential request (None: the hub has no store)
          Vetoed,        \* the tools a PreToolUse hook may refuse
          Recorded,      \* the steps of the session that can be replayed
          None

Conns == Harnesses \cup Guests

Ops == {"open", "close", "bind", "serve", "takeover", "release", "call"}

ASSUME ConnsAssumption ==
    /\ Upstream \subseteq Harnesses
    /\ AckMayFail \subseteq Conns
    /\ ServerOf \in [Guests -> Servers]
    /\ None \notin Conns \cup Servers \cup Sessions \cup CallIds \cup Requests
                    \cup Verdicts \cup {"once", "always", "no"}

\* What a request carries; a field its operation does not read is None.
\* "after" bounds the client, not the hub: the requests whose answers it waits
\* for before it makes this one.
ASSUME RequestsAssumption ==
    \A r \in Requests :
        /\ Req[r].op \in Ops
        /\ Req[r].from \in Conns
        /\ Req[r].sid \in Sessions \cup (IF Req[r].op = "open" THEN {None} ELSE {})
        /\ Req[r].op \in {"bind", "takeover", "release"} => Req[r].server \in Servers
        /\ Req[r].op = "call" => Req[r].callId \in CallIds
        /\ Req[r].after \subseteq Requests
        /\ Req[r].op = "open" => /\ Req[r].bot \in BOOLEAN
                                 /\ Req[r].replay \in BOOLEAN

ASSUME PolicyAssumption ==
    /\ DefaultPolicy.fallback \in Actions
    /\ DOMAIN DefaultPolicy = {"rules", "fallback", "grants", "privateAllowed"}

Op(r)     == Req[r].op
From(r)   == Req[r].from
Sid(r)    == Req[r].sid
Call(r)   == Req[r].call
Tool(r)   == Req[r].call.tool
CallId(r) == Req[r].callId

ToolCalls == {r \in Requests : Op(r) = "call"}
Grants    == DefaultPolicy.grants \cup {GrantFor(Call(r)) : r \in ToolCalls}

-----------------------------------------------------------------------------
VARIABLES
    (* The tables of hub.rs, State. *)
    conns,      \* the connection table, with what the hub's task for it does
    servers,    \* server id -> the connection registered for it
    sessions,   \* session id -> Session
    hubCalls,   \* the questions the hub asked -> the connection it asked
    relays,     \* forwarded calls -> the guest whose answer counts
    calls,      \* call id -> InFlight
    takeovers,  \* server id -> Takeover
    (* The tasks. *)
    task,       \* the task of every request, with its local variables
    ending,     \* forwarded calls on their way through finish_relay
    reading,    \* the progress frame a guest's reader is in the middle of
    (* What has happened. *)
    answers,    \* the answers sent to the caller of a tool call
    noted,      \* what the record says of a tool call
    delivered,  \* the guest a tool call reached
    hubRan,     \* the tool calls the hub carried out itself
    heard,      \* the progress frames that reached a harness
    quiet       \* calls whose guest has no more progress to send

tables  == <<conns, servers, sessions, hubCalls, relays, calls, takeovers>>
tasks   == <<task, ending, reading>>
history == <<answers, noted, delivered, hubRan, heard, quiet>>
vars    == <<conns, servers, sessions, hubCalls, relays, calls, takeovers,
             task, ending, reading,
             answers, noted, delivered, hubRan, heard, quiet>>

\* "up": served by a task.  "orphaned": in the table, its task gone before it
\* read a frame.  "leaving": out of the table, its calls not yet failed.
ConnStates == {"new", "up", "orphaned", "leaving", "down"}

Replaying == [at : Nat, diverged : BOOLEAN]

\* "by" names the request that opened this incarnation of the session; the
\* code does not keep it.
Session == [owner : Conns, server : Servers \cup {None},
            catalogue : Conns \cup {None},
            grants : SUBSET Grants,
            bot : BOOLEAN, replay : Replaying \cup {None},
            by : Requests]

InFlight == [origin : Conns, server : Guests]
Takeover == [holder : Conns, session : Sessions]

\* What a question of the hub is answered with: the response to its request, or
\* a notification that names it.
Replies == {"response", "hook_reply"}

\* Where a request's task is: the next critical section it will run.
Sections == {"idle", "open", "close", "bind", "serve", "takeover", "release",
             "call", "policy", "hook", "ask", "wait", "decide", "run", "store",
             "bound", "forward", "done"}

\* "owner" and "bot" are what the session said when the policy was read;
\* "target" is the connection the task is dealing with; "approval" is what the
\* person said, "by" who said it and "via" the frame it came in.
Task == [pc : Sections, verdict : Verdicts \cup {None},
         owner : Conns \cup {None}, bot : BOOLEAN,
         about : {"approval", "credential", "bind", None},
         target : Conns \cup {None},
         approval : {"once", "always", "no", None},
         by : Conns \cup {None}, via : Replies \cup {None},
         answer : {"value", "tools", "no", None}]

Hows == {"ok", "failed", "gone", "deadline",                 \* how a call ran
         "byPolicy", "byHook", "byPerson", "noCredential",   \* it was refused
         "unrouted", "takenOver", "noSession",
         "recorded", "diverged"}                             \* it was replayed

Ending == [how : {"ok", "failed", "gone", "deadline"},
           by : Guests \cup {None}, retired : BOOLEAN]

Frame == [req : Requests, to : Conns, late : BOOLEAN]

\* An entry of a table is not the absence of one.
ASSUME EntriesAssumption == None \notin InFlight \cup Ending

TablesOK ==
    /\ conns \in [Conns -> ConnStates]
    /\ servers \in [Servers -> Guests \cup {None}]
    /\ sessions \in [Sessions -> Session \cup {None}]
    /\ hubCalls \in [Requests -> Conns \cup {None}]
    /\ relays \in [Requests -> Guests \cup {None}]
    /\ calls \in [CallIds -> InFlight \cup {None}]
    /\ takeovers \in [Servers -> Takeover \cup {None}]

TasksOK ==
    /\ task \in [Requests -> Task]
    /\ ending \in [Requests -> Ending \cup {None}]
    /\ reading \in [Guests -> [req : Requests, to : Conns] \cup {None}]

HistoryOK ==
    /\ answers \in [Requests -> Seq(Hows)]
    /\ noted \in [Requests -> Seq(Hows)]
    /\ delivered \in [Requests -> Guests \cup {None}]
    /\ hubRan \subseteq Requests
    /\ heard \subseteq Frame
    /\ quiet \subseteq Requests

TypeOK == TablesOK /\ TasksOK /\ HistoryOK

NewTask == [pc |-> "idle", verdict |-> None, owner |-> None, bot |-> FALSE,
            about |-> None, target |-> None, approval |-> None,
            by |-> None, via |-> None, answer |-> None]

\* Nobody has asked for anything yet.
Unused ==
    /\ servers = [v \in Servers |-> None]
    /\ sessions = [s \in Sessions |-> None]
    /\ hubCalls = [r \in Requests |-> None]
    /\ relays = [r \in Requests |-> None]
    /\ calls = [i \in CallIds |-> None]
    /\ takeovers = [v \in Servers |-> None]
    /\ task = [r \in Requests |-> NewTask]
    /\ ending = [r \in Requests |-> None]
    /\ reading = [g \in Guests |-> None]
    /\ answers = [r \in Requests |-> <<>>]
    /\ noted = [r \in Requests |-> <<>>]
    /\ delivered = [r \in Requests |-> None]
    /\ hubRan = {}
    /\ heard = {}
    /\ quiet = {}

Init == Unused /\ conns = [c \in Conns |-> "new"]

-----------------------------------------------------------------------------
(***************************************************************************)
(* Helpers.                                                                *)
(***************************************************************************)

InTable(c) == conns[c] \in {"up", "orphaned"}

\* Every frame of a guest is handled on a task of its own, as requests are.
IdleAlways(c) == TRUE

\* A guest's reader handles one frame at a time: not while it is relaying a
\* progress frame, not while it is finishing the relay a response ended.
Idle(c) ==
    /\ c \in Guests => reading[c] = None
    /\ \A r \in Requests : ending[r] # None => ending[r].by # c

OwnedBy(s, c) == sessions[s] # None /\ sessions[s].owner = c

PolicyOf(s) == [DefaultPolicy EXCEPT !.grants = sessions[s].grants]

At(r, pc)   == task[r].pc = pc
Goto(r, pc) == task' = [task EXCEPT ![r].pc = pc]

\* The response to a tool call; a send to a connection that left is dropped.
Answered(r, how) ==
    IF InTable(From(r)) THEN [answers EXCEPT ![r] = Append(@, how)] ELSE answers

\* What the log is told of a tool call: nothing when the session named no Bot.
Noted(r, how) ==
    IF task[r].bot THEN [noted EXCEPT ![r] = Append(@, how)] ELSE noted

\* A tool call that ends without having been forwarded, with and without a note.
EndNoted(r, how) ==
    /\ answers' = Answered(r, how)
    /\ noted' = Noted(r, how)
    /\ Goto(r, "done")

EndUnnoted(r, how) ==
    /\ answers' = Answered(r, how)
    /\ Goto(r, "done")
    /\ UNCHANGED noted

-----------------------------------------------------------------------------
(***************************************************************************)
(* Connections.                                                            *)
(***************************************************************************)

\* register: last writer wins the server id.
Register(c, state) ==
    /\ conns[c] = "new"
    /\ conns' = [conns EXCEPT ![c] = state]
    /\ servers' = IF c \in Guests THEN [servers EXCEPT ![ServerOf[c]] = c]
                                  ELSE servers
    /\ UNCHANGED <<sessions, hubCalls, relays, calls, takeovers, tasks, history>>

\* The handshake completes and the connection's reader starts.
Connect(c) == Register(c, "up")

\* The hello_ack cannot be written: the task returns without disconnecting.
LoseAck(c) == c \in AckMayFail /\ Register(c, "orphaned")

\* The session outlives the connection that opened it.
SessionOrphaned(c, s) ==
    IF OwnedBy(s, c) THEN [sessions[s] EXCEPT !.owner = None] ELSE sessions[s]

\* What is left of a session when c goes.
SessionWithout(c, s) ==
    IF OwnedBy(s, c) THEN None
    ELSE IF c \in Guests /\ sessions[s] # None /\ sessions[s].server = ServerOf[c]
    THEN [sessions[s] EXCEPT !.server = None, !.catalogue = None]
    ELSE sessions[s]

\* The entry goes whichever connection it points at.
ServersForgotten(c) ==
    IF c \in Guests THEN [servers EXCEPT ![ServerOf[c]] = None] ELSE servers

\* The entry goes only while it still points at c; a newer connection of the
\* same server may have replaced it.
ServersWithout(c) == [v \in Servers |-> IF servers[v] = c THEN None ELSE servers[v]]

\* A person who leaves gives back every computer.
TakeoversWithout(c) ==
    [v \in Servers |-> IF takeovers[v] # None /\ takeovers[v].holder = c
                       THEN None ELSE takeovers[v]]

\* The calls of a caller that left.
CallsWithout(c) ==
    [i \in CallIds |-> IF calls[i] # None /\ calls[i].origin = c
                       THEN None ELSE calls[i]]

\* The first half of disconnect: everything routed through the connection.
Disconnect(c) ==
    /\ conns[c] = "up"
    /\ Idle(c)
    /\ conns' = [conns EXCEPT ![c] = IF c \in Guests THEN "leaving" ELSE "down"]
    /\ servers' = ServersWithout(c)
    /\ sessions' = [s \in Sessions |-> SessionWithout(c, s)]
    /\ takeovers' = TakeoversWithout(c)
    /\ calls' = CallsWithout(c)
    /\ relays' = [r \in Requests |-> IF From(r) = c THEN None ELSE relays[r]]
    /\ hubCalls' = [r \in Requests |-> IF hubCalls[r] = c THEN None ELSE hubCalls[r]]
    /\ UNCHANGED <<tasks, history>>

\* The guest's calls are left to their deadlines.
FailNothing(c) ==
    /\ conns[c] = "leaving"
    /\ conns' = [conns EXCEPT ![c] = "down"]
    /\ UNCHANGED <<servers, sessions, hubCalls, relays, calls, takeovers, tasks,
                   history>>

\* The second half, fail_calls_targeting: the calls the guest was running.
FailCalls(c) ==
    /\ conns[c] = "leaving"
    /\ conns' = [conns EXCEPT ![c] = "down"]
    /\ relays' = [r \in Requests |-> IF relays[r] = c THEN None ELSE relays[r]]
    /\ ending' = [r \in Requests |->
                    IF relays[r] = c
                    THEN [how |-> "gone", by |-> c, retired |-> FALSE]
                    ELSE ending[r]]
    /\ UNCHANGED <<servers, sessions, hubCalls, calls, takeovers, task, reading,
                   history>>

-----------------------------------------------------------------------------
(***************************************************************************)
(* Requests and sessions.                                                  *)
(***************************************************************************)

\* required_role: a tool server pushes its catalogue, a harness does the rest.
RoleAllows(r) == (Op(r) = "serve") <=> (From(r) \notin Harnesses)

\* on_frame and on_request: a task of its own, past the check of its role.
Arrive(r) ==
    /\ At(r, "idle")
    /\ \A q \in Req[r].after : At(q, "done")
    /\ conns[From(r)] = "up"
    /\ RoleAllows(r)
    /\ Goto(r, Op(r))
    /\ UNCHANGED <<tables, ending, reading, history>>

\* The owner of an id in use is not looked at.
MayOpenAnyId(r, s) == Sid(r) = s \/ (Sid(r) = None /\ sessions[s] = None)

\* Whether an open may have session s: its own id again, an id nobody holds, or
\* a minted one, which is never an id in use.
MayOpen(r, s) ==
    \/ Sid(r) = s /\ (sessions[s] = None \/ OwnedBy(s, From(r)))
    \/ Sid(r) = None /\ sessions[s] = None

\* session_open: the whole session is replaced, its grants and server with it.
Open(r) ==
    /\ At(r, "open")
    /\ \/ \E s \in Sessions :
            /\ MayOpen(r, s)
            /\ Req[r].replay => Recorded # <<>>
            /\ sessions' = [sessions EXCEPT ![s] =
                   [owner |-> From(r), server |-> None, catalogue |-> None,
                    grants |-> DefaultPolicy.grants, bot |-> Req[r].bot,
                    replay |-> IF Req[r].replay
                               THEN [at |-> 0, diverged |-> FALSE] ELSE None,
                    by |-> r]]
       \/ /\ \/ \A s \in Sessions : ~MayOpen(r, s)
             \/ Req[r].replay /\ Recorded = <<>>
          /\ UNCHANGED sessions
    /\ Goto(r, "done")
    /\ UNCHANGED <<conns, servers, hubCalls, relays, calls, takeovers, ending,
                   reading, history>>

\* session_close, by the owner only.
Close(r) ==
    /\ At(r, "close")
    /\ sessions' = IF OwnedBy(Sid(r), From(r))
                   THEN [sessions EXCEPT ![Sid(r)] = None] ELSE sessions
    /\ Goto(r, "done")
    /\ UNCHANGED <<conns, servers, hubCalls, relays, calls, takeovers, ending,
                   reading, history>>

\* serve: a guest's fresh catalogue for a session it names.
Serve(r) ==
    /\ At(r, "serve")
    /\ sessions' = IF sessions[Sid(r)] # None
                   THEN [sessions EXCEPT ![Sid(r)].catalogue = From(r)] ELSE sessions
    /\ Goto(r, "done")
    /\ UNCHANGED <<conns, servers, hubCalls, relays, calls, takeovers, ending,
                   reading, history>>

\* session_bind_server, first section: the owner, and the server's connection.
BindLookup(r) ==
    LET server == servers[Req[r].server] IN
    /\ At(r, "bind")
    /\ IF OwnedBy(Sid(r), From(r)) /\ server # None
       THEN task' = [task EXCEPT ![r].pc = "ask", ![r].about = "bind",
                                 ![r].target = server]
       ELSE Goto(r, "done")
    /\ UNCHANGED <<tables, ending, reading, history>>

\* Its last section, whatever has become of the session and the server.
Bound(r) ==
    /\ At(r, "bound")
    /\ sessions' = IF task[r].answer = "tools" /\ sessions[Sid(r)] # None
                   THEN [sessions EXCEPT ![Sid(r)].server = Req[r].server,
                                         ![Sid(r)].catalogue = task[r].target]
                   ELSE sessions
    /\ Goto(r, "done")
    /\ UNCHANGED <<conns, servers, hubCalls, relays, calls, takeovers, ending,
                   reading, history>>

-----------------------------------------------------------------------------
(***************************************************************************)
(* A person at the keyboard.                                               *)
(***************************************************************************)

TakeOver(r) ==
    /\ At(r, "takeover")
    /\ takeovers' = IF /\ OwnedBy(Sid(r), From(r))
                       /\ servers[Req[r].server] # None
                       /\ takeovers[Req[r].server] = None
                    THEN [takeovers EXCEPT ![Req[r].server] =
                            [holder |-> From(r), session |-> Sid(r)]]
                    ELSE takeovers
    /\ Goto(r, "done")
    /\ UNCHANGED <<conns, servers, sessions, hubCalls, relays, calls, ending,
                   reading, history>>

\* Anybody gives back a computer that is held.
AnyoneMayRelease(r) == takeovers[Req[r].server] # None

\* Only the connection that holds a computer gives it back.
MayRelease(r) ==
    /\ takeovers[Req[r].server] # None
    /\ takeovers[Req[r].server].holder = From(r)

Release(r) ==
    /\ At(r, "release")
    /\ takeovers' = IF MayRelease(r)
                    THEN [takeovers EXCEPT ![Req[r].server] = None] ELSE takeovers
    /\ Goto(r, "done")
    /\ UNCHANGED <<conns, servers, sessions, hubCalls, relays, calls, ending,
                   reading, history>>

-----------------------------------------------------------------------------
(***************************************************************************)
(* Questions the hub asks: an approval and a credential of a harness, a      *)
(* session.bind of a guest.                                                 *)
(***************************************************************************)

\* The entry, with the connection it is addressed to, and then the question.
Ask(r) ==
    /\ At(r, "ask")
    /\ hubCalls' = [hubCalls EXCEPT ![r] = task[r].target]
    /\ Goto(r, "wait")
    /\ UNCHANGED <<conns, servers, sessions, relays, calls, takeovers, ending,
                   reading, history>>

\* Whoever knows the question may answer it.
AnyoneAnswers(c, r) == TRUE

\* Only the connection the hub asked may answer.
MayAnswer(c, r) == hubCalls[r] = c

\* What a response says.  An unreadable answer and an error count as "no".
Responses(about) ==
    CASE about = "approval"   -> {"once", "always", "no"}
      [] about = "credential" -> {"value", "no"}
      [] about = "bind"       -> {"tools", "no"}
      [] OTHER                -> {}

\* always_approve counts as "always".
HookRepliesUnreduced(about) ==
    IF about = "approval" THEN {"once", "always", "no"} ELSE {"no"}

\* hook_reply_decision: a hook_reply always says a decision, with always_approve
\* as one approval; a decision is no credential and no catalogue.
HookReplies(about) == IF about = "approval" THEN {"once", "no"} ELSE {"no"}

\* Either connection may use either frame, whatever dialect it speaks.
AnswersIn(via, about) ==
    IF via = "response" THEN Responses(about) ELSE HookReplies(about)

After(about) ==
    CASE about = "approval"   -> "decide"
      [] about = "credential" -> "store"
      [] OTHER                -> "bound"

\* The task wakes up with an answer; "no" is also what silence counts as.
Wake(r, c, via, answer) ==
    LET about == task[r].about IN
    task' = IF about = "approval"
            THEN [task EXCEPT ![r].pc = After(about), ![r].approval = answer,
                              ![r].by = c, ![r].via = via]
            ELSE [task EXCEPT ![r].pc = After(about), ![r].answer = answer]

\* on_response and on_hook_reply.
Answer(c, r) ==
    /\ At(r, "wait")
    /\ hubCalls[r] # None
    /\ MayAnswer(c, r)
    /\ conns[c] = "up"
    /\ Idle(c)
    /\ hubCalls' = [hubCalls EXCEPT ![r] = None]
    /\ \E via \in Replies : \E answer \in AnswersIn(via, task[r].about) :
          Wake(r, c, via, answer)
    /\ UNCHANGED <<conns, servers, sessions, relays, calls, takeovers, ending,
                   reading, history>>

\* Silence counts as consent.
GiveUpConsents(r) ==
    /\ At(r, "wait")
    /\ hubCalls' = [hubCalls EXCEPT ![r] = None]
    /\ Wake(r, None, None, IF task[r].about = "approval" THEN "once" ELSE "no")
    /\ UNCHANGED <<conns, servers, sessions, relays, calls, takeovers, ending,
                   reading, history>>

\* The timeout, or the entry dropped by the disconnect of whoever was asked.
GiveUp(r) ==
    /\ At(r, "wait")
    /\ hubCalls' = [hubCalls EXCEPT ![r] = None]
    /\ Wake(r, None, None, "no")
    /\ UNCHANGED <<conns, servers, sessions, relays, calls, takeovers, ending,
                   reading, history>>

-----------------------------------------------------------------------------
(***************************************************************************)
(* A tool call, up to the moment it runs.                                  *)
(***************************************************************************)

\* A diverged run may find its way back.
AgreesAgain(replay, r) ==
    /\ replay.at < Len(Recorded)
    /\ Recorded[replay.at + 1] = Call(r)

\* from_the_record: the next step is this very call, and this run has not
\* diverged.
Agrees(replay, r) ==
    /\ ~replay.diverged
    /\ replay.at < Len(Recorded)
    /\ Recorded[replay.at + 1] = Call(r)

\* The replay after the call: one step further, or diverged for good.
Advanced(replay, r) ==
    IF Agrees(replay, r) THEN [replay EXCEPT !.at = @ + 1]
                         ELSE [replay EXCEPT !.diverged = TRUE]

\* A replaying session is answered from the record and goes no further.
CallReplayed(r) ==
    /\ At(r, "call")
    /\ sessions[Sid(r)] # None
    /\ sessions[Sid(r)].replay # None
    /\ sessions' = [sessions EXCEPT ![Sid(r)].replay = Advanced(@, r)]
    /\ EndUnnoted(r, IF Agrees(sessions[Sid(r)].replay, r) THEN "recorded"
                                                         ELSE "diverged")
    /\ UNCHANGED <<conns, servers, hubCalls, relays, calls, takeovers, ending,
                   reading, delivered, hubRan, heard, quiet>>

CallLive(r) ==
    /\ At(r, "call")
    /\ sessions[Sid(r)] # None => sessions[Sid(r)].replay = None
    /\ Goto(r, "policy")
    /\ UNCHANGED <<tables, ending, reading, history>>

\* The policy of the session, read together with its owner and its Bot.  A
\* denied call ends here, before any hook and any prompt.
ConsultPolicy(r) ==
    /\ At(r, "policy")
    /\ sessions[Sid(r)] # None
    /\ LET s       == sessions[Sid(r)]
           verdict == Evaluate(PolicyOf(Sid(r)), Call(r)) IN
       /\ task' = [task EXCEPT ![r].pc = IF verdict = "deny" THEN "done" ELSE "hook",
                               ![r].verdict = verdict, ![r].owner = s.owner,
                               ![r].bot = s.bot]
       /\ IF verdict = "deny"
          THEN /\ answers' = Answered(r, "byPolicy")
               /\ noted' = IF s.bot THEN [noted EXCEPT ![r] = Append(@, "byPolicy")]
                                    ELSE noted
          ELSE UNCHANGED <<answers, noted>>
    /\ UNCHANGED <<tables, ending, reading, delivered, hubRan, heard, quiet>>

NoSuchSession(r) ==
    /\ At(r, "policy")
    /\ sessions[Sid(r)] = None
    /\ EndUnnoted(r, "noSession")
    /\ UNCHANGED <<tables, ending, reading, delivered, hubRan, heard, quiet>>

\* Where a call that its policy and its hooks let through goes next.
AfterHook(r) == IF task[r].verdict = "ask" THEN "ask" ELSE "run"

\* The PreToolUse hooks, before anyone is asked anything.
HookPasses(r) ==
    /\ At(r, "hook")
    /\ task' = IF AfterHook(r) = "ask"
               THEN [task EXCEPT ![r].pc = "ask", ![r].about = "approval",
                                 ![r].target = task[r].owner]
               ELSE [task EXCEPT ![r].pc = "run"]
    /\ UNCHANGED <<tables, ending, reading, history>>

HookVetoes(r) ==
    /\ At(r, "hook")
    /\ Tool(r) \in Vetoed
    /\ EndNoted(r, "byHook")
    /\ UNCHANGED <<tables, ending, reading, delivered, hubRan, heard, quiet>>

Permits(approval) == approval \in {"once", "always"}

\* The person's answer.  An "always" is a grant in whatever session has the id.
Approved(r) ==
    /\ At(r, "decide")
    /\ Permits(task[r].approval)
    /\ sessions' = IF task[r].approval = "always" /\ sessions[Sid(r)] # None
                   THEN [sessions EXCEPT ![Sid(r)].grants = @ \cup {GrantFor(Call(r))}]
                   ELSE sessions
    /\ Goto(r, "run")
    /\ UNCHANGED <<conns, servers, hubCalls, relays, calls, takeovers, ending,
                   reading, history>>

Refused(r) ==
    /\ At(r, "decide")
    /\ ~Permits(task[r].approval)
    /\ EndNoted(r, "byPerson")
    /\ UNCHANGED <<tables, ending, reading, delivered, hubRan, heard, quiet>>

-----------------------------------------------------------------------------
(***************************************************************************)
(* A permitted tool call: the hub's own tools, and the forward.            *)
(***************************************************************************)

\* secret.request: the caller is asked for the value, unless it speaks the
\* published dialect, which has no such question.
AskForSecret(r) ==
    /\ At(r, "run")
    /\ Tool(r) = SecretTool
    /\ IF From(r) \in Upstream /\ InTable(From(r))
       THEN EndUnnoted(r, "noCredential")
       ELSE /\ task' = [task EXCEPT ![r].pc = "ask", ![r].about = "credential",
                                    ![r].target = From(r)]
            /\ UNCHANGED <<answers, noted>>
    /\ UNCHANGED <<tables, ending, reading, delivered, hubRan, heard, quiet>>

\* The value is stored, or the store fails, or nobody supplied one.
StoreSecret(r) ==
    /\ At(r, "store")
    /\ \/ /\ task[r].answer = "value"
          /\ EndNoted(r, "ok")
          /\ hubRan' = hubRan \cup {r}
       \/ /\ task[r].answer = "value"
          /\ EndUnnoted(r, "failed")
          /\ UNCHANGED hubRan
       \/ /\ task[r].answer = "no"
          /\ EndUnnoted(r, "noCredential")
          /\ UNCHANGED hubRan
    /\ UNCHANGED <<tables, ending, reading, delivered, heard, quiet>>

\* A tool the hub serves: handoffs, connectors.
InvokeInternal(r) ==
    /\ At(r, "run")
    /\ Tool(r) # SecretTool
    /\ Tool(r) \in HubTools
    /\ \E how \in {"ok", "failed"} : EndNoted(r, how)
    /\ hubRan' = hubRan \cup {r}
    /\ UNCHANGED <<tables, ending, reading, delivered, heard, quiet>>

Forwards(r) == Tool(r) # SecretTool /\ Tool(r) \notin HubTools

\* The caller is connected, owns the session, and the session has a server.
Bindable(r) ==
    /\ InTable(From(r))
    /\ OwnedBy(Sid(r), From(r))
    /\ sessions[Sid(r)].server # None

\* Somebody is at the keyboard, through another session.
HeldByAnother(r) ==
    LET held == takeovers[sessions[Sid(r)].server] IN
    held # None /\ held.session # Sid(r)

\* The check before the forward, in one section ...
Route(r) ==
    /\ At(r, "run")
    /\ Forwards(r)
    /\ Bindable(r)
    /\ ~HeldByAnother(r)
    /\ servers[sessions[Sid(r)].server] # None
    /\ task' = [task EXCEPT ![r].pc = "forward",
                            ![r].target = servers[sessions[Sid(r)].server]]
    /\ UNCHANGED <<tables, ending, reading, history>>

CannotRoute(r) ==
    /\ At(r, "run")
    /\ Forwards(r)
    /\ \/ ~Bindable(r) /\ EndUnnoted(r, "unrouted")
       \/ Bindable(r) /\ HeldByAnother(r) /\ EndUnnoted(r, "takenOver")
       \/ /\ Bindable(r) /\ ~HeldByAnother(r)
          /\ servers[sessions[Sid(r)].server] = None
          /\ EndUnnoted(r, "unrouted")
    /\ UNCHANGED <<tables, ending, reading, delivered, hubRan, heard, quiet>>

\* ... and the forward, in another: the relay, the call id, the frame.  A call
\* id somebody else is using is taken over.
Forward(r) ==
    /\ At(r, "forward")
    /\ relays' = [relays EXCEPT ![r] = task[r].target]
    /\ calls' = [calls EXCEPT ![CallId(r)] =
                   [origin |-> From(r), server |-> task[r].target]]
    /\ delivered' = IF conns[task[r].target] = "up"
                    THEN [delivered EXCEPT ![r] = task[r].target] ELSE delivered
    /\ Goto(r, "done")
    /\ UNCHANGED <<conns, servers, sessions, hubCalls, takeovers, ending, reading,
                   answers, noted, hubRan, heard, quiet>>

-----------------------------------------------------------------------------
(***************************************************************************)
(* A forwarded call: progress, and its three endings.                      *)
(***************************************************************************)

\* Every ending finds the relay and none removes it.
EndRelayKept(r, how, by) ==
    /\ ending' = [ending EXCEPT ![r] = [how |-> how, by |-> by, retired |-> FALSE]]
    /\ UNCHANGED <<conns, servers, sessions, hubCalls, relays, calls, takeovers,
                   task, reading, answers, noted, delivered, hubRan, heard>>

\* The relay leaves the table with its ending: whoever removes it finishes it.
EndRelay(r, how, by) ==
    /\ relays' = [relays EXCEPT ![r] = None]
    /\ ending' = [ending EXCEPT ![r] = [how |-> how, by |-> by, retired |-> FALSE]]
    /\ UNCHANGED <<conns, servers, sessions, hubCalls, calls, takeovers, task,
                   reading, answers, noted, delivered, hubRan, heard>>

\* Only the connection the call was sent to ends it with a response.
MayEnd(c, r) == relays[r] = c

\* on_response: the guest's result or error.
ServerAnswers(c, r) ==
    /\ relays[r] # None
    /\ MayEnd(c, r)
    /\ conns[c] = "up"
    /\ Idle(c)
    /\ quiet' = quiet \cup {r}
    /\ \E how \in {"ok", "failed"} : EndRelay(r, how, c)

\* The timer is never armed.
NoDeadline(r) == FALSE

\* The deadline task of the call.
Deadline(r) ==
    /\ relays[r] # None
    /\ EndRelay(r, "deadline", None)
    /\ UNCHANGED quiet

\* The call id is retired and nothing is written down.
RetireUnnoted(r) ==
    /\ ending[r] # None
    /\ ~ending[r].retired
    /\ calls' = [calls EXCEPT ![CallId(r)] = None]
    /\ ending' = [ending EXCEPT ![r].retired = TRUE]
    /\ UNCHANGED <<conns, servers, sessions, hubCalls, relays, takeovers, task,
                   reading, answers, noted, delivered, hubRan, heard, quiet>>

\* finish_relay: the call id is retired and the ending noted ...
Retire(r) ==
    /\ ending[r] # None
    /\ ~ending[r].retired
    /\ calls' = [calls EXCEPT ![CallId(r)] = None]
    /\ noted' = Noted(r, ending[r].how)
    /\ ending' = [ending EXCEPT ![r].retired = TRUE]
    /\ UNCHANGED <<conns, servers, sessions, hubCalls, relays, takeovers, task,
                   reading, answers, delivered, hubRan, heard, quiet>>

\* ... before the answer is sent.
Finish(r) ==
    /\ ending[r] # None
    /\ ending[r].retired
    /\ answers' = Answered(r, ending[r].how)
    /\ ending' = [ending EXCEPT ![r] = None]
    /\ UNCHANGED <<tables, task, reading, noted, delivered, hubRan, heard, quiet>>

\* Where a progress frame of guest c about call r is relayed: nowhere when c is
\* not the connection running the call of that id.
ProgressTo(c, r) ==
    LET call == calls[CallId(r)] IN
    IF call # None /\ call.server = c THEN call.origin ELSE None

\* on_notification: the guest reports progress, before its answer; the hub
\* looks up who to tell ...
Progress(c, r) ==
    /\ delivered[r] = c
    /\ r \notin quiet
    /\ conns[c] = "up"
    /\ Idle(c)
    /\ quiet' = quiet \cup {r}
    /\ reading' = [reading EXCEPT ![c] =
         IF ProgressTo(c, r) = None THEN None
         ELSE [req |-> r, to |-> ProgressTo(c, r)]]
    /\ UNCHANGED <<tables, task, ending, answers, noted, delivered, hubRan, heard>>

\* ... and tells them.
RelayProgress(c) ==
    /\ reading[c] # None
    /\ heard' = IF InTable(reading[c].to)
                THEN heard \cup {[req |-> reading[c].req, to |-> reading[c].to,
                                  late |-> answers[reading[c].req] # <<>>]}
                ELSE heard
    /\ reading' = [reading EXCEPT ![c] = None]
    /\ UNCHANGED <<tables, task, ending, answers, noted, delivered, hubRan, quiet>>

-----------------------------------------------------------------------------
(***************************************************************************)
(* The hub.                                                                *)
(***************************************************************************)

\* A step of the task of request r.
RequestStep(r) ==
    \/ Open(r) \/ Close(r) \/ Serve(r) \/ BindLookup(r) \/ Bound(r)
    \/ TakeOver(r) \/ Release(r)
    \/ Ask(r) \/ GiveUp(r)
    \/ CallReplayed(r) \/ CallLive(r) \/ ConsultPolicy(r) \/ NoSuchSession(r)
    \/ HookPasses(r) \/ HookVetoes(r) \/ Approved(r) \/ Refused(r)
    \/ AskForSecret(r) \/ StoreSecret(r) \/ InvokeInternal(r)
    \/ Route(r) \/ CannotRoute(r) \/ Forward(r)

\* A step of the ending of a forwarded call.
EndingStep(r) == Deadline(r) \/ Retire(r) \/ Finish(r)

\* What the peers do: connect, leave, ask, answer, report.
PeerStep ==
    \/ \E c \in Conns : Connect(c) \/ LoseAck(c) \/ Disconnect(c)
    \/ \E r \in Requests : Arrive(r)
    \/ \E c \in Conns, r \in Requests : Answer(c, r)
    \/ \E c \in Guests, r \in Requests : ServerAnswers(c, r) \/ Progress(c, r)

Next ==
    \/ PeerStep
    \/ \E r \in Requests : RequestStep(r) \/ EndingStep(r)
    \/ \E c \in Guests : FailCalls(c) \/ RelayProgress(c)

\* The hub's tasks run, its timers fire; the peers owe nothing.
Fairness ==
    /\ \A r \in Requests : WF_vars(RequestStep(r)) /\ WF_vars(EndingStep(r))
    /\ \A c \in Guests : WF_vars(FailCalls(c)) /\ WF_vars(RelayProgress(c))

Spec     == Init /\ [][Next]_vars
FairSpec == Spec /\ Fairness

-----------------------------------------------------------------------------
(***************************************************************************)
(* Tool calls: one answer, the right one, and a record that agrees.         *)
(***************************************************************************)

Ran(r) == delivered[r] # None \/ r \in hubRan

\* A call is answered at most once, whichever of the server's response, the
\* server's disconnect and the deadline come (finish_relay).
AnsweredOnce == \A r \in Requests : Len(answers[r]) <= 1

\* A call that reached a guest does not stay in flight once the guest is gone
\* (disconnect and fail_calls_targeting).
CrashEndsItsCalls ==
    \A r \in Requests :
        relays[r] # None /\ delivered[r] # None => conns[relays[r]] \in {"up", "leaving"}

\* What the record says of a call is what its caller was told, and a call that
\* reached a guest is in the record before its caller is told (finish_relay).
RecordAgrees ==
    \A r \in Requests :
        /\ answers[r] # <<>>
        /\ noted[r] # <<>> \/ (delivered[r] # None /\ task[r].bot)
        => noted[r] = answers[r]

\* Every entry of the call table belongs to a call still in flight, which is
\* what inflight_calls is for.
NoLeakedCall ==
    \A i \in CallIds :
        calls[i] # None =>
            \E r \in ToolCalls :
                /\ CallId(r) = i
                /\ From(r) = calls[i].origin
                /\ relays[r] # None \/ (ending[r] # None /\ ~ending[r].retired)

\* The record and the table tell of each call what became of it.
CallsAreAccountedFor == RecordAgrees /\ NoLeakedCall

\* Progress is relayed only to a caller whose own call of that id was sent to
\* the guest that reports it (InFlight.server).
ProgressComesFromTheRunner ==
    \A f \in heard :
        \E r \in ToolCalls : /\ From(r) = f.to
                             /\ CallId(r) = CallId(f.req)
                             /\ delivered[r] = delivered[f.req]

\* Progress about a call that already has its answer is only ever heard when a
\* deadline ended the call: a guest's own response comes after its progress.
LateOnlyAfterADeadline ==
    \A f \in heard : f.late => answers[f.req] = <<"deadline">>

\* A caller hears of a call of its own, while it runs or after it gave up on it.
ProgressIsOfOnesOwn == ProgressComesFromTheRunner /\ LateOnlyAfterADeadline

\* Every tool call is answered, unless its caller left (call_timeout,
\* approval_timeout, bind_timeout and fail_calls_targeting together).
EveryCallEnds ==
    \A r \in ToolCalls :
        At(r, "call") ~> (answers[r] # <<>> \/ ~InTable(From(r)))

-----------------------------------------------------------------------------
(***************************************************************************)
(* Approvals.                                                              *)
(***************************************************************************)

\* What the policy, or the connection that owned the session when the policy
\* was read, said lets the call run.
Permitted(r) ==
    \/ task[r].verdict = "allow"
    \/ /\ task[r].verdict = "ask"
       /\ Permits(task[r].approval)
       /\ task[r].by = task[r].owner

\* Nothing runs, on a computer or in the hub, unless the policy allowed it or
\* the connection that owned the session when the policy was read said so.
OnlyPermittedCallsRun == \A r \in Requests : Ran(r) => Permitted(r)

\* Every grant of a session was given by the harness that owned a session of
\* that id when it was asked about this very kind of call, in a response: a
\* hook_reply, whose "always" counts as one approval, never leaves a grant behind
\* (on_response, on_hook_reply, hook_reply_decision).
GrantsWereGiven ==
    \A s \in Sessions :
        sessions[s] # None =>
            \A g \in sessions[s].grants \ DefaultPolicy.grants :
                \E r \in ToolCalls :
                    /\ Sid(r) = s
                    /\ GrantFor(Call(r)) = g
                    /\ task[r].approval = "always"
                    /\ task[r].by = task[r].owner
                    /\ task[r].by \in Harnesses
                    /\ task[r].via = "response"

-----------------------------------------------------------------------------
(***************************************************************************)
(* Sessions, computers and the people at them.                             *)
(***************************************************************************)

\* A session never changes hands: another connection has it only after it was
\* closed or its owner left (session_open).
OwnersKept ==
    \A s \in Sessions :
        sessions[s] # None /\ sessions'[s] # None
          => sessions'[s].owner = sessions[s].owner

SessionKeepsItsOwner == [][OwnersKept]_vars

\* A computer somebody took over is given back by that connection or by its
\* leaving, and by nothing else (computer_release, disconnect).
GivenBackByHolder ==
    \A v \in Servers :
        takeovers[v] # None /\ takeovers'[v] # takeovers[v] =>
            /\ takeovers'[v] = None
            /\ LET holder == takeovers[v].holder IN
               \/ conns[holder] = "up" /\ conns'[holder] \in {"leaving", "down"}
               \/ \E r \in Requests : /\ At(r, "release")
                                      /\ From(r) = holder
                                      /\ Req[r].server = v

OnlyTheHolderGivesBack == [][GivenBackByHolder]_vars

\* A registration is dropped only by its own connection's leaving and replaced
\* only by a newer connection of the same server (register, disconnect).
RegistrationKept ==
    \A v \in Servers :
        servers[v] # None /\ servers'[v] # servers[v] =>
            \/ servers'[v] = None /\ conns'[servers[v]] = "leaving"
            \/ servers'[v] # None /\ conns[servers'[v]] = "new"

RegistrationFollowsItsConnection == [][RegistrationKept]_vars

-----------------------------------------------------------------------------
(***************************************************************************)
(* Replay.                                                                 *)
(***************************************************************************)

\* A replay moves forward one recorded call at a time, each answered by the
\* step it matches, and nothing moves it once it has diverged (from_the_record).
ReplayAdvances ==
    \A s \in Sessions :
        /\ sessions[s] # None /\ sessions'[s] # None
        /\ sessions'[s].by = sessions[s].by
        /\ sessions[s].replay # None /\ sessions'[s].replay # sessions[s].replay
        => LET was == sessions[s].replay
               now == sessions'[s].replay IN
           /\ ~was.diverged
           /\ now.diverged => now.at = was.at
           /\ ~now.diverged =>
                /\ now.at = was.at + 1
                /\ \E r \in ToolCalls :
                      /\ At(r, "call")
                      /\ Call(r) = Recorded[now.at]
                      /\ ~InTable(From(r)) \/ answers'[r] = <<"recorded">>

ReplayFollowsTheRecord == [][ReplayAdvances]_vars
=============================================================================
