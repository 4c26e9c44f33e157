------------------------------ MODULE HubProofs ------------------------------
(***************************************************************************)
(* Theorems about Hub, for every set of connections, sessions, call ids and  *)
(* requests, in three parts: types, one answer to a call, nothing run that   *)
(* was not permitted, sessions kept by their owners, the computer given back  *)
(* by its holder; then that Hub implements Promise; then its tables and what  *)
(* it tells of a tool call.                                                  *)
(***************************************************************************)
EXTENDS Hub, HubPromise, TLAPS

-----------------------------------------------------------------------------
(***************************************************************************)
(* Types.                                                                  *)
(***************************************************************************)

\* The sections only a tool call goes through.
CallSections == {"call", "policy", "hook", "decide", "run", "store", "forward"}

\* A task is in a section of its own operation, and a question is asked for
\* the operation that asks it.
Fits(r, t) ==
    /\ t.pc \in Ops => Op(r) = t.pc
    /\ t.pc \in CallSections => Op(r) = "call"
    /\ t.pc = "bound" => Op(r) = "bind"
    /\ t.pc = "forward" => t.target \in Guests
    /\ t.pc \in {"ask", "wait"} =>
          \/ Op(r) = "call" /\ t.about \in {"approval", "credential"}
          \/ Op(r) = "bind" /\ t.about = "bind"

\* The strengthening that makes the type invariant inductive: without it
\* nothing says that the request of a step names a session or a call at all.
TasksFit    == \A r \in Requests : Fits(r, task[r])
OnlyCallsGo == \A r \in Requests : delivered[r] # None => Op(r) = "call"

TypeInv == TypeOK /\ TasksFit /\ OnlyCallsGo

\* Policy::evaluate returns one of its three verdicts.
LEMMA EvaluateType ==
    ASSUME NEW policy, policy.fallback \in Actions, NEW call
    PROVE  Evaluate(policy, call) \in Verdicts
  BY DEF Evaluate, Verdicts, Actions

\* The policy of a session keeps the fallback it was opened with.
LEMMA SessionVerdict ==
    ASSUME NEW s, NEW call
    PROVE  Evaluate(PolicyOf(s), call) \in Verdicts
<1>1. PolicyOf(s).fallback \in Actions
  BY PolicyAssumption DEF PolicyOf
<1>2. QED
  BY <1>1, EvaluateType

\* A step of one task that leaves it well typed and fitting its operation.
LEMMA TaskStep ==
    ASSUME task \in [Requests -> Task], TasksFit,
           NEW r \in Requests, NEW t \in Task, Fits(r, t),
           task' = [task EXCEPT ![r] = t]
    PROVE  task' \in [Requests -> Task] /\ TasksFit'
  BY DEF TasksFit, Fits

\* A task that moves on and learns nothing.
LEMMA GotoStep ==
    ASSUME task \in [Requests -> Task], TasksFit, NEW r \in Requests,
           NEW pc \in Sections, Goto(r, pc), Fits(r, [task[r] EXCEPT !.pc = pc])
    PROVE  task' \in [Requests -> Task] /\ TasksFit'
<1>1. [task[r] EXCEPT !.pc = pc] \in Task
  BY DEF Task
<1>2. task' = [task EXCEPT ![r] = [task[r] EXCEPT !.pc = pc]]
  BY DEF Goto
<1>3. QED
  BY <1>1, <1>2, TaskStep

\* A task that is over fits whatever its operation is.
LEMMA DoneStep ==
    ASSUME task \in [Requests -> Task], TasksFit, NEW r \in Requests,
           Goto(r, "done")
    PROVE  task' \in [Requests -> Task] /\ TasksFit'
<1>1. task[r] \in Task /\ "done" \in Sections
  BY DEF Sections
<1>2. Fits(r, [task[r] EXCEPT !.pc = "done"])
  BY <1>1 DEF Fits, Task, Ops, CallSections
<1>3. QED
  BY <1>1, <1>2, GotoStep

\* Answers and notes are lists of endings.
LEMMA AnsweredType ==
    ASSUME answers \in [Requests -> Seq(Hows)], NEW r \in Requests, NEW how \in Hows
    PROVE  Answered(r, how) \in [Requests -> Seq(Hows)]
  BY DEF Answered

LEMMA NotedType ==
    ASSUME noted \in [Requests -> Seq(Hows)], NEW r \in Requests, NEW how \in Hows
    PROVE  Noted(r, how) \in [Requests -> Seq(Hows)]
  BY DEF Noted

\* A tool call that ends unforwarded, noted or not.
LEMMA EndStep ==
    ASSUME TypeInv, NEW r \in Requests, NEW how \in Hows,
           EndNoted(r, how) \/ EndUnnoted(r, how)
    PROVE  /\ task' \in [Requests -> Task] /\ TasksFit'
           /\ answers' \in [Requests -> Seq(Hows)]
           /\ noted' \in [Requests -> Seq(Hows)]
<1>1. Goto(r, "done")
  BY DEF EndNoted, EndUnnoted
<1>2. answers' = Answered(r, how) /\ noted' \in {noted, Noted(r, how)}
  BY DEF EndNoted, EndUnnoted
<1>3. task' \in [Requests -> Task] /\ TasksFit'
  BY <1>1, DoneStep DEF TypeInv, TypeOK, TasksOK
<1>4. answers' \in [Requests -> Seq(Hows)] /\ noted' \in [Requests -> Seq(Hows)]
  BY <1>2, AnsweredType, NotedType DEF TypeInv, TypeOK, HistoryOK
<1>5. QED
  BY <1>3, <1>4

\* The initial state is well typed.
LEMMA InitTypeInv == ASSUME Init PROVE TypeInv
<1>1. TablesOK
  <2>1. conns \in [Conns -> ConnStates]
    BY DEF Init, Unused, ConnStates
  <2>2. /\ servers \in [Servers -> Guests \cup {None}]
        /\ sessions \in [Sessions -> Session \cup {None}]
        /\ hubCalls \in [Requests -> Conns \cup {None}]
    BY DEF Init, Unused
  <2>3. /\ relays \in [Requests -> Guests \cup {None}]
        /\ calls \in [CallIds -> InFlight \cup {None}]
        /\ takeovers \in [Servers -> Takeover \cup {None}]
    BY DEF Init, Unused
  <2>4. QED
    BY <2>1, <2>2, <2>3 DEF TablesOK
<1>2. NewTask \in Task
  BY DEF NewTask, Task, Sections
<1>3. TasksOK
  BY <1>2 DEF Init, Unused, TasksOK
<1>4. HistoryOK
  BY DEF Init, Unused, HistoryOK
<1>5. \A r \in Requests : Fits(r, NewTask)
  BY DEF Fits, NewTask, Ops, CallSections
<1>6. TasksFit /\ OnlyCallsGo
  BY <1>5 DEF Init, Unused, TasksFit, OnlyCallsGo
<1>7. QED
  BY <1>1, <1>3, <1>4, <1>6 DEF TypeInv, TypeOK

-----------------------------------------------------------------------------
\* Connections come and go: register, disconnect, fail_calls_targeting.
LEMMA RegisterType ==
    ASSUME TypeInv, NEW c \in Conns, NEW state \in ConnStates, Register(c, state)
    PROVE  TypeInv'
<1>1. TablesOK'
  BY ConnsAssumption DEF TypeInv, TypeOK, TablesOK, Register
<1>2. UNCHANGED <<tasks, history>>
  BY DEF Register
<1>3. QED
  BY <1>1, <1>2 DEF TypeInv, TypeOK, TasksOK, HistoryOK, TasksFit, OnlyCallsGo,
     tasks, history

LEMMA DisconnectType ==
    ASSUME TypeInv, NEW c \in Conns, Disconnect(c)
    PROVE  TypeInv'
<1>1. conns' \in [Conns -> ConnStates]
  BY DEF TypeInv, TypeOK, TablesOK, Disconnect, ConnStates
<1>2. sessions' \in [Sessions -> Session \cup {None}]
  <2>1. \A s \in Sessions : SessionWithout(c, s) \in Session \cup {None}
    <3>1. TAKE s \in Sessions
    <3>2. sessions[s] \in Session \cup {None}
      BY DEF TypeInv, TypeOK, TablesOK
    <3>3. sessions[s] \in Session =>
             [sessions[s] EXCEPT !.server = None, !.catalogue = None] \in Session
      BY DEF Session
    <3>4. QED
      BY <3>2, <3>3 DEF SessionWithout
  <2>2. QED
    BY <2>1 DEF Disconnect
<1>3. /\ servers' \in [Servers -> Guests \cup {None}]
      /\ takeovers' \in [Servers -> Takeover \cup {None}]
      /\ calls' \in [CallIds -> InFlight \cup {None}]
      /\ relays' \in [Requests -> Guests \cup {None}]
      /\ hubCalls' \in [Requests -> Conns \cup {None}]
  BY DEF TypeInv, TypeOK, TablesOK, Disconnect, ServersWithout, TakeoversWithout,
     CallsWithout
<1>4. UNCHANGED <<tasks, history>>
  BY DEF Disconnect
<1>5. QED
  BY <1>1, <1>2, <1>3, <1>4 DEF TypeInv, TypeOK, TablesOK, TasksOK, HistoryOK,
     TasksFit, OnlyCallsGo, tasks, history

LEMMA FailCallsType ==
    ASSUME TypeInv, NEW c \in Guests, FailCalls(c)
    PROVE  TypeInv'
<1>1. TablesOK'
  BY DEF TypeInv, TypeOK, TablesOK, FailCalls, ConnStates
<1>2. ending' \in [Requests -> Ending \cup {None}]
  BY DEF TypeInv, TypeOK, TasksOK, FailCalls, Ending
<1>3. UNCHANGED <<task, reading, history>>
  BY DEF FailCalls
<1>4. QED
  BY <1>1, <1>2, <1>3 DEF TypeInv, TypeOK, TasksOK, HistoryOK, TasksFit,
     OnlyCallsGo, history

-----------------------------------------------------------------------------
\* Requests and sessions.
LEMMA ArriveType ==
    ASSUME TypeInv, NEW r \in Requests, Arrive(r)
    PROVE  TypeInv'
<1>1. Op(r) \in Ops
  BY RequestsAssumption DEF Op
<1>2. Op(r) \in Sections
  BY <1>1 DEF Ops, Sections
<1>3. task[r] \in Task /\ Fits(r, [task[r] EXCEPT !.pc = Op(r)])
  BY <1>1 DEF TypeInv, TypeOK, TasksOK, Fits, Task, Ops, CallSections
<1>4. task' \in [Requests -> Task] /\ TasksFit'
  BY <1>2, <1>3, GotoStep DEF TypeInv, TypeOK, TasksOK, Arrive
<1>5. UNCHANGED <<tables, ending, reading, history>>
  BY DEF Arrive
<1>6. QED
  BY <1>4, <1>5 DEF TypeInv, TypeOK, TablesOK, TasksOK, HistoryOK, OnlyCallsGo,
     tables, history

LEMMA OpenType ==
    ASSUME TypeInv, NEW r \in Requests, Open(r)
    PROVE  TypeInv'
<1>1. Op(r) = "open"
  BY DEF TypeInv, TasksFit, Fits, Open, At, Ops
<1>2. sessions' \in [Sessions -> Session \cup {None}]
  <2>1. /\ From(r) \in Conns
        /\ DefaultPolicy.grants \subseteq Grants
        /\ Req[r].bot \in BOOLEAN
    BY <1>1, RequestsAssumption DEF Grants, From, Op
  <2> DEFINE fresh(replay) ==
               [owner |-> From(r), server |-> None, catalogue |-> None,
                grants |-> DefaultPolicy.grants, bot |-> Req[r].bot,
                replay |-> replay, by |-> r]
  <2>2. \A replay \in Replaying \cup {None} : fresh(replay) \in Session
    BY <2>1 DEF Session
  <2>3. [at |-> 0, diverged |-> FALSE] \in Replaying
    BY DEF Replaying
  <2>4. CASE UNCHANGED sessions
    BY <2>4 DEF TypeInv, TypeOK, TablesOK
  <2>5. CASE \E s \in Sessions, replay \in Replaying \cup {None} :
                sessions' = [sessions EXCEPT ![s] = fresh(replay)]
    BY <2>2, <2>5 DEF TypeInv, TypeOK, TablesOK
  <2>6. QED
    BY <2>3, <2>4, <2>5 DEF Open
<1>3. task' \in [Requests -> Task] /\ TasksFit'
  BY DoneStep DEF TypeInv, TypeOK, TasksOK, Open
<1>4. UNCHANGED <<conns, servers, hubCalls, relays, calls, takeovers, ending,
                  reading, history>>
  BY DEF Open
<1>5. QED
  BY <1>2, <1>3, <1>4 DEF TypeInv, TypeOK, TablesOK, TasksOK, HistoryOK,
     OnlyCallsGo, history

LEMMA CloseType ==
    ASSUME TypeInv, NEW r \in Requests, Close(r)
    PROVE  TypeInv'
<1>1. sessions' \in [Sessions -> Session \cup {None}]
  BY DEF TypeInv, TypeOK, TablesOK, Close
<1>2. task' \in [Requests -> Task] /\ TasksFit'
  BY DoneStep DEF TypeInv, TypeOK, TasksOK, Close
<1>3. UNCHANGED <<conns, servers, hubCalls, relays, calls, takeovers, ending,
                  reading, history>>
  BY DEF Close
<1>4. QED
  BY <1>1, <1>2, <1>3 DEF TypeInv, TypeOK, TablesOK, TasksOK, HistoryOK,
     OnlyCallsGo, history

LEMMA ServeType ==
    ASSUME TypeInv, NEW r \in Requests, Serve(r)
    PROVE  TypeInv'
<1>1. From(r) \in Conns
  BY RequestsAssumption DEF From
<1>2. sessions' \in [Sessions -> Session \cup {None}]
  <2>1. \A s \in Session : [s EXCEPT !.catalogue = From(r)] \in Session
    BY <1>1 DEF Session
  <2>2. QED
    BY <2>1 DEF TypeInv, TypeOK, TablesOK, Serve
<1>3. task' \in [Requests -> Task] /\ TasksFit'
  BY DoneStep DEF TypeInv, TypeOK, TasksOK, Serve
<1>4. UNCHANGED <<conns, servers, hubCalls, relays, calls, takeovers, ending,
                  reading, history>>
  BY DEF Serve
<1>5. QED
  BY <1>2, <1>3, <1>4 DEF TypeInv, TypeOK, TablesOK, TasksOK, HistoryOK,
     OnlyCallsGo, history

LEMMA BindLookupType ==
    ASSUME TypeInv, NEW r \in Requests, BindLookup(r)
    PROVE  TypeInv'
<1> DEFINE server == servers[Req[r].server]
<1>1. Op(r) = "bind"
  BY DEF TypeInv, TasksFit, Fits, BindLookup, At, Ops
<1>2. server \in Guests \cup {None}
  BY <1>1, RequestsAssumption DEF TypeInv, TypeOK, TablesOK, Op
<1>3. task' \in [Requests -> Task] /\ TasksFit'
  <2>1. CASE Goto(r, "done")
    BY <2>1, DoneStep DEF TypeInv, TypeOK, TasksOK
  <2>2. CASE /\ server # None
             /\ task' = [task EXCEPT ![r].pc = "ask", ![r].about = "bind",
                                     ![r].target = server]
    <3> DEFINE t == [task[r] EXCEPT !.pc = "ask", !.about = "bind",
                                    !.target = server]
    <3>1. task[r] \in Task /\ server \in Conns
      BY <1>2, <2>2 DEF TypeInv, TypeOK, TasksOK, Conns
    <3>2. t \in Task
      BY <3>1 DEF Task, Sections
    <3>3. t.pc = "ask" /\ t.about = "bind"
      BY <3>1 DEF Task
    <3>4. Fits(r, t)
      BY <1>1, <3>3 DEF Fits, Ops, CallSections
    <3>5. task' = [task EXCEPT ![r] = t]
      BY <2>2
    <3>6. QED
      BY <3>2, <3>4, <3>5, TaskStep DEF TypeInv, TypeOK, TasksOK
  <2>3. QED
    BY <2>1, <2>2 DEF BindLookup
<1>4. UNCHANGED <<tables, ending, reading, history>>
  BY DEF BindLookup
<1>5. QED
  BY <1>3, <1>4 DEF TypeInv, TypeOK, TablesOK, TasksOK, HistoryOK, OnlyCallsGo,
     tables, history

LEMMA BoundType ==
    ASSUME TypeInv, NEW r \in Requests, Bound(r)
    PROVE  TypeInv'
<1>1. Op(r) = "bind"
  BY DEF TypeInv, TasksFit, Fits, Bound, At
<1>2. Req[r].server \in Servers
  BY <1>1, RequestsAssumption DEF Op
<1>3. sessions' \in [Sessions -> Session \cup {None}]
  <2>1. task[r].target \in Conns \cup {None}
    BY DEF TypeInv, TypeOK, TasksOK, Task
  <2>2. \A s \in Session :
           [s EXCEPT !.server = Req[r].server, !.catalogue = task[r].target] \in Session
    BY <1>2, <2>1 DEF Session
  <2>3. QED
    BY <2>2 DEF TypeInv, TypeOK, TablesOK, Bound
<1>4. task' \in [Requests -> Task] /\ TasksFit'
  BY DoneStep DEF TypeInv, TypeOK, TasksOK, Bound
<1>5. UNCHANGED <<conns, servers, hubCalls, relays, calls, takeovers, ending,
                  reading, history>>
  BY DEF Bound
<1>6. QED
  BY <1>3, <1>4, <1>5 DEF TypeInv, TypeOK, TablesOK, TasksOK, HistoryOK,
     OnlyCallsGo, history

-----------------------------------------------------------------------------
\* A person at the keyboard.
LEMMA TakeOverType ==
    ASSUME TypeInv, NEW r \in Requests, TakeOver(r)
    PROVE  TypeInv'
<1>1. Op(r) = "takeover"
  BY DEF TypeInv, TasksFit, Fits, TakeOver, At, Ops
<1>2. [holder |-> From(r), session |-> Sid(r)] \in Takeover
  BY <1>1, RequestsAssumption DEF Takeover, From, Sid, Op
<1>3. takeovers' \in [Servers -> Takeover \cup {None}]
  BY <1>2 DEF TypeInv, TypeOK, TablesOK, TakeOver
<1>4. task' \in [Requests -> Task] /\ TasksFit'
  BY DoneStep DEF TypeInv, TypeOK, TasksOK, TakeOver
<1>5. UNCHANGED <<conns, servers, sessions, hubCalls, relays, calls, ending,
                  reading, history>>
  BY DEF TakeOver
<1>6. QED
  BY <1>3, <1>4, <1>5 DEF TypeInv, TypeOK, TablesOK, TasksOK, HistoryOK,
     OnlyCallsGo, history

LEMMA ReleaseType ==
    ASSUME TypeInv, NEW r \in Requests, Release(r)
    PROVE  TypeInv'
<1>1. takeovers' \in [Servers -> Takeover \cup {None}]
  BY DEF TypeInv, TypeOK, TablesOK, Release
<1>2. task' \in [Requests -> Task] /\ TasksFit'
  BY DoneStep DEF TypeInv, TypeOK, TasksOK, Release
<1>3. UNCHANGED <<conns, servers, sessions, hubCalls, relays, calls, ending,
                  reading, history>>
  BY DEF Release
<1>4. QED
  BY <1>1, <1>2, <1>3 DEF TypeInv, TypeOK, TablesOK, TasksOK, HistoryOK,
     OnlyCallsGo, history

-----------------------------------------------------------------------------
\* Questions the hub asks.
LEMMA AskType ==
    ASSUME TypeInv, NEW r \in Requests, Ask(r)
    PROVE  TypeInv'
<1>1. task[r] \in Task /\ task[r].pc = "ask" /\ Fits(r, task[r])
  BY DEF TypeInv, TypeOK, TasksOK, TasksFit, Ask, At
<1>2. hubCalls' \in [Requests -> Conns \cup {None}]
  BY <1>1 DEF TypeInv, TypeOK, TablesOK, Ask, Task
<1>3. Fits(r, [task[r] EXCEPT !.pc = "wait"])
  BY <1>1 DEF Fits, Task, Ops, CallSections
<1>4. task' \in [Requests -> Task] /\ TasksFit'
  BY <1>3, GotoStep DEF TypeInv, TypeOK, TasksOK, Ask, Sections
<1>5. UNCHANGED <<conns, servers, sessions, relays, calls, takeovers, ending,
                  reading, history>>
  BY DEF Ask
<1>6. QED
  BY <1>2, <1>4, <1>5 DEF TypeInv, TypeOK, TablesOK, TasksOK, HistoryOK,
     OnlyCallsGo, history

\* A task that wakes up goes to the section that handles its answer.
LEMMA WakeStep ==
    ASSUME TypeInv, NEW r \in Requests, At(r, "wait"),
           NEW c \in Conns \cup {None}, NEW via \in Replies \cup {None},
           NEW answer \in {"once", "always", "no", "value", "tools"},
           answer = "no" \/ answer \in AnswersIn(via, task[r].about),
           Wake(r, c, via, answer)
    PROVE  task' \in [Requests -> Task] /\ TasksFit'
<1> DEFINE about == task[r].about
<1>1. task[r] \in Task /\ Fits(r, task[r]) /\ task[r].pc = "wait"
  BY DEF TypeInv, TypeOK, TasksOK, TasksFit, At
<1>2. CASE about = "approval"
  <2> DEFINE t == [task[r] EXCEPT !.pc = "decide", !.approval = answer, !.by = c,
                        !.via = via]
  <2>1. answer \in {"once", "always", "no"}
    BY <1>2 DEF AnswersIn, Responses, HookReplies
  <2> DEFINE u == [task[r] EXCEPT !.pc = "decide", !.approval = answer]
  <2>2. u \in Task /\ u.pc = "decide" /\ u.about = about /\ u.verdict = task[r].verdict
    BY <1>1, <2>1 DEF Task, Sections
  <2>3. t = [u EXCEPT !.by = c, !.via = via]
    OBVIOUS
  <2>4. t \in Task /\ t.pc = "decide" /\ t.about = about
    <3> HIDE DEF t, u
    <3> QED
      BY <2>2, <2>3 DEF Task
  <2>5. Fits(r, t)
    BY <1>1, <1>2, <2>4 DEF Fits, Ops, CallSections
  <2>6. task' = [task EXCEPT ![r] = t]
    BY <1>2 DEF Wake, After
  <2>7. QED
    BY <2>4, <2>5, <2>6, TaskStep DEF TypeInv, TypeOK, TasksOK
<1>3. CASE about \in {"credential", "bind"}
  <2> DEFINE t == [task[r] EXCEPT !.pc = After(about), !.answer = answer]
  <2>1. answer \in {"value", "tools", "no"}
    BY <1>3 DEF AnswersIn, Responses, HookReplies
  <2>2. /\ about = "credential" => After(about) = "store"
        /\ about = "bind" => After(about) = "bound"
    BY DEF After
  <2>3. After(about) \in Sections
    BY <1>3, <2>2 DEF Sections
  <2>4. t \in Task /\ t.pc = After(about)
    BY <1>1, <2>1, <2>3 DEF Task
  <2>5. Fits(r, t)
    BY <1>1, <1>3, <2>2, <2>4 DEF Fits, Ops, CallSections
  <2>6. task' = [task EXCEPT ![r] = t]
    BY <1>3 DEF Wake
  <2>7. QED
    BY <2>4, <2>5, <2>6, TaskStep DEF TypeInv, TypeOK, TasksOK
<1>4. QED
  BY <1>1, <1>2, <1>3 DEF Fits

LEMMA AnswerType ==
    ASSUME TypeInv, NEW c \in Conns, NEW r \in Requests, Answer(c, r)
    PROVE  TypeInv'
<1>1. PICK via, answer : /\ via \in Replies
                          /\ answer \in AnswersIn(via, task[r].about)
                          /\ Wake(r, c, via, answer)
  BY DEF Answer
<1>2. answer \in {"once", "always", "no", "value", "tools"}
  BY <1>1 DEF AnswersIn, Responses, HookReplies
<1>3. task' \in [Requests -> Task] /\ TasksFit'
  BY <1>1, <1>2, WakeStep DEF Answer
<1>4. hubCalls' \in [Requests -> Conns \cup {None}]
  BY DEF TypeInv, TypeOK, TablesOK, Answer
<1>5. UNCHANGED <<conns, servers, sessions, relays, calls, takeovers, ending,
                  reading, history>>
  BY DEF Answer
<1>6. QED
  BY <1>3, <1>4, <1>5 DEF TypeInv, TypeOK, TablesOK, TasksOK, HistoryOK,
     OnlyCallsGo, history

LEMMA GiveUpType ==
    ASSUME TypeInv, NEW r \in Requests, GiveUp(r)
    PROVE  TypeInv'
<1>1. task' \in [Requests -> Task] /\ TasksFit'
  BY WakeStep DEF GiveUp
<1>2. hubCalls' \in [Requests -> Conns \cup {None}]
  BY DEF TypeInv, TypeOK, TablesOK, GiveUp
<1>3. UNCHANGED <<conns, servers, sessions, relays, calls, takeovers, ending,
                  reading, history>>
  BY DEF GiveUp
<1>4. QED
  BY <1>1, <1>2, <1>3 DEF TypeInv, TypeOK, TablesOK, TasksOK, HistoryOK,
     OnlyCallsGo, history

-----------------------------------------------------------------------------
\* A tool call, up to the moment it runs.
LEMMA CallReplayedType ==
    ASSUME TypeInv, NEW r \in Requests, CallReplayed(r)
    PROVE  TypeInv'
<1> DEFINE s == sessions[Sid(r)]
<1>1. Op(r) = "call"
  BY DEF TypeInv, TasksFit, Fits, CallReplayed, At, Ops
<1>2. s \in Session
  BY <1>1, RequestsAssumption DEF TypeInv, TypeOK, TablesOK, CallReplayed, Sid, Op
<1>3. s.replay \in Replaying
  BY <1>2 DEF CallReplayed, Session
<1>4. \A replay \in Replaying : [s EXCEPT !.replay = replay] \in Session
  BY <1>2 DEF Session
<1>5. Advanced(s.replay, r) \in Replaying
  <2>1. s.replay.at \in Nat /\ s.replay.diverged \in BOOLEAN
    BY <1>3 DEF Replaying
  <2>2. [s.replay EXCEPT !.at = s.replay.at + 1] \in Replaying
    BY <1>3, <2>1 DEF Replaying
  <2>3. [s.replay EXCEPT !.diverged = TRUE] \in Replaying
    BY <1>3 DEF Replaying
  <2>4. QED
    BY <2>2, <2>3 DEF Advanced
<1>6. sessions' = [sessions EXCEPT ![Sid(r)] =
                     [s EXCEPT !.replay = Advanced(s.replay, r)]]
  BY DEF CallReplayed
<1>7. sessions' \in [Sessions -> Session \cup {None}]
  BY <1>4, <1>5, <1>6 DEF TypeInv, TypeOK, TablesOK
<1>8. /\ task' \in [Requests -> Task] /\ TasksFit'
      /\ answers' \in [Requests -> Seq(Hows)]
      /\ noted' \in [Requests -> Seq(Hows)]
  <2>1. \E how \in {"recorded", "diverged"} : EndUnnoted(r, how)
    BY DEF CallReplayed
  <2>2. QED
    BY <2>1, EndStep DEF Hows
<1>9. UNCHANGED <<conns, servers, hubCalls, relays, calls, takeovers, ending,
                  reading, delivered, hubRan, heard, quiet>>
  BY DEF CallReplayed
<1>10. QED
  BY <1>7, <1>8, <1>9 DEF TypeInv, TypeOK, TablesOK, TasksOK, HistoryOK,
     OnlyCallsGo

LEMMA CallLiveType ==
    ASSUME TypeInv, NEW r \in Requests, CallLive(r)
    PROVE  TypeInv'
<1>1. task[r] \in Task /\ Op(r) = "call"
  BY DEF TypeInv, TypeOK, TasksOK, TasksFit, Fits, CallLive, At, Ops
<1>2. Fits(r, [task[r] EXCEPT !.pc = "policy"])
  BY <1>1 DEF Fits, Task, Ops, CallSections
<1>3. task' \in [Requests -> Task] /\ TasksFit'
  BY <1>2, GotoStep DEF TypeInv, TypeOK, TasksOK, CallLive, Sections
<1>4. UNCHANGED <<tables, ending, reading, history>>
  BY DEF CallLive
<1>5. QED
  BY <1>3, <1>4 DEF TypeInv, TypeOK, TablesOK, TasksOK, HistoryOK, OnlyCallsGo,
     tables, history

LEMMA ConsultPolicyType ==
    ASSUME TypeInv, NEW r \in Requests, ConsultPolicy(r)
    PROVE  TypeInv'
<1> DEFINE s       == sessions[Sid(r)]
           verdict == Evaluate(PolicyOf(Sid(r)), Call(r))
           pc      == IF verdict = "deny" THEN "done" ELSE "hook"
           t       == [task[r] EXCEPT !.pc = pc, !.verdict = verdict,
                                      !.owner = s.owner, !.bot = s.bot]
<1>1. task[r] \in Task /\ Op(r) = "call"
  BY DEF TypeInv, TypeOK, TasksOK, TasksFit, Fits, ConsultPolicy, At, CallSections
<1>2. s \in Session
  BY <1>1, RequestsAssumption DEF TypeInv, TypeOK, TablesOK, ConsultPolicy, Sid, Op
<1>3. s.owner \in Conns /\ s.bot \in BOOLEAN
  BY <1>2 DEF Session
<1>4. verdict \in Verdicts
  BY SessionVerdict
<1>5. t \in Task /\ t.pc = pc
  BY <1>1, <1>3, <1>4 DEF Task, Sections
<1>6. Fits(r, t)
  BY <1>1, <1>5 DEF Fits, Ops, CallSections
<1>7. task' = [task EXCEPT ![r] = t]
  BY DEF ConsultPolicy
<1>8. task' \in [Requests -> Task] /\ TasksFit'
  BY <1>5, <1>6, <1>7, TaskStep DEF TypeInv, TypeOK, TasksOK
<1>9. answers' \in [Requests -> Seq(Hows)] /\ noted' \in [Requests -> Seq(Hows)]
  <2>1. "byPolicy" \in Hows
    BY DEF Hows
  <2>2. answers' \in {answers, Answered(r, "byPolicy")}
    BY DEF ConsultPolicy
  <2>3. noted' \in {noted, [noted EXCEPT ![r] = Append(@, "byPolicy")]}
    BY DEF ConsultPolicy
  <2>4. [noted EXCEPT ![r] = Append(@, "byPolicy")] \in [Requests -> Seq(Hows)]
    BY <2>1 DEF TypeInv, TypeOK, HistoryOK
  <2>5. Answered(r, "byPolicy") \in [Requests -> Seq(Hows)]
    BY <2>1, AnsweredType DEF TypeInv, TypeOK, HistoryOK
  <2>6. QED
    BY <2>2, <2>3, <2>4, <2>5 DEF TypeInv, TypeOK, HistoryOK
<1>10. UNCHANGED <<tables, ending, reading, delivered, hubRan, heard, quiet>>
  BY DEF ConsultPolicy
<1>11. QED
  BY <1>8, <1>9, <1>10 DEF TypeInv, TypeOK, TablesOK, TasksOK, HistoryOK,
     OnlyCallsGo, tables

\* The steps that do nothing but end a tool call.
LEMMA EndOnlyType ==
    ASSUME TypeInv, NEW r \in Requests, NEW how \in Hows,
           EndNoted(r, how) \/ EndUnnoted(r, how), hubRan' \subseteq Requests,
           UNCHANGED <<tables, ending, reading, delivered, heard, quiet>>
    PROVE  TypeInv'
<1>1. /\ task' \in [Requests -> Task] /\ TasksFit'
      /\ answers' \in [Requests -> Seq(Hows)]
      /\ noted' \in [Requests -> Seq(Hows)]
  BY EndStep
<1>2. QED
  BY <1>1 DEF TypeInv, TypeOK, TablesOK, TasksOK, HistoryOK, OnlyCallsGo, tables

LEMMA RefusalType ==
    ASSUME TypeInv, NEW r \in Requests,
           NoSuchSession(r) \/ HookVetoes(r) \/ Refused(r) \/ CannotRoute(r)
    PROVE  TypeInv'
<1>1. \E how \in {"noSession", "byHook", "byPerson", "unrouted", "takenOver"} :
         EndNoted(r, how) \/ EndUnnoted(r, how)
  BY DEF NoSuchSession, HookVetoes, Refused, CannotRoute
<1>2. UNCHANGED <<tables, ending, reading, delivered, hubRan, heard, quiet>>
  BY DEF NoSuchSession, HookVetoes, Refused, CannotRoute
<1>3. hubRan' \subseteq Requests
  BY <1>2 DEF TypeInv, TypeOK, HistoryOK
<1>4. QED
  BY <1>1, <1>2, <1>3, EndOnlyType DEF Hows

LEMMA InternalType ==
    ASSUME TypeInv, NEW r \in Requests, StoreSecret(r) \/ InvokeInternal(r)
    PROVE  TypeInv'
<1>1. \E how \in {"ok", "failed", "noCredential"} :
         EndNoted(r, how) \/ EndUnnoted(r, how)
  BY DEF StoreSecret, InvokeInternal
<1>2. UNCHANGED <<tables, ending, reading, delivered, heard, quiet>>
  BY DEF StoreSecret, InvokeInternal
<1>3. hubRan' \subseteq Requests
  BY DEF StoreSecret, InvokeInternal, TypeInv, TypeOK, HistoryOK
<1>4. QED
  BY <1>1, <1>2, <1>3, EndOnlyType DEF Hows

LEMMA HookPassesType ==
    ASSUME TypeInv, NEW r \in Requests, HookPasses(r)
    PROVE  TypeInv'
<1>1. task[r] \in Task /\ Op(r) = "call"
  BY DEF TypeInv, TypeOK, TasksOK, TasksFit, Fits, HookPasses, At, CallSections
<1>2. task' \in [Requests -> Task] /\ TasksFit'
  <2>1. CASE AfterHook(r) = "ask"
    <3> DEFINE t == [task[r] EXCEPT !.pc = "ask", !.about = "approval",
                                    !.target = task[r].owner]
    <3>1. t \in Task /\ t.pc = "ask" /\ t.about = "approval"
      BY <1>1 DEF Task, Sections
    <3>2. Fits(r, t)
      BY <1>1, <3>1 DEF Fits, Ops, CallSections
    <3>3. task' = [task EXCEPT ![r] = t]
      BY <2>1 DEF HookPasses
    <3>4. QED
      BY <3>1, <3>2, <3>3, TaskStep DEF TypeInv, TypeOK, TasksOK
  <2>2. CASE Goto(r, "run")
    <3>1. Fits(r, [task[r] EXCEPT !.pc = "run"])
      BY <1>1 DEF Fits, Task, Ops, CallSections
    <3>2. QED
      BY <2>2, <3>1, GotoStep DEF TypeInv, TypeOK, TasksOK, Sections
  <2>3. QED
    BY <2>1, <2>2 DEF HookPasses, Goto
<1>3. UNCHANGED <<tables, ending, reading, history>>
  BY DEF HookPasses
<1>4. QED
  BY <1>2, <1>3 DEF TypeInv, TypeOK, TablesOK, TasksOK, HistoryOK, OnlyCallsGo,
     tables, history

LEMMA ApprovedType ==
    ASSUME TypeInv, NEW r \in Requests, Approved(r)
    PROVE  TypeInv'
<1>1. task[r] \in Task /\ Op(r) = "call"
  BY DEF TypeInv, TypeOK, TasksOK, TasksFit, Fits, Approved, At, CallSections
<1>2. GrantFor(Call(r)) \in Grants
  BY <1>1 DEF Grants, ToolCalls
<1>3. \A s \in Session :
         [s EXCEPT !.grants = @ \cup {GrantFor(Call(r))}] \in Session
  BY <1>2 DEF Session
<1>4. sessions' \in [Sessions -> Session \cup {None}]
  BY <1>3 DEF TypeInv, TypeOK, TablesOK, Approved
<1>5. Fits(r, [task[r] EXCEPT !.pc = "run"])
  BY <1>1 DEF Fits, Task, Ops, CallSections
<1>6. task' \in [Requests -> Task] /\ TasksFit'
  BY <1>5, GotoStep DEF TypeInv, TypeOK, TasksOK, Approved, Sections
<1>7. UNCHANGED <<conns, servers, hubCalls, relays, calls, takeovers, ending,
                  reading, history>>
  BY DEF Approved
<1>8. QED
  BY <1>4, <1>6, <1>7 DEF TypeInv, TypeOK, TablesOK, TasksOK, HistoryOK,
     OnlyCallsGo, history

-----------------------------------------------------------------------------
\* A permitted tool call: the hub's own tools, and the forward.
LEMMA AskForSecretType ==
    ASSUME TypeInv, NEW r \in Requests, AskForSecret(r)
    PROVE  TypeInv'
<1>1. UNCHANGED <<tables, ending, reading, delivered, hubRan, heard, quiet>>
  BY DEF AskForSecret
<1>2. CASE EndUnnoted(r, "noCredential")
  BY <1>1, <1>2, EndOnlyType DEF TypeInv, TypeOK, HistoryOK, Hows
<1>3. CASE /\ task' = [task EXCEPT ![r].pc = "ask", ![r].about = "credential",
                                   ![r].target = From(r)]
           /\ UNCHANGED <<answers, noted>>
  <2> DEFINE t == [task[r] EXCEPT !.pc = "ask", !.about = "credential",
                                  !.target = From(r)]
  <2>1. task[r] \in Task /\ Op(r) = "call"
    BY DEF TypeInv, TypeOK, TasksOK, TasksFit, Fits, AskForSecret, At, CallSections
  <2>2. From(r) \in Conns
    BY RequestsAssumption DEF From
  <2>3. t \in Task /\ t.pc = "ask" /\ t.about = "credential"
    BY <2>1, <2>2 DEF Task, Sections
  <2>4. Fits(r, t)
    BY <2>1, <2>3 DEF Fits, Ops, CallSections
  <2>5. task' = [task EXCEPT ![r] = t]
    BY <1>3
  <2>6. task' \in [Requests -> Task] /\ TasksFit'
    BY <2>3, <2>4, <2>5, TaskStep DEF TypeInv, TypeOK, TasksOK
  <2>7. QED
    BY <1>1, <1>3, <2>6 DEF TypeInv, TypeOK, TablesOK, TasksOK, HistoryOK,
       OnlyCallsGo, tables
<1>4. QED
  BY <1>2, <1>3 DEF AskForSecret

LEMMA RouteType ==
    ASSUME TypeInv, NEW r \in Requests, Route(r)
    PROVE  TypeInv'
<1> DEFINE target == servers[sessions[Sid(r)].server]
           t      == [task[r] EXCEPT !.pc = "forward", !.target = target]
<1>1. task[r] \in Task /\ Op(r) = "call"
  BY DEF TypeInv, TypeOK, TasksOK, TasksFit, Fits, Route, At, CallSections
<1>2. sessions[Sid(r)] \in Session
  BY <1>1, RequestsAssumption
  DEF TypeInv, TypeOK, TablesOK, Route, Bindable, OwnedBy, Sid, Op
<1>3. target \in Guests
  BY <1>2 DEF TypeInv, TypeOK, TablesOK, Route, Bindable, Session
<1>4. t \in Task /\ t.pc = "forward" /\ t.target = target
  BY <1>1, <1>3 DEF Task, Sections, Conns
<1>5. Fits(r, t)
  BY <1>1, <1>3, <1>4 DEF Fits, Ops, CallSections
<1>6. task' = [task EXCEPT ![r] = t]
  BY DEF Route
<1>7. task' \in [Requests -> Task] /\ TasksFit'
  BY <1>4, <1>5, <1>6, TaskStep DEF TypeInv, TypeOK, TasksOK
<1>8. UNCHANGED <<tables, ending, reading, history>>
  BY DEF Route
<1>9. QED
  BY <1>7, <1>8 DEF TypeInv, TypeOK, TablesOK, TasksOK, HistoryOK, OnlyCallsGo,
     tables, history

LEMMA ForwardType ==
    ASSUME TypeInv, NEW r \in Requests, Forward(r)
    PROVE  TypeInv'
<1> DEFINE target == task[r].target
<1>1. Op(r) = "call" /\ target \in Guests
  BY DEF TypeInv, TasksFit, Fits, Forward, At, CallSections
<1>2. [origin |-> From(r), server |-> target] \in InFlight
  BY <1>1, RequestsAssumption DEF InFlight, From
<1>3. /\ relays' \in [Requests -> Guests \cup {None}]
      /\ calls' \in [CallIds -> InFlight \cup {None}]
  BY <1>1, <1>2 DEF TypeInv, TypeOK, TablesOK, Forward
<1>4. delivered' \in [Requests -> Guests \cup {None}] /\ OnlyCallsGo'
  BY <1>1 DEF TypeInv, TypeOK, HistoryOK, OnlyCallsGo, Forward
<1>5. task' \in [Requests -> Task] /\ TasksFit'
  BY DoneStep DEF TypeInv, TypeOK, TasksOK, Forward
<1>6. UNCHANGED <<conns, servers, sessions, hubCalls, takeovers, ending, reading,
                  answers, noted, hubRan, heard, quiet>>
  BY DEF Forward
<1>7. QED
  BY <1>3, <1>4, <1>5, <1>6 DEF TypeInv, TypeOK, TablesOK, TasksOK, HistoryOK

-----------------------------------------------------------------------------
\* A forwarded call: progress, and its three endings.
LEMMA EndRelayType ==
    ASSUME TypeInv, NEW r \in Requests, NEW by \in Guests \cup {None},
           NEW how \in {"ok", "failed", "gone", "deadline"},
           EndRelay(r, how, by), quiet' \subseteq Requests
    PROVE  TypeInv'
<1>1. [how |-> how, by |-> by, retired |-> FALSE] \in Ending
  BY DEF Ending
<1>2. /\ ending' \in [Requests -> Ending \cup {None}]
      /\ relays' \in [Requests -> Guests \cup {None}]
  BY <1>1 DEF TypeInv, TypeOK, TablesOK, TasksOK, EndRelay
<1>3. UNCHANGED <<conns, servers, sessions, hubCalls, calls, takeovers, task,
                  reading, answers, noted, delivered, hubRan, heard>>
  BY DEF EndRelay
<1>4. QED
  BY <1>2, <1>3 DEF TypeInv, TypeOK, TablesOK, TasksOK, HistoryOK, TasksFit,
     OnlyCallsGo

LEMMA ServerAnswersType ==
    ASSUME TypeInv, NEW c \in Guests, NEW r \in Requests, ServerAnswers(c, r)
    PROVE  TypeInv'
<1>1. quiet' \subseteq Requests
  BY DEF TypeInv, TypeOK, HistoryOK, ServerAnswers
<1>2. PICK how \in {"ok", "failed"} : EndRelay(r, how, c)
  BY DEF ServerAnswers
<1>3. QED
  BY <1>1, <1>2, EndRelayType

LEMMA DeadlineType ==
    ASSUME TypeInv, NEW r \in Requests, Deadline(r)
    PROVE  TypeInv'
<1>1. quiet' \subseteq Requests /\ EndRelay(r, "deadline", None)
  BY DEF TypeInv, TypeOK, HistoryOK, Deadline
<1>2. QED
  BY <1>1, EndRelayType

LEMMA RetireType ==
    ASSUME TypeInv, NEW r \in Requests, Retire(r)
    PROVE  TypeInv'
<1>1. ending[r] \in Ending
  BY DEF TypeInv, TypeOK, TasksOK, Retire
<1>2. ending[r].how \in Hows /\ [ending[r] EXCEPT !.retired = TRUE] \in Ending
  BY <1>1 DEF Ending, Hows
<1>3. ending' \in [Requests -> Ending \cup {None}]
  BY <1>2 DEF TypeInv, TypeOK, TasksOK, Retire
<1>4. calls' \in [CallIds -> InFlight \cup {None}]
  BY DEF TypeInv, TypeOK, TablesOK, Retire
<1>5. noted' \in [Requests -> Seq(Hows)]
  BY <1>2, NotedType DEF TypeInv, TypeOK, HistoryOK, Retire
<1>6. UNCHANGED <<conns, servers, sessions, hubCalls, relays, takeovers, task,
                  reading, answers, delivered, hubRan, heard, quiet>>
  BY DEF Retire
<1>7. QED
  BY <1>3, <1>4, <1>5, <1>6 DEF TypeInv, TypeOK, TablesOK, TasksOK, HistoryOK,
     TasksFit, OnlyCallsGo

LEMMA FinishType ==
    ASSUME TypeInv, NEW r \in Requests, Finish(r)
    PROVE  TypeInv'
<1>1. ending[r].how \in Hows
  BY DEF TypeInv, TypeOK, TasksOK, Finish, Ending, Hows
<1>2. answers' \in [Requests -> Seq(Hows)]
  BY <1>1, AnsweredType DEF TypeInv, TypeOK, HistoryOK, Finish
<1>3. ending' \in [Requests -> Ending \cup {None}]
  BY DEF TypeInv, TypeOK, TasksOK, Finish
<1>4. UNCHANGED <<tables, task, reading, noted, delivered, hubRan, heard, quiet>>
  BY DEF Finish
<1>5. QED
  BY <1>2, <1>3, <1>4 DEF TypeInv, TypeOK, TablesOK, TasksOK, HistoryOK, TasksFit,
     OnlyCallsGo, tables

LEMMA ProgressType ==
    ASSUME TypeInv, NEW c \in Guests, NEW r \in Requests, Progress(c, r)
    PROVE  TypeInv'
<1>1. Op(r) = "call"
  BY ConnsAssumption DEF TypeInv, OnlyCallsGo, Progress, Conns
<1>2. calls[CallId(r)] \in InFlight \cup {None}
  BY <1>1, RequestsAssumption DEF TypeInv, TypeOK, TablesOK, CallId, Op
<1>3. ProgressTo(c, r) \in Conns \cup {None}
  BY <1>2 DEF ProgressTo, InFlight
<1>4. reading' \in [Guests -> [req : Requests, to : Conns] \cup {None}]
  BY <1>3 DEF TypeInv, TypeOK, TasksOK, Progress
<1>5. quiet' \subseteq Requests
  BY DEF TypeInv, TypeOK, HistoryOK, Progress
<1>6. UNCHANGED <<tables, task, ending, answers, noted, delivered, hubRan, heard>>
  BY DEF Progress
<1>7. QED
  BY <1>4, <1>5, <1>6 DEF TypeInv, TypeOK, TablesOK, TasksOK, HistoryOK, TasksFit,
     OnlyCallsGo, tables

LEMMA RelayProgressType ==
    ASSUME TypeInv, NEW c \in Guests, RelayProgress(c)
    PROVE  TypeInv'
<1> DEFINE frame == [req |-> reading[c].req, to |-> reading[c].to,
                     late |-> answers[reading[c].req] # <<>>]
<1>1. reading[c] \in [req : Requests, to : Conns]
  BY DEF TypeInv, TypeOK, TasksOK, RelayProgress
<1>2. frame \in Frame
  BY <1>1 DEF Frame
<1>3. heard' \subseteq Frame
  BY <1>2 DEF TypeInv, TypeOK, HistoryOK, RelayProgress
<1>4. reading' \in [Guests -> [req : Requests, to : Conns] \cup {None}]
  BY DEF TypeInv, TypeOK, TasksOK, RelayProgress
<1>5. UNCHANGED <<tables, task, ending, answers, noted, delivered, hubRan, quiet>>
  BY DEF RelayProgress
<1>6. QED
  BY <1>3, <1>4, <1>5 DEF TypeInv, TypeOK, TablesOK, TasksOK, HistoryOK, TasksFit,
     OnlyCallsGo, tables

-----------------------------------------------------------------------------
LEMMA StutterType ==
    ASSUME TypeInv, UNCHANGED vars
    PROVE  TypeInv'
  BY DEF TypeInv, TypeOK, TablesOK, TasksOK, HistoryOK, TasksFit, OnlyCallsGo, vars

\* Every step keeps the strengthened type invariant.
LEMMA NextTypeInv == TypeInv /\ [Next]_vars => TypeInv'
<1> SUFFICES ASSUME TypeInv, [Next]_vars PROVE TypeInv'
  OBVIOUS
<1>1. ASSUME NEW r \in Requests, RequestStep(r) PROVE TypeInv'
  <2>1. CASE Open(r) \/ Close(r) \/ Serve(r) \/ BindLookup(r) \/ Bound(r)
    BY <2>1, OpenType, CloseType, ServeType, BindLookupType, BoundType
  <2>2. CASE TakeOver(r) \/ Release(r) \/ Ask(r) \/ GiveUp(r)
    BY <2>2, TakeOverType, ReleaseType, AskType, GiveUpType
  <2>3. CASE CallReplayed(r) \/ CallLive(r) \/ ConsultPolicy(r) \/ NoSuchSession(r)
    BY <2>3, CallReplayedType, CallLiveType, ConsultPolicyType, RefusalType
  <2>4. CASE HookPasses(r) \/ HookVetoes(r) \/ Approved(r) \/ Refused(r)
    BY <2>4, HookPassesType, RefusalType, ApprovedType
  <2>5. CASE AskForSecret(r) \/ StoreSecret(r) \/ InvokeInternal(r)
    BY <2>5, AskForSecretType, InternalType
  <2>6. CASE Route(r) \/ CannotRoute(r) \/ Forward(r)
    BY <2>6, RouteType, RefusalType, ForwardType
  <2>7. QED
    BY <1>1, <2>1, <2>2, <2>3, <2>4, <2>5, <2>6 DEF RequestStep
<1>2. ASSUME NEW r \in Requests, EndingStep(r) PROVE TypeInv'
  BY <1>2, DeadlineType, RetireType, FinishType DEF EndingStep
<1>3. CASE PeerStep
  <2>1. ASSUME NEW c \in Conns, Connect(c) \/ LoseAck(c) \/ Disconnect(c)
        PROVE  TypeInv'
    BY <2>1, RegisterType, DisconnectType DEF Connect, LoseAck, ConnStates
  <2>2. ASSUME NEW r \in Requests, Arrive(r) PROVE TypeInv'
    BY <2>2, ArriveType
  <2>3. ASSUME NEW c \in Conns, NEW r \in Requests, Answer(c, r) PROVE TypeInv'
    BY <2>3, AnswerType
  <2>4. ASSUME NEW c \in Guests, NEW r \in Requests,
               ServerAnswers(c, r) \/ Progress(c, r)
        PROVE  TypeInv'
    BY <2>4, ServerAnswersType, ProgressType
  <2>5. QED
    BY <1>3, <2>1, <2>2, <2>3, <2>4 DEF PeerStep
<1>4. ASSUME NEW c \in Guests, FailCalls(c) \/ RelayProgress(c) PROVE TypeInv'
  BY <1>4, FailCallsType, RelayProgressType
<1>5. QED
  BY <1>1, <1>2, <1>3, <1>4, StutterType DEF Next

\* The tables of the hub, its tasks and what has happened keep their types.
THEOREM TypeCorrect == Spec => []TypeOK
<1>1. Init => TypeInv
  BY InitTypeInv
<1>2. TypeInv /\ [Next]_vars => TypeInv'
  BY NextTypeInv
<1>3. TypeInv => TypeOK
  BY DEF TypeInv
<1>4. QED
  BY <1>1, <1>2, <1>3, PTL DEF Spec

-----------------------------------------------------------------------------
(***************************************************************************)
(* One answer.                                                             *)
(***************************************************************************)

\* A call is in one phase at a time: with its task, in the relay table, on its
\* way through finish_relay, or answered.
OnePhase(r) ==
    /\ ~At(r, "done") => answers[r] = <<>> /\ relays[r] = None /\ ending[r] = None
    /\ relays[r] # None => answers[r] = <<>> /\ ending[r] = None
    /\ ending[r] # None => answers[r] = <<>>
    /\ Len(answers[r]) <= 1

OnceInv == \A r \in Requests : OnePhase(r)

\* A step that answers nothing, touches no relay and revives no task.
LEMMA QuietOnce ==
    ASSUME OnceInv, UNCHANGED <<answers, relays, ending>>,
           \A q \in Requests : At(q, "done") => At(q, "done")'
    PROVE  OnceInv'
  BY DEF OnceInv, OnePhase

\* A step of one task that is not over.
LEMMA TaskOnce ==
    ASSUME OnceInv, UNCHANGED <<answers, relays, ending>>, NEW r \in Requests,
           ~At(r, "done"), \A q \in Requests \ {r} : task'[q] = task[q]
    PROVE  OnceInv'
  BY QuietOnce DEF At

\* The end of a call that was not forwarded.
LEMMA EndOnce ==
    ASSUME TypeInv, OnceInv, NEW r \in Requests, NEW how \in Hows, ~At(r, "done"),
           answers' = Answered(r, how), UNCHANGED <<relays, ending>>,
           At(r, "done")', \A q \in Requests \ {r} : task'[q] = task[q]
    PROVE  OnceInv'
<1>1. OnePhase(r)'
  <2>1. answers[r] = <<>> /\ relays[r] = None /\ ending[r] = None
    BY DEF OnceInv, OnePhase
  <2>2. Len(answers'[r]) <= 1
    BY <2>1 DEF TypeInv, TypeOK, HistoryOK, Answered
  <2>3. QED
    BY <2>1, <2>2 DEF OnePhase
<1>2. ASSUME NEW q \in Requests \ {r} PROVE OnePhase(q)'
  <2>1. answers'[q] = answers[q]
    BY DEF TypeInv, TypeOK, HistoryOK, Answered
  <2>2. QED
    BY <2>1 DEF OnceInv, OnePhase, At
<1>3. QED
  BY <1>1, <1>2 DEF OnceInv

LEMMA GotoDone ==
    ASSUME TypeInv, NEW r \in Requests, Goto(r, "done")
    PROVE  At(r, "done")' /\ \A q \in Requests \ {r} : task'[q] = task[q]
  BY DEF TypeInv, TypeOK, TasksOK, Goto, At, Task

LEMMA EndCallOnce ==
    ASSUME TypeInv, OnceInv, NEW r \in Requests, NEW how \in Hows, ~At(r, "done"),
           EndNoted(r, how) \/ EndUnnoted(r, how), UNCHANGED <<relays, ending>>
    PROVE  OnceInv'
<1>1. Goto(r, "done") /\ answers' = Answered(r, how)
  BY DEF EndNoted, EndUnnoted
<1>2. QED
  BY <1>1, GotoDone, EndOnce

LEMMA RequestOnce ==
    ASSUME TypeInv, OnceInv, NEW r \in Requests, RequestStep(r)
    PROVE  OnceInv'
<1>1. CASE Open(r) \/ Close(r) \/ Serve(r) \/ Bound(r) \/ TakeOver(r) \/ Release(r)
  <2>1. Goto(r, "done") /\ ~At(r, "done") /\ UNCHANGED <<answers, relays, ending>>
    BY <1>1 DEF Open, Close, Serve, Bound, TakeOver, Release, At, history
  <2>2. QED
    BY <2>1, GotoDone, TaskOnce
<1>2. CASE BindLookup(r) \/ Ask(r) \/ GiveUp(r) \/ CallLive(r) \/ HookPasses(r)
           \/ Approved(r) \/ Route(r)
  <2>1. ~At(r, "done") /\ UNCHANGED <<answers, relays, ending>>
    BY <1>2 DEF BindLookup, Ask, GiveUp, CallLive, HookPasses, Approved, Route, At,
       tables, history
  <2>2. \A q \in Requests \ {r} : task'[q] = task[q]
    BY <1>2 DEF BindLookup, Ask, GiveUp, Wake, CallLive, HookPasses, Approved,
       Route, Goto, TypeInv, TypeOK, TasksOK
  <2>3. QED
    BY <2>1, <2>2, TaskOnce
<1>3. CASE CallReplayed(r) \/ NoSuchSession(r) \/ HookVetoes(r) \/ Refused(r)
           \/ StoreSecret(r) \/ InvokeInternal(r) \/ CannotRoute(r)
  <2>1. ~At(r, "done") /\ UNCHANGED <<relays, ending>>
    BY <1>3 DEF CallReplayed, NoSuchSession, HookVetoes, Refused, StoreSecret,
       InvokeInternal, CannotRoute, At, tables
  <2>2. \E how \in Hows : EndNoted(r, how) \/ EndUnnoted(r, how)
    BY <1>3 DEF CallReplayed, NoSuchSession, HookVetoes, Refused, StoreSecret,
       InvokeInternal, CannotRoute, Hows
  <2>3. QED
    BY <2>1, <2>2, EndCallOnce
<1>4. CASE ConsultPolicy(r)
  <2>1. ~At(r, "done") /\ UNCHANGED <<relays, ending>>
    BY <1>4 DEF ConsultPolicy, At, tables
  <2>2. \A q \in Requests \ {r} : task'[q] = task[q]
    BY <1>4 DEF ConsultPolicy, TypeInv, TypeOK, TasksOK
  <2>3. CASE UNCHANGED answers
    BY <2>1, <2>2, <2>3, TaskOnce
  <2>4. CASE answers' = Answered(r, "byPolicy") /\ At(r, "done")'
    BY <2>1, <2>2, <2>4, EndOnce DEF Hows
  <2>5. QED
    BY <1>4, <2>3, <2>4 DEF ConsultPolicy, At, TypeInv, TypeOK, TasksOK, Task
<1>5. CASE AskForSecret(r)
  <2>1. ~At(r, "done") /\ UNCHANGED <<relays, ending>>
    BY <1>5 DEF AskForSecret, At, tables
  <2>2. CASE EndUnnoted(r, "noCredential")
    BY <2>1, <2>2, EndCallOnce DEF Hows
  <2>3. CASE UNCHANGED answers /\ ~EndUnnoted(r, "noCredential")
    <3>1. \A q \in Requests \ {r} : task'[q] = task[q]
      BY <1>5, <2>3 DEF AskForSecret, TypeInv, TypeOK, TasksOK
    <3>2. QED
      BY <2>1, <2>3, <3>1, TaskOnce
  <2>4. QED
    BY <1>5, <2>2, <2>3 DEF AskForSecret
<1>6. CASE Forward(r)
  <2>1. /\ ~At(r, "done")
        /\ answers[r] = <<>> /\ ending[r] = None
        /\ UNCHANGED <<answers, ending>>
        /\ relays' = [relays EXCEPT ![r] = task[r].target]
    BY <1>6 DEF Forward, At, OnceInv, OnePhase
  <2>2. At(r, "done")' /\ \A q \in Requests \ {r} : task'[q] = task[q]
    BY <1>6, GotoDone DEF Forward
  <2>3. OnePhase(r)'
    BY <2>1, <2>2 DEF OnePhase
  <2>4. \A q \in Requests \ {r} : OnePhase(q)'
    BY <2>1, <2>2 DEF OnceInv, OnePhase, At, TypeInv, TypeOK, TablesOK
  <2>5. QED
    BY <2>3, <2>4 DEF OnceInv
<1>7. QED
  BY <1>1, <1>2, <1>3, <1>4, <1>5, <1>6 DEF RequestStep

\* A relay that leaves the table with its ending.
LEMMA EndRelayOnce ==
    ASSUME TypeInv, OnceInv, NEW r \in Requests, NEW how, NEW by,
           relays[r] # None, EndRelay(r, how, by)
    PROVE  OnceInv'
<1>1. OnePhase(r)'
  BY DEF EndRelay, OnceInv, OnePhase, At, TypeInv, TypeOK, TablesOK, TasksOK
<1>2. \A q \in Requests \ {r} : OnePhase(q)'
  BY DEF EndRelay, OnceInv, OnePhase, At, TypeInv, TypeOK, TablesOK, TasksOK
<1>3. QED
  BY <1>1, <1>2 DEF OnceInv

LEMMA EndingOnce ==
    ASSUME TypeInv, OnceInv, NEW r \in Requests, EndingStep(r)
    PROVE  OnceInv'
<1>1. CASE Deadline(r)
  BY <1>1, EndRelayOnce DEF Deadline
<1>2. CASE Retire(r)
  <2>1. UNCHANGED <<answers, relays, task>>
    BY <1>2 DEF Retire
  <2>2. \A q \in Requests : ending'[q] # None => ending[q] # None
    BY <1>2 DEF Retire, TypeInv, TypeOK, TasksOK
  <2>3. QED
    BY <2>1, <2>2 DEF OnceInv, OnePhase, At
<1>3. CASE Finish(r)
  <2>1. answers[r] = <<>> /\ relays[r] = None /\ At(r, "done")
    BY <1>3 DEF Finish, OnceInv, OnePhase
  <2>2. ending'[r] = None /\ UNCHANGED <<task, relays>>
    BY <1>3 DEF Finish, TypeInv, TypeOK, TasksOK, tables
  <2>3. Len(answers'[r]) <= 1
    BY <1>3, <2>1 DEF Finish, Answered, TypeInv, TypeOK, HistoryOK
  <2>4. \A q \in Requests \ {r} : answers'[q] = answers[q] /\ ending'[q] = ending[q]
    BY <1>3 DEF Finish, Answered, TypeInv, TypeOK, TasksOK, HistoryOK
  <2>5. QED
    BY <2>1, <2>2, <2>3, <2>4 DEF OnceInv, OnePhase, At
<1>4. QED
  BY <1>1, <1>2, <1>3 DEF EndingStep

\* The steps that only take relays away.
LEMMA DisconnectOnce ==
    ASSUME TypeInv, OnceInv, NEW c \in Conns, Disconnect(c)
    PROVE  OnceInv'
<1>1. UNCHANGED <<answers, ending, task>>
  BY DEF Disconnect, tasks, history
<1>2. \A q \in Requests : relays'[q] # None => relays[q] # None
  BY DEF Disconnect
<1>3. QED
  BY <1>1, <1>2 DEF OnceInv, OnePhase, At

LEMMA FailCallsOnce ==
    ASSUME TypeInv, OnceInv, NEW c \in Guests, FailCalls(c)
    PROVE  OnceInv'
<1>1. UNCHANGED <<answers, task>>
  BY DEF FailCalls, history
<1>2. SUFFICES ASSUME NEW q \in Requests PROVE OnePhase(q)'
  BY DEF OnceInv
<1>3. CASE relays[q] = c
  <2>1. relays'[q] = None
    BY <1>3 DEF FailCalls
  <2>2. answers[q] = <<>> /\ At(q, "done")
    BY <1>3, ConnsAssumption DEF OnceInv, OnePhase, Conns
  <2>3. QED
    BY <1>1, <2>1, <2>2 DEF OnePhase, At
<1>4. CASE relays[q] # c
  BY <1>1, <1>4 DEF FailCalls, OnceInv, OnePhase, At
<1>5. QED
  BY <1>3, <1>4

LEMMA NextOnce == TypeInv /\ OnceInv /\ [Next]_vars => OnceInv'
<1> SUFFICES ASSUME TypeInv, OnceInv, [Next]_vars PROVE OnceInv'
  OBVIOUS
<1>1. ASSUME NEW r \in Requests, RequestStep(r) \/ EndingStep(r) PROVE OnceInv'
  BY <1>1, RequestOnce, EndingOnce
<1>2. CASE PeerStep
  <2>1. ASSUME NEW c \in Conns, Connect(c) \/ LoseAck(c) PROVE OnceInv'
    BY <2>1, QuietOnce DEF Connect, LoseAck, Register, tasks, history, At
  <2>2. ASSUME NEW c \in Conns, Disconnect(c) PROVE OnceInv'
    BY <2>2, DisconnectOnce
  <2>3. ASSUME NEW r \in Requests, Arrive(r) PROVE OnceInv'
    <3>1. ~At(r, "done") /\ UNCHANGED <<answers, relays, ending>>
      BY <2>3 DEF Arrive, At, tables, history
    <3>2. \A q \in Requests \ {r} : task'[q] = task[q]
      BY <2>3 DEF Arrive, Goto, TypeInv, TypeOK, TasksOK
    <3>3. QED
      BY <3>1, <3>2, TaskOnce
  <2>4. ASSUME NEW c \in Conns, NEW r \in Requests, Answer(c, r) PROVE OnceInv'
    <3>1. ~At(r, "done") /\ UNCHANGED <<answers, relays, ending>>
      BY <2>4 DEF Answer, At, history
    <3>2. \A q \in Requests \ {r} : task'[q] = task[q]
      BY <2>4 DEF Answer, Wake, TypeInv, TypeOK, TasksOK
    <3>3. QED
      BY <3>1, <3>2, TaskOnce
  <2>5. ASSUME NEW c \in Guests, NEW r \in Requests, ServerAnswers(c, r)
        PROVE  OnceInv'
    BY <2>5, EndRelayOnce DEF ServerAnswers
  <2>6. ASSUME NEW c \in Guests, NEW r \in Requests, Progress(c, r) PROVE OnceInv'
    BY <2>6, QuietOnce DEF Progress, tables, At
  <2>7. QED
    BY <1>2, <2>1, <2>2, <2>3, <2>4, <2>5, <2>6 DEF PeerStep
<1>3. ASSUME NEW c \in Guests, FailCalls(c) PROVE OnceInv'
  BY <1>3, FailCallsOnce
<1>4. ASSUME NEW c \in Guests, RelayProgress(c) PROVE OnceInv'
  BY <1>4, QuietOnce DEF RelayProgress, tables, At
<1>5. CASE UNCHANGED vars
  BY <1>5, QuietOnce DEF vars, At
<1>6. QED
  BY <1>1, <1>2, <1>3, <1>4, <1>5 DEF Next

\* A tool call is answered at most once, whichever of the server's response,
\* the server's disconnect and the deadline come, and in whatever order.
THEOREM AnsweredAtMostOnce == Spec => []AnsweredOnce
<1>1. Init => TypeInv /\ OnceInv
  BY InitTypeInv DEF Init, Unused, OnceInv, OnePhase
<1>2. TypeInv /\ OnceInv /\ [Next]_vars => TypeInv' /\ OnceInv'
  BY NextTypeInv, NextOnce
<1>3. OnceInv => AnsweredOnce
  BY DEF OnceInv, OnePhase, AnsweredOnce
<1>4. QED
  BY <1>1, <1>2, <1>3, PTL DEF Spec

-----------------------------------------------------------------------------
(***************************************************************************)
(* Permission.                                                             *)
(***************************************************************************)

\* How far a task has come towards running, and what it then knows.  A call
\* that ran is over, so what permitted it no longer changes.
Cleared(r) ==
    LET t == task[r] IN
    /\ Ran(r) => t.pc = "done" /\ Permitted(r)
    /\ t.pc = "hook" => t.verdict \in {"allow", "ask"}
    /\ t.pc \in {"ask", "wait"} /\ t.about = "approval" =>
          t.verdict = "ask" /\ t.target = t.owner
    /\ t.pc = "wait" => hubCalls[r] \in {None, t.target}
    /\ t.pc = "decide" =>
          t.verdict = "ask" /\ (Permits(t.approval) => t.by = t.owner)
    /\ t.pc \in {"run", "store", "forward"} => Permitted(r)
    /\ t.pc \in {"ask", "wait"} /\ t.about = "credential" => Permitted(r)

ClearedInv == \A r \in Requests : Cleared(r)

\* What Cleared says of a call that is not the subject of a step.
LEMMA OtherCleared ==
    ASSUME ClearedInv, NEW q \in Requests, task'[q] = task[q],
           hubCalls'[q] \in {None, hubCalls[q]},
           delivered'[q] = delivered[q], q \in hubRan' <=> q \in hubRan
    PROVE  Cleared(q)'
  BY DEF ClearedInv, Cleared, Permitted, Ran

LEMMA QuietCleared ==
    ASSUME ClearedInv, UNCHANGED <<task, delivered, hubRan>>,
           \A q \in Requests : hubCalls'[q] \in {None, hubCalls[q]}
    PROVE  ClearedInv'
  BY OtherCleared DEF ClearedInv

\* A task that ends without running anything.
LEMMA DoneCleared ==
    ASSUME TypeInv, ClearedInv, NEW r \in Requests, Goto(r, "done"), ~At(r, "done"),
           UNCHANGED <<delivered, hubRan>>,
           \A q \in Requests : hubCalls'[q] \in {None, hubCalls[q]}
    PROVE  ClearedInv'
<1>1. task'[r].pc = "done" /\ ~Ran(r)'
  BY DEF TypeInv, TypeOK, TasksOK, Goto, Task, ClearedInv, Cleared, Ran, At
<1>2. Cleared(r)'
  BY <1>1 DEF Cleared
<1>3. \A q \in Requests \ {r} : Cleared(q)'
  BY GotoDone, OtherCleared
<1>4. QED
  BY <1>2, <1>3 DEF ClearedInv

\* A task that runs its call and ends.
LEMMA RunCleared ==
    ASSUME TypeInv, ClearedInv, NEW r \in Requests, Goto(r, "done"), Permitted(r),
           UNCHANGED hubCalls,
           \A q \in Requests \ {r} : /\ delivered'[q] = delivered[q]
                                     /\ q \in hubRan' <=> q \in hubRan
    PROVE  ClearedInv'
<1>1. task'[r] = [task[r] EXCEPT !.pc = "done"] /\ task[r] \in Task
  BY DEF TypeInv, TypeOK, TasksOK, Goto
<1>2. task'[r].pc = "done" /\ Permitted(r)'
  BY <1>1 DEF Permitted, Task
<1>3. Cleared(r)'
  BY <1>2 DEF Cleared
<1>4. \A q \in Requests \ {r} : Cleared(q)'
  BY GotoDone, OtherCleared
<1>5. QED
  BY <1>3, <1>4 DEF ClearedInv

\* A task that moves on towards running its call.
LEMMA MoveCleared ==
    ASSUME TypeInv, ClearedInv, NEW r \in Requests, ~At(r, "done"), Cleared(r)',
           UNCHANGED <<delivered, hubRan>>,
           \A q \in Requests \ {r} : /\ task'[q] = task[q]
                                     /\ hubCalls'[q] = hubCalls[q]
    PROVE  ClearedInv'
  BY OtherCleared DEF ClearedInv

\* A question is answered, or nobody answers it.
LEMMA WakeCleared ==
    ASSUME TypeInv, ClearedInv, NEW r \in Requests, At(r, "wait"),
           NEW c \in Conns \cup {None}, NEW via, NEW answer,
           Permits(answer) => hubCalls[r] = c /\ c # None, Wake(r, c, via, answer),
           UNCHANGED <<delivered, hubRan>>,
           hubCalls' = [hubCalls EXCEPT ![r] = None]
    PROVE  ClearedInv'
<1>1. task[r] \in Task /\ task[r].pc = "wait" /\ Fits(r, task[r])
  BY DEF TypeInv, TypeOK, TasksOK, TasksFit, At
<1>2. ~Ran(r) /\ ~Ran(r)'
  BY <1>1 DEF ClearedInv, Cleared, Ran
<1>3. \A q \in Requests \ {r} : task'[q] = task[q] /\ hubCalls'[q] = hubCalls[q]
  BY DEF Wake, TypeInv, TypeOK, TasksOK, TablesOK
<1>4. CASE task[r].about = "approval"
  <2>1. task'[r] = [task[r] EXCEPT !.pc = "decide", !.approval = answer, !.by = c,
                        !.via = via]
    BY <1>4 DEF Wake, After, TypeInv, TypeOK, TasksOK
  <2>2. /\ task'[r].pc = "decide" /\ task'[r].approval = answer
        /\ task'[r].by = c /\ task'[r].verdict = task[r].verdict
        /\ task'[r].owner = task[r].owner
    BY <1>1, <2>1 DEF Task
  <2>3. /\ task[r].verdict = "ask" /\ task[r].target = task[r].owner
        /\ hubCalls[r] \in {None, task[r].target}
    BY <1>1, <1>4 DEF ClearedInv, Cleared
  <2>4. Permits(answer) => c = task[r].owner
    BY <2>3
  <2>5. Cleared(r)'
    BY <1>2, <2>2, <2>3, <2>4 DEF Cleared
  <2>6. QED
    BY <1>1, <1>3, <2>5, MoveCleared DEF At
<1>5. CASE task[r].about \in {"credential", "bind"}
  <2>1. task'[r] = [task[r] EXCEPT !.pc = After(task[r].about), !.answer = answer]
    BY <1>5 DEF Wake, TypeInv, TypeOK, TasksOK
  <2>2. /\ task'[r].pc = After(task[r].about) /\ task'[r].verdict = task[r].verdict
        /\ task'[r].owner = task[r].owner /\ task'[r].by = task[r].by
        /\ task'[r].approval = task[r].approval
    BY <1>1, <2>1 DEF Task
  <2>3. CASE task[r].about = "credential"
    <3>1. task'[r].pc = "store" /\ Permitted(r)
      BY <1>1, <2>2, <2>3 DEF After, ClearedInv, Cleared
    <3>2. Cleared(r)'
      BY <1>2, <2>2, <3>1 DEF Cleared, Permitted
    <3>3. QED
      BY <1>1, <1>3, <3>2, MoveCleared DEF At
  <2>4. CASE task[r].about = "bind"
    <3>1. task'[r].pc = "bound"
      BY <2>2, <2>4 DEF After
    <3>2. Cleared(r)'
      BY <1>2, <3>1 DEF Cleared
    <3>3. QED
      BY <1>1, <1>3, <3>2, MoveCleared DEF At
  <2>5. QED
    BY <1>5, <2>3, <2>4
<1>6. QED
  BY <1>1, <1>4, <1>5 DEF Fits

LEMMA RequestCleared ==
    ASSUME TypeInv, ClearedInv, NEW r \in Requests, RequestStep(r)
    PROVE  ClearedInv'
<1>0. task[r] \in Task /\ Fits(r, task[r]) /\ Cleared(r)
  BY DEF TypeInv, TypeOK, TasksOK, TasksFit, ClearedInv
<1>1. CASE Open(r) \/ Close(r) \/ Serve(r) \/ Bound(r) \/ TakeOver(r) \/ Release(r)
  <2>1. /\ Goto(r, "done") /\ ~At(r, "done")
        /\ UNCHANGED <<delivered, hubRan, hubCalls>>
    BY <1>1 DEF Open, Close, Serve, Bound, TakeOver, Release, At, history
  <2>2. QED
    BY <2>1, DoneCleared
<1>2. CASE CallReplayed(r) \/ NoSuchSession(r) \/ HookVetoes(r) \/ Refused(r)
           \/ CannotRoute(r)
  <2>1. /\ Goto(r, "done") /\ ~At(r, "done")
        /\ UNCHANGED <<delivered, hubRan, hubCalls>>
    BY <1>2 DEF CallReplayed, NoSuchSession, HookVetoes, Refused, CannotRoute,
       EndNoted, EndUnnoted, At, tables
  <2>2. QED
    BY <2>1, DoneCleared
<1>3. CASE BindLookup(r)
  <2>1. ~At(r, "done") /\ UNCHANGED <<delivered, hubRan, hubCalls>>
    BY <1>3 DEF BindLookup, At, tables, history
  <2>2. CASE Goto(r, "done")
    BY <2>1, <2>2, DoneCleared
  <2>3. CASE task' = [task EXCEPT ![r].pc = "ask", ![r].about = "bind",
                                  ![r].target = servers[Req[r].server]]
    <3>1. task'[r].pc = "ask" /\ task'[r].about = "bind"
      BY <1>0, <2>3 DEF Task, TypeInv, TypeOK, TasksOK
    <3>2. ~Ran(r)'
      BY <1>0, <1>3, <2>1 DEF Cleared, Ran, BindLookup, At
    <3>3. Cleared(r)'
      BY <3>1, <3>2 DEF Cleared
    <3>4. \A q \in Requests \ {r} : task'[q] = task[q]
      BY <2>3 DEF TypeInv, TypeOK, TasksOK
    <3>5. QED
      BY <2>1, <3>3, <3>4, MoveCleared
  <2>4. QED
    BY <1>3, <2>2, <2>3 DEF BindLookup
<1>4. CASE Ask(r)
  <2>1. /\ task' = [task EXCEPT ![r].pc = "wait"] /\ task[r].pc = "ask"
        /\ hubCalls' = [hubCalls EXCEPT ![r] = task[r].target]
        /\ UNCHANGED <<delivered, hubRan>>
    BY <1>4 DEF Ask, Goto, At, history
  <2>2. task'[r] = [task[r] EXCEPT !.pc = "wait"] /\ hubCalls'[r] = task[r].target
    BY <2>1 DEF TypeInv, TypeOK, TasksOK, TablesOK
  <2>3. ~Ran(r)'
    BY <1>0, <2>1 DEF Cleared, Ran
  <2>4. Cleared(r)'
    BY <1>0, <2>1, <2>2, <2>3 DEF Cleared, Permitted, Task
  <2>5. \A q \in Requests \ {r} : task'[q] = task[q] /\ hubCalls'[q] = hubCalls[q]
    BY <2>1 DEF TypeInv, TypeOK, TasksOK, TablesOK
  <2>6. QED
    BY <2>1, <2>4, <2>5, MoveCleared DEF At
<1>5. CASE GiveUp(r)
  <2>1. /\ At(r, "wait") /\ Wake(r, None, None, "no")
        /\ hubCalls' = [hubCalls EXCEPT ![r] = None]
        /\ UNCHANGED <<delivered, hubRan>>
    BY <1>5 DEF GiveUp, history
  <2>2. ~Permits("no") /\ None \in Conns \cup {None}
    BY DEF Permits
  <2>3. QED
    BY <2>1, <2>2, WakeCleared
<1>6. CASE CallLive(r)
  <2>1. /\ task' = [task EXCEPT ![r].pc = "policy"] /\ task[r].pc = "call"
        /\ UNCHANGED <<delivered, hubRan, hubCalls>>
    BY <1>6 DEF CallLive, Goto, At, tables, history
  <2>2. task'[r].pc = "policy" /\ ~Ran(r)'
    BY <1>0, <2>1 DEF Task, TypeInv, TypeOK, TasksOK, Cleared, Ran
  <2>3. Cleared(r)'
    BY <2>2 DEF Cleared
  <2>4. \A q \in Requests \ {r} : task'[q] = task[q]
    BY <2>1 DEF TypeInv, TypeOK, TasksOK
  <2>5. QED
    BY <2>1, <2>3, <2>4, MoveCleared DEF At
<1>7. CASE ConsultPolicy(r)
  <2> DEFINE verdict == Evaluate(PolicyOf(Sid(r)), Call(r))
             s       == sessions[Sid(r)]
             t       == [task[r] EXCEPT
                           !.pc = IF verdict = "deny" THEN "done" ELSE "hook",
                           !.verdict = verdict, !.owner = s.owner,
                           !.bot = s.bot]
  <2>1. task[r].pc = "policy" /\ UNCHANGED <<delivered, hubRan, hubCalls>>
    BY <1>7 DEF ConsultPolicy, At, tables
  <2>2. task' = [task EXCEPT ![r] = t]
    BY <1>7 DEF ConsultPolicy
  <2>3. verdict \in {"allow", "ask", "deny"}
    BY SessionVerdict DEF Verdicts, Actions
  <2>4. task'[r].pc \in {"done", "hook"} /\ task'[r].verdict = verdict
        /\ (task'[r].pc = "hook" => verdict # "deny")
    BY <1>0, <2>2 DEF Task, TypeInv, TypeOK, TasksOK
  <2>5. ~Ran(r)'
    BY <1>0, <2>1 DEF Cleared, Ran
  <2>6. Cleared(r)'
    BY <2>3, <2>4, <2>5 DEF Cleared
  <2>7. \A q \in Requests \ {r} : task'[q] = task[q]
    BY <2>2 DEF TypeInv, TypeOK, TasksOK
  <2>8. QED
    BY <2>1, <2>6, <2>7, MoveCleared DEF At
<1>8. CASE HookPasses(r)
  <2>1. /\ task[r].pc = "hook" /\ UNCHANGED <<delivered, hubRan, hubCalls>>
        /\ \A q \in Requests \ {r} : task'[q] = task[q]
    BY <1>8 DEF HookPasses, At, tables, history, TypeInv, TypeOK, TasksOK
  <2>2. ~Ran(r)' /\ task[r].verdict \in {"allow", "ask"}
    BY <1>0, <2>1 DEF Cleared, Ran
  <2>3. CASE task[r].verdict = "ask"
    <3>1. task' = [task EXCEPT ![r] = [task[r] EXCEPT
                     !.pc = "ask", !.about = "approval", !.target = task[r].owner]]
      BY <1>8, <2>3 DEF HookPasses, AfterHook
    <3>2. /\ task'[r].pc = "ask" /\ task'[r].about = "approval"
          /\ task'[r].verdict = "ask" /\ task'[r].target = task'[r].owner
      BY <1>0, <2>3, <3>1 DEF Task, TypeInv, TypeOK, TasksOK
    <3>3. Cleared(r)'
      BY <2>2, <3>2 DEF Cleared
    <3>4. QED
      BY <2>1, <3>3, MoveCleared DEF At
  <2>4. CASE task[r].verdict = "allow"
    <3>1. task' = [task EXCEPT ![r] = [task[r] EXCEPT !.pc = "run"]]
      BY <1>8, <2>4 DEF HookPasses, AfterHook
    <3>2. task'[r].pc = "run" /\ task'[r].verdict = "allow"
      BY <1>0, <2>4, <3>1 DEF Task, TypeInv, TypeOK, TasksOK
    <3>3. Cleared(r)'
      BY <2>2, <3>2 DEF Cleared, Permitted
    <3>4. QED
      BY <2>1, <3>3, MoveCleared DEF At
  <2>5. QED
    BY <2>2, <2>3, <2>4
<1>9. CASE Approved(r)
  <2>1. /\ task' = [task EXCEPT ![r].pc = "run"] /\ task[r].pc = "decide"
        /\ Permits(task[r].approval) /\ UNCHANGED <<delivered, hubRan, hubCalls>>
    BY <1>9 DEF Approved, Goto, At, history
  <2>2. ~Ran(r)' /\ Permitted(r)
    BY <1>0, <2>1 DEF Cleared, Ran, Permitted
  <2>3. task'[r] = [task[r] EXCEPT !.pc = "run"]
    BY <2>1 DEF TypeInv, TypeOK, TasksOK
  <2>4. task'[r].pc = "run" /\ Permitted(r)'
    BY <1>0, <2>2, <2>3 DEF Permitted, Task
  <2>5. Cleared(r)'
    BY <2>2, <2>4 DEF Cleared
  <2>6. \A q \in Requests \ {r} : task'[q] = task[q]
    BY <2>1 DEF TypeInv, TypeOK, TasksOK
  <2>7. QED
    BY <2>1, <2>5, <2>6, MoveCleared DEF At
<1>10. CASE AskForSecret(r)
  <2>1. task[r].pc = "run" /\ UNCHANGED <<delivered, hubRan, hubCalls>>
    BY <1>10 DEF AskForSecret, At, tables
  <2>2. CASE EndUnnoted(r, "noCredential")
    BY <2>1, <2>2, DoneCleared DEF EndUnnoted, At
  <2>3. CASE task' = [task EXCEPT ![r].pc = "ask", ![r].about = "credential",
                                  ![r].target = From(r)]
    <3>1. ~Ran(r)' /\ Permitted(r)
      BY <1>0, <2>1 DEF Cleared, Ran
    <3>2. task'[r] = [task[r] EXCEPT !.pc = "ask", !.about = "credential",
                                     !.target = From(r)]
      BY <2>3 DEF TypeInv, TypeOK, TasksOK
    <3>3. task'[r].pc = "ask" /\ task'[r].about = "credential" /\ Permitted(r)'
      BY <1>0, <3>1, <3>2 DEF Permitted, Task
    <3>4. Cleared(r)'
      BY <3>1, <3>3 DEF Cleared
    <3>5. \A q \in Requests \ {r} : task'[q] = task[q]
      BY <2>3 DEF TypeInv, TypeOK, TasksOK
    <3>6. QED
      BY <2>1, <3>4, <3>5, MoveCleared DEF At
  <2>4. QED
    BY <1>10, <2>2, <2>3 DEF AskForSecret
<1>11. CASE StoreSecret(r) \/ InvokeInternal(r)
  <2>1. /\ Goto(r, "done") /\ task[r].pc \in {"store", "run"}
        /\ UNCHANGED <<delivered, hubCalls>>
        /\ \A q \in Requests \ {r} : q \in hubRan' <=> q \in hubRan
    BY <1>11 DEF StoreSecret, InvokeInternal, EndNoted, EndUnnoted, At, tables
  <2>2. Permitted(r)
    BY <1>0, <2>1 DEF Cleared
  <2>3. QED
    BY <2>1, <2>2, RunCleared
<1>12. CASE Route(r)
  <2> DEFINE t == [task[r] EXCEPT !.pc = "forward",
                                  !.target = servers[sessions[Sid(r)].server]]
  <2>1. /\ task' = [task EXCEPT ![r] = t] /\ task[r].pc = "run"
        /\ UNCHANGED <<delivered, hubRan, hubCalls>>
    BY <1>12 DEF Route, At, tables, history
  <2>2. ~Ran(r)' /\ Permitted(r)
    BY <1>0, <2>1 DEF Cleared, Ran
  <2>3. task'[r].pc = "forward" /\ Permitted(r)'
    BY <1>0, <2>1, <2>2 DEF Permitted, Task, TypeInv, TypeOK, TasksOK
  <2>4. Cleared(r)'
    BY <2>2, <2>3 DEF Cleared
  <2>5. \A q \in Requests \ {r} : task'[q] = task[q]
    BY <2>1 DEF TypeInv, TypeOK, TasksOK
  <2>6. QED
    BY <2>1, <2>4, <2>5, MoveCleared DEF At
<1>13. CASE Forward(r)
  <2>1. /\ Goto(r, "done") /\ task[r].pc = "forward" /\ UNCHANGED <<hubCalls, hubRan>>
        /\ \A q \in Requests \ {r} : delivered'[q] = delivered[q]
    BY <1>13 DEF Forward, At, TypeInv, TypeOK, HistoryOK
  <2>2. Permitted(r)
    BY <1>0, <2>1 DEF Cleared
  <2>3. QED
    BY <2>1, <2>2, RunCleared
<1>14. QED
  BY <1>1, <1>2, <1>3, <1>4, <1>5, <1>6, <1>7, <1>8, <1>9, <1>10, <1>11, <1>12,
     <1>13 DEF RequestStep

LEMMA NextCleared == TypeInv /\ ClearedInv /\ [Next]_vars => ClearedInv'
<1> SUFFICES ASSUME TypeInv, ClearedInv, [Next]_vars PROVE ClearedInv'
  OBVIOUS
<1>1. ASSUME NEW r \in Requests, RequestStep(r) PROVE ClearedInv'
  BY <1>1, RequestCleared
<1>2. ASSUME NEW r \in Requests, EndingStep(r) PROVE ClearedInv'
  BY <1>2, QuietCleared DEF EndingStep, Deadline, EndRelay, Retire, Finish, tables
<1>3. CASE PeerStep
  <2>1. ASSUME NEW c \in Conns, Connect(c) \/ LoseAck(c) \/ Disconnect(c)
        PROVE  ClearedInv'
    <3>1. UNCHANGED <<task, delivered, hubRan>>
      BY <2>1 DEF Connect, LoseAck, Register, Disconnect, tasks, history
    <3>2. \A q \in Requests : hubCalls'[q] \in {None, hubCalls[q]}
      BY <2>1 DEF Connect, LoseAck, Register, Disconnect
    <3>3. QED
      BY <3>1, <3>2, QuietCleared
  <2>2. ASSUME NEW r \in Requests, Arrive(r) PROVE ClearedInv'
    <3>1. /\ task' = [task EXCEPT ![r].pc = Op(r)] /\ task[r].pc = "idle"
          /\ UNCHANGED <<delivered, hubRan, hubCalls>>
      BY <2>2 DEF Arrive, Goto, At, tables, history
    <3>2. task[r] \in Task /\ ~Ran(r)'
      BY <3>1 DEF TypeInv, TypeOK, TasksOK, ClearedInv, Cleared, Ran
    <3>3. task'[r].pc = Op(r) /\ Op(r) \in Ops
      BY <3>1, <3>2, RequestsAssumption DEF Op, Task, TypeInv, TypeOK, TasksOK
    <3>4. Cleared(r)'
      BY <3>2, <3>3 DEF Cleared, Ops
    <3>5. \A q \in Requests \ {r} : task'[q] = task[q]
      BY <3>1 DEF TypeInv, TypeOK, TasksOK
    <3>6. QED
      BY <3>1, <3>4, <3>5, MoveCleared DEF At
  <2>3. ASSUME NEW c \in Conns, NEW r \in Requests, Answer(c, r) PROVE ClearedInv'
    <3>1. PICK via, answer : /\ via \in Replies
                          /\ answer \in AnswersIn(via, task[r].about)
                          /\ Wake(r, c, via, answer)
      BY <2>3 DEF Answer
    <3>2. /\ At(r, "wait") /\ hubCalls[r] = c /\ c # None
          /\ hubCalls' = [hubCalls EXCEPT ![r] = None]
          /\ UNCHANGED <<delivered, hubRan>>
      BY <2>3, ConnsAssumption DEF Answer, MayAnswer, history
    <3>3. QED
      BY <3>1, <3>2, WakeCleared
  <2>4. ASSUME NEW c \in Guests, NEW r \in Requests,
               ServerAnswers(c, r) \/ Progress(c, r)
        PROVE  ClearedInv'
    BY <2>4, QuietCleared DEF ServerAnswers, EndRelay, Progress, tables
  <2>5. QED
    BY <1>3, <2>1, <2>2, <2>3, <2>4 DEF PeerStep
<1>4. ASSUME NEW c \in Guests, FailCalls(c) \/ RelayProgress(c) PROVE ClearedInv'
  BY <1>4, QuietCleared DEF FailCalls, RelayProgress, tables, history
<1>5. CASE UNCHANGED vars
  BY <1>5, QuietCleared DEF vars
<1>6. QED
  BY <1>1, <1>2, <1>3, <1>4, <1>5 DEF Next

\* Whatever runs, on a computer or in the hub, was allowed by the policy or by
\* the connection that owned the session when the policy was read.
THEOREM OnlyPermittedRun == Spec => []OnlyPermittedCallsRun
<1>1. Init => TypeInv /\ ClearedInv
  BY InitTypeInv DEF Init, Unused, ClearedInv, Cleared, Ran, NewTask
<1>2. TypeInv /\ ClearedInv /\ [Next]_vars => TypeInv' /\ ClearedInv'
  BY NextTypeInv, NextCleared
<1>3. ClearedInv => OnlyPermittedCallsRun
  BY DEF ClearedInv, Cleared, OnlyPermittedCallsRun
<1>4. QED
  BY <1>1, <1>2, <1>3, PTL DEF Spec

-----------------------------------------------------------------------------
(***************************************************************************)
(* What no step may do to a session, a computer or a registration.         *)
(***************************************************************************)

\* The steps that change no session and no table of computers.
LEMMA TablesUntouched ==
    ASSUME NEW r \in Requests, EndingStep(r) \/ Ask(r) \/ GiveUp(r) \/ Arrive(r)
    PROVE  UNCHANGED <<sessions, servers, takeovers>>
  BY DEF EndingStep, Deadline, EndRelay, Retire, Finish, Ask, GiveUp, Arrive, tables

LEMMA TablesUntouchedByFrames ==
    ASSUME NEW c, NEW r,
           Answer(c, r) \/ ServerAnswers(c, r) \/ Progress(c, r)
           \/ RelayProgress(c) \/ FailCalls(c)
    PROVE  UNCHANGED <<sessions, servers, takeovers>>
  BY DEF Answer, ServerAnswers, EndRelay, Progress, RelayProgress, FailCalls, tables

\* The steps that change a field of a session in place, or take it away.
LEMMA RequestKeepsOwners ==
    ASSUME TypeInv, NEW r \in Requests, RequestStep(r)
    PROVE  OwnersKept
<1>1. sessions \in [Sessions -> Session \cup {None}]
  BY DEF TypeInv, TypeOK, TablesOK
<1>2. CASE Open(r)
  <2>1. CASE UNCHANGED sessions
    BY <2>1 DEF OwnersKept
  <2>2. ASSUME NEW s \in Sessions, MayOpen(r, s), sessions'[s].owner = From(r),
               \A q \in Sessions \ {s} : sessions'[q] = sessions[q]
        PROVE  OwnersKept
    BY <2>2 DEF MayOpen, OwnedBy, OwnersKept
  <2>3. QED
    BY <1>1, <1>2, <2>1, <2>2 DEF Open
<1>3. CASE Close(r)
  BY <1>1, <1>3 DEF Close, OwnersKept
<1>4. CASE Serve(r)
  BY <1>1, <1>4 DEF Serve, OwnersKept, Session
<1>5. CASE Bound(r)
  BY <1>1, <1>5 DEF Bound, OwnersKept, Session
<1>6. CASE CallReplayed(r)
  BY <1>1, <1>6 DEF CallReplayed, OwnersKept, Session
<1>7. CASE Approved(r)
  BY <1>1, <1>7 DEF Approved, OwnersKept, Session
<1>8. CASE UNCHANGED sessions
  BY <1>8 DEF OwnersKept
<1>9. QED
  <2>1. CASE Ask(r) \/ GiveUp(r)
    BY <1>8, <2>1, TablesUntouched
  <2>2. CASE BindLookup(r) \/ TakeOver(r) \/ Release(r) \/ CallLive(r)
    BY <1>8, <2>2 DEF BindLookup, TakeOver, Release, CallLive, tables
  <2>3. CASE ConsultPolicy(r) \/ NoSuchSession(r) \/ HookPasses(r) \/ HookVetoes(r)
             \/ Refused(r)
    BY <1>8, <2>3 DEF ConsultPolicy, NoSuchSession, HookPasses, HookVetoes, Refused,
       tables
  <2>4. CASE AskForSecret(r) \/ StoreSecret(r) \/ InvokeInternal(r) \/ Route(r)
             \/ CannotRoute(r) \/ Forward(r)
    BY <1>8, <2>4 DEF AskForSecret, StoreSecret, InvokeInternal, Route, CannotRoute,
       Forward, tables
  <2>5. QED
    BY <1>2, <1>3, <1>4, <1>5, <1>6, <1>7, <2>1, <2>2, <2>3, <2>4 DEF RequestStep

LEMMA DisconnectKeepsOwners ==
    ASSUME TypeInv, NEW c \in Conns, Disconnect(c)
    PROVE  OwnersKept
<1>1. SUFFICES ASSUME NEW s \in Sessions, sessions[s] # None, sessions'[s] # None
               PROVE  sessions'[s].owner = sessions[s].owner
  BY DEF OwnersKept
<1>2. sessions[s] \in Session /\ sessions'[s] = SessionWithout(c, s)
  BY <1>1 DEF TypeInv, TypeOK, TablesOK, Disconnect
<1>3. QED
  BY <1>1, <1>2 DEF SessionWithout, Session

\* A session never changes hands: while it lasts, its owner is the connection
\* that opened it.
THEOREM SessionsKeepOwners == Spec => SessionKeepsItsOwner
<1>1. Init => TypeInv
  BY InitTypeInv
<1>2. TypeInv /\ [Next]_vars => TypeInv'
  BY NextTypeInv
<1>3. TypeInv /\ [Next]_vars => [OwnersKept]_vars
  <2> SUFFICES ASSUME TypeInv, Next PROVE OwnersKept
    OBVIOUS
  <2>1. ASSUME UNCHANGED sessions PROVE OwnersKept
    BY <2>1 DEF OwnersKept
  <2>2. ASSUME NEW r \in Requests, RequestStep(r) \/ EndingStep(r) \/ Arrive(r)
        PROVE  OwnersKept
    BY <2>1, <2>2, RequestKeepsOwners, TablesUntouched
  <2>3. ASSUME NEW c \in Conns, Connect(c) \/ LoseAck(c) \/ Disconnect(c)
        PROVE  OwnersKept
    BY <2>1, <2>3, DisconnectKeepsOwners DEF Connect, LoseAck, Register
  <2>4. ASSUME NEW c \in Conns, NEW r \in Requests,
               Answer(c, r) \/ ServerAnswers(c, r) \/ Progress(c, r)
        PROVE  OwnersKept
    BY <2>1, <2>4, TablesUntouchedByFrames
  <2>5. ASSUME NEW c \in Guests, FailCalls(c) \/ RelayProgress(c) PROVE OwnersKept
    BY <2>1, <2>5, TablesUntouchedByFrames
  <2>6. QED
    BY <2>2, <2>3, <2>4, <2>5 DEF Next, PeerStep, Conns
<1>4. QED
  BY <1>1, <1>2, <1>3, PTL DEF Spec, SessionKeepsItsOwner

\* A computer taken over is given back only by its holder's request or by its
\* holder's leaving.
THEOREM HolderGivesBack == Spec => OnlyTheHolderGivesBack
<1>1. Init => TypeInv
  BY InitTypeInv
<1>2. TypeInv /\ [Next]_vars => TypeInv'
  BY NextTypeInv
<1>3. TypeInv /\ [Next]_vars => [GivenBackByHolder]_vars
  <2> SUFFICES ASSUME TypeInv, Next PROVE GivenBackByHolder
    OBVIOUS
  <2>1. ASSUME UNCHANGED takeovers PROVE GivenBackByHolder
    BY <2>1 DEF GivenBackByHolder
  <2>2. ASSUME NEW r \in Requests, RequestStep(r) PROVE GivenBackByHolder
    <3>1. CASE TakeOver(r)
      BY <3>1 DEF TakeOver, GivenBackByHolder, TypeInv, TypeOK, TablesOK
    <3>2. CASE Release(r)
      BY <3>2 DEF Release, MayRelease, GivenBackByHolder, TypeInv, TypeOK, TablesOK
    <3>3. CASE Open(r) \/ Close(r) \/ Serve(r) \/ Bound(r) \/ Approved(r)
               \/ CallReplayed(r)
      BY <2>1, <3>3 DEF Open, Close, Serve, Bound, Approved, CallReplayed
    <3>4. CASE BindLookup(r) \/ Ask(r) \/ GiveUp(r) \/ CallLive(r)
      BY <2>1, <3>4 DEF BindLookup, Ask, GiveUp, CallLive, tables
    <3>5. CASE ConsultPolicy(r) \/ NoSuchSession(r) \/ HookPasses(r)
               \/ HookVetoes(r) \/ Refused(r)
      BY <2>1, <3>5 DEF ConsultPolicy, NoSuchSession, HookPasses, HookVetoes,
         Refused, tables
    <3>6. CASE AskForSecret(r) \/ StoreSecret(r) \/ InvokeInternal(r) \/ Route(r)
               \/ CannotRoute(r) \/ Forward(r)
      BY <2>1, <3>6 DEF AskForSecret, StoreSecret, InvokeInternal, Route,
         CannotRoute, Forward, tables
    <3>7. QED
      BY <2>2, <3>1, <3>2, <3>3, <3>4, <3>5, <3>6 DEF RequestStep
  <2>3. ASSUME NEW r \in Requests, EndingStep(r) \/ Arrive(r)
        PROVE  GivenBackByHolder
    BY <2>1, <2>3, TablesUntouched
  <2>4. ASSUME NEW c \in Conns, Connect(c) \/ LoseAck(c) PROVE GivenBackByHolder
    BY <2>1, <2>4 DEF Connect, LoseAck, Register
  <2>5. ASSUME NEW c \in Conns, Disconnect(c) PROVE GivenBackByHolder
    BY <2>5 DEF Disconnect, TakeoversWithout, GivenBackByHolder, TypeInv, TypeOK,
       TablesOK
  <2>6. ASSUME NEW c \in Conns, NEW r \in Requests,
               Answer(c, r) \/ ServerAnswers(c, r) \/ Progress(c, r)
        PROVE  GivenBackByHolder
    BY <2>1, <2>6, TablesUntouchedByFrames
  <2>7. ASSUME NEW c \in Guests, FailCalls(c) \/ RelayProgress(c)
        PROVE  GivenBackByHolder
    BY <2>1, <2>7, TablesUntouchedByFrames
  <2>8. QED
    BY <2>2, <2>3, <2>4, <2>5, <2>6, <2>7 DEF Next, PeerStep, Conns
<1>4. QED
  BY <1>1, <1>2, <1>3, PTL DEF Spec, OnlyTheHolderGivesBack

-----------------------------------------------------------------------------
(***************************************************************************)
(* The hub keeps its promise about every tool call: Hub implements Promise,   *)
(* for every set of connections, sessions, call ids and requests.            *)
(***************************************************************************)

-----------------------------------------------------------------------------
(***************************************************************************)
(* Steps of the promise.  A step of the hub is about one request.           *)
(***************************************************************************)

SameCall(r) ==
    /\ Permitted(r)' <=> Permitted(r)
    /\ Ran(r)' <=> Ran(r)
    /\ answers'[r] = answers[r]

OthersKept(r) == \A q \in Requests \ {r} : SameCall(q)

LEMMA QuietStep ==
    ASSUME \A q \in Requests : SameCall(q)
    PROVE  UNCHANGED P!vars
<1>1. \A q \in ToolCalls : SameCall(q)
  BY DEF ToolCalls
<1>2. {q \in ToolCalls : Permitted(q)}' = {q \in ToolCalls : Permitted(q)}
  BY <1>1 DEF SameCall
<1>3. {q \in ToolCalls : Ran(q)}' = {q \in ToolCalls : Ran(q)}
  BY <1>1 DEF SameCall
<1>4. [q \in ToolCalls |-> answers[q]]' = [q \in ToolCalls |-> answers[q]]
  BY <1>1 DEF SameCall
<1>5. QED
  BY <1>2, <1>3, <1>4 DEF P!vars

LEMMA ClearStep ==
    ASSUME NEW r \in ToolCalls, OthersKept(r), answers[r] = <<>>, answers'[r] = <<>>,
           ~Ran(r), ~Ran(r)', Permitted(r)'
    PROVE  P!Next
<1>1. \A q \in ToolCalls \ {r} : SameCall(q)
  BY DEF ToolCalls, OthersKept
<1>2. {q \in ToolCalls : Permitted(q)}' = {q \in ToolCalls : Permitted(q)} \cup {r}
  BY <1>1 DEF SameCall
<1>3. {q \in ToolCalls : Ran(q)}' = {q \in ToolCalls : Ran(q)}
  BY <1>1 DEF SameCall
<1>4. [q \in ToolCalls |-> answers[q]]' = [q \in ToolCalls |-> answers[q]]
  BY <1>1 DEF SameCall
<1>5. P!Clear(r)
  BY <1>2, <1>3, <1>4 DEF P!Clear, P!Open
<1>6. QED
  BY <1>5 DEF P!Next

LEMMA RunStep ==
    ASSUME NEW r \in ToolCalls, OthersKept(r), answers[r] = <<>>, answers'[r] = <<>>,
           ~Ran(r), Ran(r)', Permitted(r), Permitted(r)'
    PROVE  P!Next
<1>1. \A q \in ToolCalls \ {r} : SameCall(q)
  BY DEF ToolCalls, OthersKept
<1>2. {q \in ToolCalls : Permitted(q)}' = {q \in ToolCalls : Permitted(q)}
  BY <1>1 DEF SameCall
<1>3. {q \in ToolCalls : Ran(q)}' = {q \in ToolCalls : Ran(q)} \cup {r}
  BY <1>1 DEF SameCall
<1>4. [q \in ToolCalls |-> answers[q]]' = [q \in ToolCalls |-> answers[q]]
  BY <1>1 DEF SameCall
<1>5. P!Run(r)
  BY <1>2, <1>3, <1>4 DEF P!Run, P!Open
<1>6. QED
  BY <1>5 DEF P!Next

LEMMA TellStep ==
    ASSUME NEW r \in ToolCalls, OthersKept(r), NEW how \in Hows,
           answers[r] = <<>>, answers'[r] = <<how>>,
           Ran(r)' <=> Ran(r), Permitted(r)' <=> Permitted(r),
           how \in Refusals => ~Ran(r), how = "ok" => Ran(r)
    PROVE  P!Next
<1>1. \A q \in ToolCalls \ {r} : SameCall(q)
  BY DEF ToolCalls, OthersKept
<1>2. {q \in ToolCalls : Permitted(q)}' = {q \in ToolCalls : Permitted(q)}
  BY <1>1 DEF SameCall
<1>3. {q \in ToolCalls : Ran(q)}' = {q \in ToolCalls : Ran(q)}
  BY <1>1 DEF SameCall
<1>4. [q \in ToolCalls |-> answers[q]]' =
        [[q \in ToolCalls |-> answers[q]] EXCEPT ![r] = <<how>>]
  BY <1>1 DEF SameCall
<1>5. P!Tell(r, how)
  BY <1>2, <1>3, <1>4 DEF P!Tell
<1>6. QED
  BY <1>5 DEF P!Next

LEMMA RunAndTellStep ==
    ASSUME NEW r \in ToolCalls, OthersKept(r), NEW how \in Hows \ Refusals,
           answers[r] = <<>>, answers'[r] = <<how>>,
           ~Ran(r), Ran(r)', Permitted(r), Permitted(r)'
    PROVE  P!Next
<1>1. \A q \in ToolCalls \ {r} : SameCall(q)
  BY DEF ToolCalls, OthersKept
<1>2. {q \in ToolCalls : Permitted(q)}' = {q \in ToolCalls : Permitted(q)}
  BY <1>1 DEF SameCall
<1>3. {q \in ToolCalls : Ran(q)}' = {q \in ToolCalls : Ran(q)} \cup {r}
  BY <1>1 DEF SameCall
<1>4. [q \in ToolCalls |-> answers[q]]' =
        [[q \in ToolCalls |-> answers[q]] EXCEPT ![r] = <<how>>]
  BY <1>1 DEF SameCall
<1>5. P!RunAndTell(r, how)
  BY <1>2, <1>3, <1>4 DEF P!RunAndTell, P!Open
<1>6. QED
  BY <1>5 DEF P!Next

-----------------------------------------------------------------------------
(***************************************************************************)
(* Nothing is decided early: until the policy is read a call has no verdict, *)
(* and until the owner answers it has no approval.  So a permission, once     *)
(* given, stays as it was given.                                             *)
(***************************************************************************)

Early == {"idle", "policy"} \cup Ops

Fresh(r) ==
    LET t == task[r] IN
    /\ t.pc \in Early => t.verdict = None /\ t.approval = None
    /\ t.pc = "hook" => t.approval = None
    /\ t.pc \in {"ask", "wait"} /\ t.about = "approval" => t.approval = None

FreshInv == \A r \in Requests : Fresh(r)

LEMMA QuietFresh ==
    ASSUME FreshInv, UNCHANGED task
    PROVE  FreshInv'
  BY DEF FreshInv, Fresh

LEMMA MoveFresh ==
    ASSUME FreshInv, NEW r \in Requests, Fresh(r)',
           \A q \in Requests \ {r} : task'[q] = task[q]
    PROVE  FreshInv'
  BY DEF FreshInv, Fresh

LEMMA LaterFresh ==
    ASSUME FreshInv, NEW r \in Requests,
           task'[r].pc \in {"done", "decide", "store", "bound", "run", "forward"},
           \A q \in Requests \ {r} : task'[q] = task[q]
    PROVE  FreshInv'
<1>1. Fresh(r)'
  BY DEF Fresh, Early, Ops
<1>2. QED
  BY <1>1, MoveFresh

LEMMA DoneFresh ==
    ASSUME TypeInv, FreshInv, NEW r \in Requests, Goto(r, "done")
    PROVE  FreshInv'
  BY GotoDone, LaterFresh DEF At

LEMMA WakeFresh ==
    ASSUME TypeInv, FreshInv, NEW r \in Requests, NEW c, NEW via, NEW answer,
           Wake(r, c, via, answer)
    PROVE  FreshInv'
<1>1. task[r] \in Task /\ task \in [Requests -> Task]
  BY DEF TypeInv, TypeOK, TasksOK
<1>2. task'[r].pc \in {"decide", "store", "bound"}
  BY <1>1 DEF Wake, After, Task
<1>3. \A q \in Requests \ {r} : task'[q] = task[q]
  BY <1>1 DEF Wake
<1>4. QED
  BY <1>2, <1>3, LaterFresh

LEMMA RequestFresh ==
    ASSUME TypeInv, FreshInv, NEW r \in Requests, RequestStep(r)
    PROVE  FreshInv'
<1>0. task \in [Requests -> Task] /\ task[r] \in Task /\ Fresh(r)
  BY DEF TypeInv, TypeOK, TasksOK, FreshInv
<1>1. CASE Goto(r, "done")
  BY <1>1, DoneFresh
<1>2. CASE BindLookup(r) /\ ~Goto(r, "done")
  <2>1. task' = [task EXCEPT ![r].pc = "ask", ![r].about = "bind",
                             ![r].target = servers[Req[r].server]]
    BY <1>2 DEF BindLookup
  <2>2. task'[r].pc = "ask" /\ task'[r].about = "bind"
    BY <1>0, <2>1 DEF Task
  <2>3. Fresh(r)' /\ \A q \in Requests \ {r} : task'[q] = task[q]
    BY <1>0, <2>1, <2>2 DEF Fresh, Early, Ops
  <2>4. QED
    BY <2>3, MoveFresh
<1>3. CASE Ask(r)
  <2>1. task' = [task EXCEPT ![r] = [task[r] EXCEPT !.pc = "wait"]]
        /\ task[r].pc = "ask"
    BY <1>3 DEF Ask, Goto, At
  <2>2. /\ task'[r].pc = "wait" /\ task'[r].about = task[r].about
        /\ task'[r].approval = task[r].approval
    BY <1>0, <2>1 DEF Task
  <2>3. Fresh(r)' /\ \A q \in Requests \ {r} : task'[q] = task[q]
    BY <1>0, <2>1, <2>2 DEF Fresh, Early, Ops
  <2>4. QED
    BY <2>3, MoveFresh
<1>4. CASE GiveUp(r)
  BY <1>4, WakeFresh DEF GiveUp
<1>5. CASE CallLive(r)
  <2>1. task' = [task EXCEPT ![r] = [task[r] EXCEPT !.pc = "policy"]]
        /\ task[r].pc = "call"
    BY <1>5 DEF CallLive, Goto, At
  <2>2. /\ task'[r].pc = "policy" /\ task'[r].verdict = task[r].verdict
        /\ task'[r].approval = task[r].approval
    BY <1>0, <2>1 DEF Task
  <2>3. Fresh(r)' /\ \A q \in Requests \ {r} : task'[q] = task[q]
    BY <1>0, <2>1, <2>2 DEF Fresh, Early, Ops
  <2>4. QED
    BY <2>3, MoveFresh
<1>6. CASE ConsultPolicy(r)
  <2>1. /\ task'[r].pc \in {"done", "hook"} /\ task'[r].approval = task[r].approval
        /\ task[r].pc = "policy" /\ \A q \in Requests \ {r} : task'[q] = task[q]
    BY <1>0, <1>6 DEF ConsultPolicy, At, Task
  <2>2. Fresh(r)'
    BY <1>0, <2>1 DEF Fresh, Early, Ops
  <2>3. QED
    BY <2>1, <2>2, MoveFresh
<1>7. CASE HookPasses(r)
  <2>1. /\ task'[r].pc \in {"ask", "run"} /\ task'[r].approval = task[r].approval
        /\ task[r].pc = "hook" /\ \A q \in Requests \ {r} : task'[q] = task[q]
    BY <1>0, <1>7 DEF HookPasses, At, Task
  <2>2. Fresh(r)'
    BY <1>0, <2>1 DEF Fresh, Early, Ops
  <2>3. QED
    BY <2>1, <2>2, MoveFresh
<1>8. CASE Approved(r) \/ Route(r)
  <2>1. /\ task'[r].pc \in {"run", "forward"}
        /\ \A q \in Requests \ {r} : task'[q] = task[q]
    BY <1>0, <1>8 DEF Approved, Route, Goto, Task
  <2>2. QED
    BY <2>1, LaterFresh
<1>9. CASE AskForSecret(r) /\ ~Goto(r, "done")
  <2>1. task' = [task EXCEPT ![r].pc = "ask", ![r].about = "credential",
                             ![r].target = From(r)]
    BY <1>9 DEF AskForSecret, EndUnnoted
  <2>2. task'[r].pc = "ask" /\ task'[r].about = "credential"
    BY <1>0, <2>1 DEF Task
  <2>3. Fresh(r)' /\ \A q \in Requests \ {r} : task'[q] = task[q]
    BY <1>0, <2>1, <2>2 DEF Fresh, Early, Ops
  <2>4. QED
    BY <2>3, MoveFresh
<1>10. QED
  <2>1. CASE Open(r) \/ Close(r) \/ Serve(r) \/ Bound(r) \/ TakeOver(r) \/ Release(r)
             \/ Forward(r)
    BY <1>1, <2>1 DEF Open, Close, Serve, Bound, TakeOver, Release, Forward
  <2>2. CASE CallReplayed(r) \/ NoSuchSession(r) \/ HookVetoes(r) \/ Refused(r)
             \/ StoreSecret(r) \/ InvokeInternal(r) \/ CannotRoute(r)
    BY <1>1, <2>2 DEF CallReplayed, NoSuchSession, HookVetoes, Refused, StoreSecret,
       InvokeInternal, CannotRoute, EndNoted, EndUnnoted
  <2>3. QED
    BY <1>1, <1>2, <1>3, <1>4, <1>5, <1>6, <1>7, <1>8, <1>9, <2>1, <2>2
       DEF RequestStep

LEMMA NextFresh == TypeInv /\ FreshInv /\ [Next]_vars => FreshInv'
<1> SUFFICES ASSUME TypeInv, FreshInv, [Next]_vars PROVE FreshInv'
  OBVIOUS
<1>1. ASSUME NEW r \in Requests, RequestStep(r) PROVE FreshInv'
  BY <1>1, RequestFresh
<1>2. ASSUME NEW r \in Requests, EndingStep(r) PROVE FreshInv'
  BY <1>2, QuietFresh DEF EndingStep, Deadline, EndRelay, Retire, Finish
<1>3. ASSUME NEW c \in Conns, Connect(c) \/ LoseAck(c) \/ Disconnect(c)
      PROVE  FreshInv'
  BY <1>3, QuietFresh DEF Connect, LoseAck, Register, Disconnect, tasks
<1>4. ASSUME NEW r \in Requests, Arrive(r) PROVE FreshInv'
  <2>1. task \in [Requests -> Task] /\ task[r] \in Task /\ Fresh(r)
    BY DEF TypeInv, TypeOK, TasksOK, FreshInv
  <2>2. task' = [task EXCEPT ![r] = [task[r] EXCEPT !.pc = Op(r)]]
        /\ task[r].pc = "idle" /\ Op(r) \in Ops
    BY <1>4, RequestsAssumption DEF Arrive, Goto, At, Op
  <2>3. /\ task'[r].pc \in Ops /\ task'[r].verdict = task[r].verdict
        /\ task'[r].approval = task[r].approval
    BY <2>1, <2>2 DEF Task
  <2>4. Fresh(r)' /\ \A q \in Requests \ {r} : task'[q] = task[q]
    BY <2>1, <2>2, <2>3 DEF Fresh, Early, Ops
  <2>5. QED
    BY <2>4, MoveFresh
<1>5. ASSUME NEW c \in Conns, NEW r \in Requests, Answer(c, r) PROVE FreshInv'
  BY <1>5, WakeFresh DEF Answer
<1>6. ASSUME NEW c \in Guests, NEW r \in Requests, ServerAnswers(c, r) \/ Progress(c, r)
      PROVE  FreshInv'
  BY <1>6, QuietFresh DEF ServerAnswers, EndRelay, Progress
<1>7. ASSUME NEW c \in Guests, FailCalls(c) \/ RelayProgress(c) PROVE FreshInv'
  BY <1>7, QuietFresh DEF FailCalls, RelayProgress
<1>8. CASE UNCHANGED vars
  BY <1>8, QuietFresh DEF vars
<1>9. QED
  BY <1>1, <1>2, <1>3, <1>4, <1>5, <1>6, <1>7, <1>8 DEF Next, PeerStep

-----------------------------------------------------------------------------
(***************************************************************************)
(* A guest that ends a call with "ok" has run it: a relay is to a connection *)
(* that once came up, so while that connection is up the frame was delivered. *)
(***************************************************************************)

Sent(r) ==
    /\ task[r].pc = "forward" => conns[task[r].target] # "new"
    /\ relays[r] # None => /\ Op(r) = "call"
                           /\ conns[relays[r]] # "new"
                           /\ conns[relays[r]] = "up" => delivered[r] = relays[r]
    /\ ending[r] # None => /\ Op(r) = "call"
                           /\ ending[r].how = "ok" => Ran(r)

Registered == \A v \in Servers : servers[v] # None => conns[servers[v]] # "new"

SentInv == Registered /\ \A r \in Requests : Sent(r)

\* No connection becomes new again, or up again.
OnlyAge ==
    \A c \in Conns :
        conns[c] # "new" => conns'[c] # "new" /\ (conns'[c] = "up" => conns[c] = "up")

\* A step that forwards nothing, and after which no more calls have ended "ok".
SentAsBefore(r) ==
    /\ task'[r].pc = "forward" =>
          task[r].pc = "forward" /\ task'[r].target = task[r].target
    /\ relays'[r] \in {None, relays[r]}
    /\ ending'[r] # None /\ ending'[r] # ending[r] =>
          Op(r) = "call" /\ (ending'[r].how = "ok" => Ran(r))
    /\ delivered'[r] = delivered[r]
    /\ r \in hubRan => r \in hubRan'

LEMMA KeptSent ==
    ASSUME TypeInv, SentInv, OnlyAge, NEW r \in Requests, SentAsBefore(r)
    PROVE  Sent(r)'
<1>1. Sent(r)
  BY DEF SentInv
<1>2. task'[r].pc = "forward" => conns'[task'[r].target] # "new"
  <2>1. SUFFICES ASSUME task'[r].pc = "forward" PROVE conns'[task[r].target] # "new"
    BY DEF SentAsBefore
  <2>2. task[r].pc = "forward" /\ conns[task[r].target] # "new"
    BY <1>1, <2>1 DEF Sent, SentAsBefore
  <2>3. task[r].target \in Conns
    BY <2>2 DEF TypeInv, TasksFit, Fits, Conns
  <2>4. QED
    BY <2>2, <2>3 DEF OnlyAge
<1>3. relays'[r] # None => /\ Op(r) = "call" /\ conns'[relays'[r]] # "new"
                           /\ conns'[relays'[r]] = "up" => delivered'[r] = relays'[r]
  <2>1. SUFFICES ASSUME relays'[r] # None PROVE
           /\ Op(r) = "call" /\ conns'[relays[r]] # "new"
           /\ conns'[relays[r]] = "up" => delivered[r] = relays[r]
    BY DEF SentAsBefore
  <2>2. relays[r] # None /\ relays[r] \in Conns
    BY <2>1 DEF SentAsBefore, TypeInv, TypeOK, TablesOK, Conns
  <2>3. QED
    BY <1>1, <2>2 DEF Sent, OnlyAge
<1>4. ending'[r] # None => Op(r) = "call" /\ (ending'[r].how = "ok" => Ran(r)')
  <2>1. Ran(r) => Ran(r)'
    BY DEF SentAsBefore, Ran
  <2>2. CASE ending'[r] = ending[r]
    BY <1>1, <2>1, <2>2 DEF Sent
  <2>3. CASE ending'[r] # ending[r]
    BY <2>1, <2>3 DEF SentAsBefore
  <2>4. QED
    BY <2>2, <2>3
<1>5. QED
  BY <1>2, <1>3, <1>4 DEF Sent

\* A step that registers nobody.
LEMMA StepSent ==
    ASSUME TypeInv, SentInv, OnlyAge,
           \A v \in Servers : servers'[v] \in {None, servers[v]},
           \A r \in Requests : SentAsBefore(r)
    PROVE  SentInv'
<1>1. \A r \in Requests : Sent(r)'
  BY KeptSent
<1>2. Registered'
  <2>1. SUFFICES ASSUME NEW v \in Servers, servers'[v] # None
                 PROVE  conns'[servers'[v]] # "new"
    BY DEF Registered
  <2>2. servers'[v] = servers[v] /\ servers[v] \in Conns /\ conns[servers[v]] # "new"
    BY <2>1 DEF SentInv, Registered, TypeInv, TypeOK, TablesOK, Conns
  <2>3. QED
    BY <2>2 DEF OnlyAge
<1>3. QED
  BY <1>1, <1>2 DEF SentInv

\* A step of a task that is not about to forward.
LEMMA TaskSent ==
    ASSUME TypeInv, SentInv, NEW r \in Requests, task'[r].pc # "forward",
           \A q \in Requests \ {r} : task'[q] = task[q],
           UNCHANGED <<conns, servers, relays, ending, delivered>>,
           hubRan \subseteq hubRan'
    PROVE  SentInv'
<1>1. OnlyAge /\ \A v \in Servers : servers'[v] \in {None, servers[v]}
  BY DEF OnlyAge
<1>2. SentAsBefore(r) /\ \A q \in Requests \ {r} : SentAsBefore(q)
  BY DEF SentAsBefore
<1>3. QED
  BY <1>1, <1>2, StepSent

LEMMA QuietSent ==
    ASSUME TypeInv, SentInv, OnlyAge,
           \A v \in Servers : servers'[v] \in {None, servers[v]},
           UNCHANGED <<task, ending, delivered, hubRan>>,
           \A r \in Requests : relays'[r] \in {None, relays[r]}
    PROVE  SentInv'
<1>1. \A r \in Requests : SentAsBefore(r)
  BY DEF SentAsBefore
<1>2. QED
  BY <1>1, StepSent

LEMMA DoneSent ==
    ASSUME TypeInv, SentInv, NEW r \in Requests, Goto(r, "done"),
           UNCHANGED <<conns, servers, relays, ending, delivered>>,
           hubRan \subseteq hubRan'
    PROVE  SentInv'
  BY GotoDone, TaskSent DEF At

LEMMA WakeSent ==
    ASSUME TypeInv, SentInv, NEW r \in Requests, NEW c, NEW via, NEW answer, Wake(r, c, via, answer),
           UNCHANGED <<conns, servers, relays, ending, delivered, hubRan>>
    PROVE  SentInv'
<1>1. task[r] \in Task /\ task \in [Requests -> Task]
  BY DEF TypeInv, TypeOK, TasksOK
<1>2. task'[r].pc \in {"decide", "store", "bound"}
  BY <1>1 DEF Wake, After, Task
<1>3. \A q \in Requests \ {r} : task'[q] = task[q]
  BY <1>1 DEF Wake
<1>4. QED
  BY <1>2, <1>3, TaskSent

LEMMA RouteSent ==
    ASSUME TypeInv, SentInv, NEW r \in Requests, Route(r)
    PROVE  SentInv'
<1> DEFINE target == servers[sessions[Sid(r)].server]
<1>1. UNCHANGED <<conns, servers, relays, ending, delivered, hubRan>>
  BY DEF Route, tables, history
<1>2. task' = [task EXCEPT ![r].pc = "forward", ![r].target = target]
  BY DEF Route
<1>3. Op(r) = "call" /\ task[r].pc = "run"
  BY DEF Route, At, TypeInv, TasksFit, Fits, CallSections
<1>4. Sid(r) \in Sessions
  BY <1>3, RequestsAssumption DEF Op, Sid
<1>5. sessions[Sid(r)] \in Session /\ sessions[Sid(r)].server \in Servers
  BY <1>4 DEF Route, Bindable, OwnedBy, TypeInv, TypeOK, TablesOK, Session
<1>6. conns[target] # "new"
  BY <1>5 DEF Route, SentInv, Registered
<1>7. task'[r].pc = "forward" /\ task'[r].target = target
      /\ \A q \in Requests \ {r} : task'[q] = task[q]
  BY <1>2 DEF TypeInv, TypeOK, TasksOK, Task
<1>8. Sent(r)'
  <2>1. Sent(r)
    BY DEF SentInv
  <2>2. Ran(r)' <=> Ran(r)
    BY <1>1 DEF Ran
  <2>3. QED
    BY <1>1, <1>6, <1>7, <2>1, <2>2 DEF Sent
<1>9. \A q \in Requests \ {r} : Sent(q)'
  <2>1. OnlyAge /\ \A q \in Requests \ {r} : SentAsBefore(q)
    BY <1>1, <1>7 DEF OnlyAge, SentAsBefore
  <2>2. QED
    BY <2>1, KeptSent
<1>10. Registered'
  BY <1>1 DEF SentInv, Registered
<1>11. QED
  BY <1>8, <1>9, <1>10 DEF SentInv

LEMMA ForwardSent ==
    ASSUME TypeInv, OnceInv, SentInv, NEW r \in Requests, Forward(r)
    PROVE  SentInv'
<1>1. UNCHANGED <<conns, servers, ending, hubRan>>
  BY DEF Forward
<1>2. task'[r].pc = "done" /\ \A q \in Requests \ {r} : task'[q] = task[q]
  BY GotoDone DEF Forward, At
<1>3. Op(r) = "call" /\ task[r].pc = "forward" /\ ending[r] = None
  BY DEF Forward, At, TypeInv, TasksFit, Fits, CallSections, OnceInv, OnePhase
<1>4. /\ relays'[r] = task[r].target
      /\ \A q \in Requests \ {r} : relays'[q] = relays[q]
  BY DEF Forward, TypeInv, TypeOK, TablesOK
<1>5. /\ conns[task[r].target] = "up" => delivered'[r] = task[r].target
      /\ \A q \in Requests \ {r} : delivered'[q] = delivered[q]
  BY DEF Forward, TypeInv, TypeOK, HistoryOK
<1>6. conns[task[r].target] # "new"
  BY <1>3 DEF SentInv, Sent
<1>7. Sent(r)'
  BY <1>1, <1>2, <1>3, <1>4, <1>5, <1>6 DEF Sent
<1>8. \A q \in Requests \ {r} : Sent(q)'
  <2>1. OnlyAge /\ \A q \in Requests \ {r} : SentAsBefore(q)
    BY <1>1, <1>2, <1>4, <1>5 DEF OnlyAge, SentAsBefore
  <2>2. QED
    BY <2>1, KeptSent
<1>9. Registered'
  BY <1>1 DEF SentInv, Registered
<1>10. QED
  BY <1>7, <1>8, <1>9 DEF SentInv

LEMMA RequestSent ==
    ASSUME TypeInv, OnceInv, SentInv, NEW r \in Requests, RequestStep(r)
    PROVE  SentInv'
<1>0. task \in [Requests -> Task] /\ task[r] \in Task
  BY DEF TypeInv, TypeOK, TasksOK
<1>1. CASE Open(r) \/ Close(r) \/ Serve(r) \/ Bound(r) \/ TakeOver(r) \/ Release(r)
  BY <1>1, DoneSent DEF Open, Close, Serve, Bound, TakeOver, Release, history
<1>2. CASE CallReplayed(r) \/ NoSuchSession(r) \/ HookVetoes(r) \/ Refused(r)
           \/ CannotRoute(r)
  BY <1>2, DoneSent DEF CallReplayed, NoSuchSession, HookVetoes, Refused, CannotRoute,
     EndNoted, EndUnnoted, tables
<1>3. CASE StoreSecret(r) \/ InvokeInternal(r)
  BY <1>3, DoneSent DEF StoreSecret, InvokeInternal, EndNoted, EndUnnoted, tables
<1>4. CASE BindLookup(r) \/ Ask(r) \/ CallLive(r) \/ HookPasses(r) \/ Approved(r)
  <2>1. UNCHANGED <<conns, servers, relays, ending, delivered, hubRan>>
    BY <1>4 DEF BindLookup, Ask, CallLive, HookPasses, Approved, tables, history
  <2>2. task'[r].pc # "forward" /\ \A q \in Requests \ {r} : task'[q] = task[q]
    BY <1>0, <1>4 DEF BindLookup, Ask, CallLive, HookPasses, Approved, Goto, Task
  <2>3. QED
    BY <2>1, <2>2, TaskSent
<1>5. CASE ConsultPolicy(r)
  <2>1. UNCHANGED <<conns, servers, relays, ending, delivered, hubRan>>
    BY <1>5 DEF ConsultPolicy, tables
  <2>2. task'[r].pc # "forward" /\ \A q \in Requests \ {r} : task'[q] = task[q]
    BY <1>0, <1>5 DEF ConsultPolicy, Task
  <2>3. QED
    BY <2>1, <2>2, TaskSent
<1>6. CASE AskForSecret(r)
  <2>1. UNCHANGED <<conns, servers, relays, ending, delivered, hubRan>>
    BY <1>6 DEF AskForSecret, tables
  <2>2. CASE Goto(r, "done")
    BY <2>1, <2>2, DoneSent
  <2>3. CASE ~Goto(r, "done")
    <3>1. task'[r].pc # "forward" /\ \A q \in Requests \ {r} : task'[q] = task[q]
      BY <1>0, <1>6, <2>3 DEF AskForSecret, EndUnnoted, Task
    <3>2. QED
      BY <2>1, <3>1, TaskSent
  <2>4. QED
    BY <2>2, <2>3
<1>7. CASE GiveUp(r)
  BY <1>7, WakeSent DEF GiveUp, history
<1>8. CASE Route(r)
  BY <1>8, RouteSent
<1>9. CASE Forward(r)
  BY <1>9, ForwardSent
<1>10. QED
  BY <1>1, <1>2, <1>3, <1>4, <1>5, <1>6, <1>7, <1>8, <1>9 DEF RequestStep

LEMMA RegisterSent ==
    ASSUME TypeInv, SentInv, NEW c \in Conns, NEW state \in {"up", "orphaned"},
           Register(c, state)
    PROVE  SentInv'
<1>1. conns \in [Conns -> ConnStates] /\ servers \in [Servers -> Guests \cup {None}]
  BY DEF TypeInv, TypeOK, TablesOK
<1>2. OnlyAge /\ conns'[c] # "new"
  BY <1>1 DEF Register, OnlyAge
<1>3. UNCHANGED <<task, ending, delivered, hubRan, relays>>
  BY DEF Register, tasks, history
<1>4. \A r \in Requests : Sent(r)'
  <2>1. \A r \in Requests : SentAsBefore(r)
    BY <1>3 DEF SentAsBefore
  <2>2. QED
    BY <1>2, <2>1, KeptSent
<1>5. Registered'
  <2>1. SUFFICES ASSUME NEW v \in Servers, servers'[v] # None
                 PROVE  conns'[servers'[v]] # "new"
    BY DEF Registered
  <2>2. servers'[v] = c \/ servers'[v] = servers[v]
    BY <1>1 DEF Register
  <2>3. CASE servers'[v] = servers[v]
    <3>1. servers[v] \in Conns /\ conns[servers[v]] # "new"
      BY <1>1, <2>1, <2>3 DEF SentInv, Registered, Conns
    <3>2. QED
      BY <1>2, <2>3, <3>1 DEF OnlyAge
  <2>4. QED
    BY <1>2, <2>2, <2>3
<1>6. QED
  BY <1>4, <1>5 DEF SentInv

\* A relay that leaves the table: with "ok", only for the guest it was sent to.
LEMMA EndRelaySent ==
    ASSUME TypeInv, SentInv, NEW r \in Requests, NEW how, NEW by,
           relays[r] # None, how = "ok" => Ran(r), EndRelay(r, how, by)
    PROVE  SentInv'
<1>1. UNCHANGED <<conns, servers, task, delivered, hubRan>>
  BY DEF EndRelay
<1>2. OnlyAge /\ \A v \in Servers : servers'[v] \in {None, servers[v]}
  BY <1>1 DEF OnlyAge
<1>3. Op(r) = "call"
  BY DEF SentInv, Sent
<1>4. /\ relays'[r] = None /\ ending'[r].how = how
      /\ \A q \in Requests \ {r} : relays'[q] = relays[q] /\ ending'[q] = ending[q]
  BY DEF EndRelay, TypeInv, TypeOK, TablesOK, TasksOK
<1>5. SentAsBefore(r) /\ \A q \in Requests \ {r} : SentAsBefore(q)
  BY <1>1, <1>3, <1>4 DEF SentAsBefore
<1>6. QED
  BY <1>2, <1>5, StepSent

LEMMA EndingSent ==
    ASSUME TypeInv, SentInv, NEW r \in Requests, EndingStep(r)
    PROVE  SentInv'
<1>1. CASE Deadline(r)
  BY <1>1, EndRelaySent DEF Deadline
<1>2. CASE Retire(r) \/ Finish(r)
  <2>1. UNCHANGED <<conns, servers, task, relays, delivered, hubRan>>
    BY <1>2 DEF Retire, Finish, tables
  <2>2. OnlyAge /\ \A v \in Servers : servers'[v] \in {None, servers[v]}
    BY <2>1 DEF OnlyAge
  <2>3. \A q \in Requests : ending'[q] # None => /\ ending[q] # None
                                                 /\ ending'[q].how = ending[q].how
    BY <1>2 DEF Retire, Finish, TypeInv, TypeOK, TasksOK, Ending
  <2>4. \A q \in Requests : SentAsBefore(q)
    BY <2>1, <2>3 DEF SentAsBefore, SentInv, Sent
  <2>5. QED
    BY <2>2, <2>4, StepSent
<1>3. QED
  BY <1>1, <1>2 DEF EndingStep

LEMMA LeaveSent ==
    ASSUME TypeInv, SentInv, NEW c \in Conns, Disconnect(c)
    PROVE  SentInv'
<1>1. UNCHANGED <<task, ending, delivered, hubRan>>
  BY DEF Disconnect, tasks, history
<1>2. OnlyAge
  BY DEF OnlyAge, Disconnect, TypeInv, TypeOK, TablesOK
<1>3. \A v \in Servers : servers'[v] \in {None, servers[v]}
  BY DEF Disconnect, ServersWithout
<1>4. \A r \in Requests : relays'[r] \in {None, relays[r]}
  BY DEF Disconnect
<1>5. QED
  BY <1>1, <1>2, <1>3, <1>4, QuietSent

LEMMA FailCallsSent ==
    ASSUME TypeInv, SentInv, NEW c \in Guests, FailCalls(c)
    PROVE  SentInv'
<1>1. UNCHANGED <<task, servers, delivered, hubRan>>
  BY DEF FailCalls, history
<1>2. OnlyAge /\ \A v \in Servers : servers'[v] \in {None, servers[v]}
  BY <1>1 DEF OnlyAge, FailCalls, TypeInv, TypeOK, TablesOK
<1>3. ASSUME NEW r \in Requests PROVE SentAsBefore(r)
  <2>1. relays'[r] \in {None, relays[r]}
    BY DEF FailCalls
  <2>2. ending'[r] = ending[r] \/ (Op(r) = "call" /\ ending'[r].how = "gone")
    BY ConnsAssumption DEF FailCalls, SentInv, Sent, Conns
  <2>3. QED
    BY <1>1, <2>1, <2>2 DEF SentAsBefore
<1>4. QED
  BY <1>2, <1>3, StepSent

LEMMA NextSent == TypeInv /\ OnceInv /\ SentInv /\ [Next]_vars => SentInv'
<1> SUFFICES ASSUME TypeInv, OnceInv, SentInv, [Next]_vars PROVE SentInv'
  OBVIOUS
<1>1. ASSUME NEW r \in Requests, RequestStep(r) \/ EndingStep(r) PROVE SentInv'
  BY <1>1, RequestSent, EndingSent
<1>2. ASSUME NEW c \in Conns, Connect(c) \/ LoseAck(c) \/ Disconnect(c)
      PROVE  SentInv'
  BY <1>2, RegisterSent, LeaveSent DEF Connect, LoseAck
<1>3. ASSUME NEW r \in Requests, Arrive(r) PROVE SentInv'
  <2>1. task \in [Requests -> Task] /\ task[r] \in Task /\ Op(r) \in Ops
    BY RequestsAssumption DEF TypeInv, TypeOK, TasksOK, Op
  <2>2. task'[r].pc # "forward" /\ \A q \in Requests \ {r} : task'[q] = task[q]
    BY <1>3, <2>1 DEF Arrive, Goto, Task, Ops
  <2>3. UNCHANGED <<conns, servers, relays, ending, delivered, hubRan>>
    BY <1>3 DEF Arrive, tables, history
  <2>4. QED
    BY <2>2, <2>3, TaskSent
<1>4. ASSUME NEW c \in Conns, NEW r \in Requests, Answer(c, r) PROVE SentInv'
  BY <1>4, WakeSent DEF Answer, history
<1>5. ASSUME NEW c \in Guests, NEW r \in Requests, ServerAnswers(c, r) PROVE SentInv'
  <2>1. relays[r] = c /\ conns[c] = "up" /\ c # None
    BY <1>5, ConnsAssumption DEF ServerAnswers, MayEnd, Conns
  <2>2. Ran(r)
    BY <2>1 DEF SentInv, Sent, Ran
  <2>3. QED
    BY <1>5, <2>1, <2>2, EndRelaySent DEF ServerAnswers
<1>6. ASSUME UNCHANGED <<conns, servers, task, relays, ending, delivered, hubRan>>
      PROVE  SentInv'
  <2>1. OnlyAge
    BY <1>6 DEF OnlyAge
  <2>2. QED
    BY <1>6, <2>1, QuietSent
<1>7. ASSUME NEW c \in Guests, NEW r \in Requests, Progress(c, r) PROVE SentInv'
  BY <1>6, <1>7 DEF Progress, tables
<1>8. ASSUME NEW c \in Guests, RelayProgress(c) PROVE SentInv'
  BY <1>6, <1>8 DEF RelayProgress, tables
<1>9. ASSUME NEW c \in Guests, FailCalls(c) PROVE SentInv'
  BY <1>9, FailCallsSent
<1>10. CASE UNCHANGED vars
  BY <1>6, <1>10 DEF vars
<1>11. QED
  BY <1>1, <1>2, <1>3, <1>4, <1>5, <1>7, <1>8, <1>9, <1>10 DEF Next, PeerStep

-----------------------------------------------------------------------------
(***************************************************************************)
(* Every step of the hub is a step of the promise, or none.                *)
(***************************************************************************)

PromiseInv == TypeInv /\ OnceInv /\ ClearedInv /\ FreshInv /\ SentInv

\* What decides whether a call is permitted.
Decided(t) == <<t.verdict, t.approval, t.by, t.owner>>

\* A call whose task learns nothing, that does not run and is told nothing.
LEMMA SameCallStep ==
    ASSUME NEW q \in Requests, Decided(task'[q]) = Decided(task[q]),
           delivered'[q] = delivered[q], q \in hubRan' <=> q \in hubRan,
           answers'[q] = answers[q]
    PROVE  SameCall(q)
<1>1. /\ task'[q].verdict = task[q].verdict /\ task'[q].approval = task[q].approval
      /\ task'[q].by = task[q].by /\ task'[q].owner = task[q].owner
  BY DEF Decided
<1>2. QED
  BY <1>1 DEF SameCall, Permitted, Ran

\* The rest of the calls, in a step of one task.
LEMMA OthersStep ==
    ASSUME NEW r \in Requests,
           \A q \in Requests \ {r} :
               /\ task'[q] = task[q]
               /\ delivered'[q] = delivered[q]
               /\ q \in hubRan' <=> q \in hubRan
               /\ answers'[q] = answers[q]
    PROVE  OthersKept(r)
  BY SameCallStep DEF OthersKept

\* A step of a task that learns nothing.
LEMMA TaskQuiet ==
    ASSUME NEW r \in Requests, Decided(task'[r]) = Decided(task[r]),
           \A q \in Requests \ {r} : task'[q] = task[q],
           UNCHANGED <<answers, delivered, hubRan>>
    PROVE  UNCHANGED P!vars
<1>1. SameCall(r) /\ OthersKept(r)
  BY SameCallStep, OthersStep
<1>2. QED
  BY <1>1, QuietStep DEF OthersKept

LEMMA AllQuiet ==
    ASSUME UNCHANGED <<task, answers, delivered, hubRan>>
    PROVE  UNCHANGED P!vars
  BY SameCallStep, QuietStep

LEMMA DoneDecided ==
    ASSUME TypeInv, NEW r \in Requests, Goto(r, "done")
    PROVE  /\ Decided(task'[r]) = Decided(task[r])
           /\ \A q \in Requests \ {r} : task'[q] = task[q]
<1>1. task \in [Requests -> Task] /\ task[r] \in Task
  BY DEF TypeInv, TypeOK, TasksOK
<1>2. task' = [task EXCEPT ![r] = [task[r] EXCEPT !.pc = "done"]]
  BY DEF Goto
<1>3. QED
  BY <1>1, <1>2 DEF Decided, Task

LEMMA DoneQuiet ==
    ASSUME TypeInv, NEW r \in Requests, Goto(r, "done"),
           UNCHANGED <<answers, delivered, hubRan>>
    PROVE  UNCHANGED P!vars
  BY DoneDecided, TaskQuiet

\* The answer to a call whose caller may have left.
LEMMA AnswerAppended ==
    ASSUME TypeInv, NEW r \in Requests, NEW how, answers[r] = <<>>,
           answers' = Answered(r, how)
    PROVE  /\ answers'[r] = <<>> \/ answers'[r] = <<how>>
           /\ \A q \in Requests \ {r} : answers'[q] = answers[q]
  BY DEF Answered, TypeInv, TypeOK, HistoryOK

\* A call that ends where it does not run.
LEMMA EndTold ==
    ASSUME TypeInv, OnceInv, ClearedInv, NEW r \in ToolCalls, NEW how \in Hows \ {"ok"},
           ~At(r, "done"), answers' = Answered(r, how), Goto(r, "done"),
           UNCHANGED <<delivered, hubRan>>
    PROVE  [P!Next]_(P!vars)
<1>0. r \in Requests
  BY DEF ToolCalls
<1>1. answers[r] = <<>> /\ ~Ran(r)
  BY <1>0 DEF OnceInv, OnePhase, ClearedInv, Cleared, At
<1>2. /\ answers'[r] = <<>> \/ answers'[r] = <<how>>
      /\ \A q \in Requests \ {r} : answers'[q] = answers[q]
  BY <1>0, <1>1, AnswerAppended
<1>3. /\ Decided(task'[r]) = Decided(task[r])
      /\ \A q \in Requests \ {r} : task'[q] = task[q]
  BY <1>0, DoneDecided
<1>4. OthersKept(r)
  BY <1>0, <1>2, <1>3, OthersStep
<1>5. CASE answers'[r] = <<>>
  <2>1. SameCall(r)
    BY <1>0, <1>1, <1>3, <1>5, SameCallStep
  <2>2. QED
    BY <1>4, <2>1, QuietStep DEF OthersKept
<1>6. CASE answers'[r] = <<how>>
  <2>1. Ran(r)' <=> Ran(r)
    BY DEF Ran
  <2>2. Permitted(r)' <=> Permitted(r)
    BY <1>3 DEF Decided, Permitted
  <2>3. P!Next
    BY <1>1, <1>4, <1>6, <2>1, <2>2, TellStep
  <2>4. QED
    BY <2>3
<1>7. QED
  BY <1>2, <1>5, <1>6

\* A call the hub carries out itself.
LEMMA HubRuns ==
    ASSUME TypeInv, OnceInv, ClearedInv, NEW r \in ToolCalls,
           NEW how \in {"ok", "failed"}, ~At(r, "done"), Permitted(r),
           answers' = Answered(r, how), Goto(r, "done"),
           UNCHANGED delivered, hubRan' = hubRan \cup {r}
    PROVE  P!Next
<1>0. r \in Requests
  BY DEF ToolCalls
<1>1. answers[r] = <<>> /\ ~Ran(r) /\ Ran(r)'
  BY <1>0 DEF OnceInv, OnePhase, ClearedInv, Cleared, Ran, At
<1>2. /\ answers'[r] = <<>> \/ answers'[r] = <<how>>
      /\ \A q \in Requests \ {r} : answers'[q] = answers[q]
  BY <1>0, <1>1, AnswerAppended
<1>3. /\ Decided(task'[r]) = Decided(task[r])
      /\ \A q \in Requests \ {r} : task'[q] = task[q]
  BY <1>0, DoneDecided
<1>4. OthersKept(r) /\ Permitted(r)'
  <2>1. OthersKept(r)
    BY <1>0, <1>2, <1>3, OthersStep
  <2>2. Permitted(r)'
    BY <1>3 DEF Decided, Permitted
  <2>3. QED
    BY <2>1, <2>2
<1>5. how \in Hows \ Refusals
  BY DEF Hows, Refusals
<1>6. QED
  BY <1>1, <1>2, <1>4, <1>5, RunStep, RunAndTellStep

\* The policy allows the call, or asks, or denies it.
LEMMA ConsultKeeps ==
    ASSUME PromiseInv, NEW r \in Requests, ConsultPolicy(r)
    PROVE  [P!Next]_(P!vars)
<1> DEFINE verdict == Evaluate(PolicyOf(Sid(r)), Call(r))
<1>0. task \in [Requests -> Task] /\ task[r] \in Task /\ task[r].pc = "policy"
  BY DEF PromiseInv, TypeInv, TypeOK, TasksOK, ConsultPolicy, At
<1>1. /\ task[r].verdict = None /\ task[r].approval = None
      /\ answers[r] = <<>> /\ ~Ran(r) /\ Op(r) = "call"
  BY <1>0 DEF PromiseInv, FreshInv, Fresh, Early, OnceInv, OnePhase, At, ClearedInv,
     Cleared, TypeInv, TasksFit, Fits, CallSections
<1>2. r \in ToolCalls
  BY <1>1 DEF ToolCalls
<1>3. /\ task'[r].verdict = verdict /\ task'[r].approval = None
      /\ \A q \in Requests \ {r} : task'[q] = task[q]
  BY <1>0, <1>1 DEF ConsultPolicy, Task
<1>4. /\ verdict \in {"allow", "ask", "deny"}
      /\ ~Permits(None) /\ None \notin {"allow", "ask"}
  BY SessionVerdict, ConnsAssumption DEF Verdicts, Actions, Permits
<1>5. ~Permitted(r) /\ (Permitted(r)' <=> verdict = "allow")
  BY <1>1, <1>3, <1>4 DEF Permitted
<1>6. UNCHANGED <<delivered, hubRan>> /\ ~Ran(r)'
  BY <1>1 DEF ConsultPolicy, Ran
<1>7. CASE verdict = "deny"
  <2>1. answers' = Answered(r, "byPolicy")
    BY <1>7 DEF ConsultPolicy
  <2>2. /\ answers'[r] = <<>> \/ answers'[r] = <<"byPolicy">>
        /\ \A q \in Requests \ {r} : answers'[q] = answers[q]
    BY <1>1, <2>1, AnswerAppended DEF PromiseInv
  <2>3. OthersKept(r)
    BY <1>3, <1>6, <2>2, OthersStep
  <2>4. CASE answers'[r] = <<>>
    BY <1>1, <1>5, <1>6, <1>7, <2>3, <2>4, QuietStep DEF SameCall, OthersKept
  <2>5. CASE answers'[r] = <<"byPolicy">>
    BY <1>1, <1>2, <1>5, <1>6, <1>7, <2>3, <2>5, TellStep DEF Hows
  <2>6. QED
    BY <2>2, <2>4, <2>5
<1>8. CASE verdict # "deny"
  <2>1. UNCHANGED answers
    BY <1>8 DEF ConsultPolicy
  <2>2. OthersKept(r)
    BY <1>3, <1>6, <2>1, OthersStep
  <2>3. CASE verdict = "allow"
    BY <1>1, <1>2, <1>5, <1>6, <2>1, <2>2, <2>3, ClearStep
  <2>4. CASE verdict = "ask"
    BY <1>1, <1>5, <1>6, <2>1, <2>2, <2>4, QuietStep DEF SameCall, OthersKept
  <2>5. QED
    BY <1>4, <1>8, <2>3, <2>4
<1>9. QED
  BY <1>7, <1>8

\* The owner answers, or nobody does.
LEMMA WakeKeeps ==
    ASSUME PromiseInv, NEW r \in Requests, NEW c, NEW via, NEW answer, At(r, "wait"),
           Wake(r, c, via, answer), UNCHANGED <<answers, delivered, hubRan>>
    PROVE  [P!Next]_(P!vars)
<1>0. task \in [Requests -> Task] /\ task[r] \in Task /\ task[r].pc = "wait"
  BY DEF PromiseInv, TypeInv, TypeOK, TasksOK, At
<1>1. answers[r] = <<>> /\ ~Ran(r) /\ ~Ran(r)'
  BY <1>0 DEF PromiseInv, OnceInv, OnePhase, At, ClearedInv, Cleared, Ran
<1>2. \A q \in Requests \ {r} : task'[q] = task[q]
  BY <1>0 DEF Wake
<1>3. OthersKept(r)
  BY <1>2, OthersStep
<1>4. CASE task[r].about = "approval"
  <2>1. task[r].approval = None /\ task[r].verdict = "ask" /\ Op(r) = "call"
    BY <1>0, <1>4 DEF PromiseInv, FreshInv, Fresh, ClearedInv, Cleared, TypeInv,
       TasksFit, Fits
  <2>2. ~Permitted(r)
    BY <2>1, ConnsAssumption DEF Permitted, Permits
  <2>3. CASE Permitted(r)'
    <3>1. r \in ToolCalls
      BY <2>1 DEF ToolCalls
    <3>2. QED
      BY <1>1, <1>3, <2>3, <3>1, ClearStep
  <2>4. CASE ~Permitted(r)'
    BY <1>1, <1>3, <2>2, <2>4, QuietStep DEF SameCall, OthersKept
  <2>5. QED
    BY <2>3, <2>4
<1>5. CASE task[r].about # "approval"
  <2>1. task' = [task EXCEPT ![r] = [task[r] EXCEPT !.pc = After(task[r].about),
                                                    !.answer = answer]]
    BY <1>5 DEF Wake
  <2>2. Decided(task'[r]) = Decided(task[r])
    BY <1>0, <2>1 DEF Decided, Task
  <2>3. QED
    BY <1>2, <2>2, TaskQuiet
<1>6. QED
  BY <1>4, <1>5

\* The frame reaches the guest, or nobody.
LEMMA ForwardKeeps ==
    ASSUME PromiseInv, NEW r \in Requests, Forward(r)
    PROVE  [P!Next]_(P!vars)
<1>0. task[r].pc = "forward" /\ Goto(r, "done") /\ UNCHANGED <<answers, hubRan>>
  BY DEF Forward, At
<1>1. answers[r] = <<>> /\ ~Ran(r) /\ Permitted(r) /\ Op(r) = "call"
  BY <1>0 DEF PromiseInv, OnceInv, OnePhase, At, ClearedInv, Cleared, TypeInv,
     TasksFit, Fits, CallSections
<1>2. /\ Decided(task'[r]) = Decided(task[r])
      /\ \A q \in Requests \ {r} : task'[q] = task[q]
  BY <1>0, DoneDecided DEF PromiseInv
<1>3. OthersKept(r)
  <2>1. \A q \in Requests \ {r} : delivered'[q] = delivered[q]
    BY DEF Forward, PromiseInv, TypeInv, TypeOK, HistoryOK
  <2>2. QED
    BY <1>0, <1>2, <2>1, OthersStep
<1>4. Permitted(r)'
  BY <1>1, <1>2 DEF Decided, Permitted
<1>5. CASE Ran(r)'
  <2>1. r \in ToolCalls
    BY <1>1 DEF ToolCalls
  <2>2. QED
    BY <1>0, <1>1, <1>3, <1>4, <1>5, <2>1, RunStep
<1>6. CASE ~Ran(r)'
  BY <1>0, <1>1, <1>3, <1>4, <1>6, QuietStep DEF SameCall, OthersKept
<1>7. QED
  BY <1>5, <1>6

\* The end of a forwarded call.
LEMMA FinishKeeps ==
    ASSUME PromiseInv, NEW r \in Requests, Finish(r)
    PROVE  [P!Next]_(P!vars)
<1>0. UNCHANGED <<task, delivered, hubRan>> /\ ending[r] # None
  BY DEF Finish
<1>1. /\ answers[r] = <<>> /\ Op(r) = "call"
      /\ ending[r].how = "ok" => Ran(r)
      /\ ending[r].how \in {"ok", "failed", "gone", "deadline"}
  BY <1>0 DEF PromiseInv, OnceInv, OnePhase, SentInv, Sent, TypeInv, TypeOK, TasksOK,
     Ending
<1>2. /\ answers'[r] = <<>> \/ answers'[r] = <<ending[r].how>>
      /\ \A q \in Requests \ {r} : answers'[q] = answers[q]
  BY <1>1, AnswerAppended DEF Finish, PromiseInv
<1>3. OthersKept(r)
  BY <1>0, <1>2, OthersStep
<1>4. (Permitted(r)' <=> Permitted(r)) /\ (Ran(r)' <=> Ran(r))
  BY <1>0 DEF Permitted, Ran
<1>5. CASE answers'[r] = <<>>
  BY <1>1, <1>3, <1>4, <1>5, QuietStep DEF SameCall, OthersKept
<1>6. CASE answers'[r] = <<ending[r].how>>
  <2>1. r \in ToolCalls /\ ending[r].how \in Hows /\ ending[r].how \notin Refusals
    BY <1>1 DEF ToolCalls, Hows, Refusals
  <2>2. QED
    BY <1>1, <1>3, <1>4, <1>6, <2>1, TellStep
<1>7. QED
  BY <1>2, <1>5, <1>6

LEMMA RequestKeeps ==
    ASSUME PromiseInv, NEW r \in Requests, RequestStep(r)
    PROVE  [P!Next]_(P!vars)
<1>0. /\ TypeInv /\ OnceInv /\ ClearedInv
      /\ task \in [Requests -> Task] /\ task[r] \in Task
      /\ task[r].pc \in CallSections => r \in ToolCalls
  BY DEF PromiseInv, TypeInv, TypeOK, TasksOK, TasksFit, Fits, ToolCalls
<1>1. CASE Open(r) \/ Close(r) \/ Serve(r) \/ Bound(r) \/ TakeOver(r) \/ Release(r)
  BY <1>0, <1>1, DoneQuiet DEF Open, Close, Serve, Bound, TakeOver, Release, history
<1>2. CASE BindLookup(r) \/ Ask(r) \/ CallLive(r) \/ HookPasses(r) \/ Approved(r)
           \/ Route(r)
  <2>1. UNCHANGED <<answers, delivered, hubRan>>
    BY <1>2 DEF BindLookup, Ask, CallLive, HookPasses, Approved, Route, history
  <2>2. Decided(task'[r]) = Decided(task[r])
    BY <1>0, <1>2 DEF BindLookup, Ask, CallLive, HookPasses, Approved, Route, Goto,
       Decided, Task
  <2>3. \A q \in Requests \ {r} : task'[q] = task[q]
    BY <1>0, <1>2 DEF BindLookup, Ask, CallLive, HookPasses, Approved, Route, Goto
  <2>4. QED
    BY <2>1, <2>2, <2>3, TaskQuiet
<1>3. CASE CallReplayed(r) \/ NoSuchSession(r) \/ HookVetoes(r) \/ Refused(r)
           \/ CannotRoute(r)
  <2>1. /\ ~At(r, "done") /\ r \in ToolCalls /\ UNCHANGED <<delivered, hubRan>>
        /\ Goto(r, "done")
    BY <1>0, <1>3 DEF CallReplayed, NoSuchSession, HookVetoes, Refused, CannotRoute,
       EndNoted, EndUnnoted, At, CallSections
  <2>2. \E how \in Hows \ {"ok"} : answers' = Answered(r, how)
    BY <1>3 DEF CallReplayed, NoSuchSession, HookVetoes, Refused, CannotRoute,
       EndNoted, EndUnnoted, Hows
  <2>3. QED
    BY <1>0, <2>1, <2>2, EndTold
<1>4. CASE ConsultPolicy(r)
  BY <1>4, ConsultKeeps
<1>5. CASE GiveUp(r)
  BY <1>5, WakeKeeps DEF GiveUp, history
<1>6. CASE AskForSecret(r)
  <2>1. task[r].pc = "run" /\ r \in ToolCalls /\ UNCHANGED <<delivered, hubRan>>
    BY <1>0, <1>6 DEF AskForSecret, At, CallSections
  <2>2. CASE EndUnnoted(r, "noCredential")
    BY <1>0, <2>1, <2>2, EndTold DEF EndUnnoted, At, Hows
  <2>3. CASE ~EndUnnoted(r, "noCredential")
    <3>1. task' = [task EXCEPT ![r].pc = "ask", ![r].about = "credential",
                               ![r].target = From(r)]
          /\ UNCHANGED answers
      BY <1>6, <2>3 DEF AskForSecret
    <3>2. /\ Decided(task'[r]) = Decided(task[r])
          /\ \A q \in Requests \ {r} : task'[q] = task[q]
      BY <1>0, <3>1 DEF Decided, Task
    <3>3. QED
      BY <2>1, <3>1, <3>2, TaskQuiet
  <2>4. QED
    BY <2>2, <2>3
<1>7. CASE StoreSecret(r) \/ InvokeInternal(r)
  <2>1. /\ task[r].pc \in {"store", "run"} /\ ~At(r, "done") /\ Goto(r, "done")
        /\ UNCHANGED delivered
    BY <1>7 DEF StoreSecret, InvokeInternal, EndNoted, EndUnnoted, At
  <2>2. Permitted(r) /\ r \in ToolCalls
    BY <1>0, <2>1 DEF ClearedInv, Cleared, CallSections
  <2>3. \/ /\ hubRan' = hubRan \cup {r}
           /\ \E how \in {"ok", "failed"} : answers' = Answered(r, how)
        \/ /\ UNCHANGED hubRan
           /\ \E how \in Hows \ {"ok"} : answers' = Answered(r, how)
    BY <1>7 DEF StoreSecret, InvokeInternal, EndNoted, EndUnnoted, Hows
  <2>4. QED
    BY <1>0, <2>1, <2>2, <2>3, HubRuns, EndTold
<1>8. CASE Forward(r)
  BY <1>8, ForwardKeeps
<1>9. QED
  BY <1>1, <1>2, <1>3, <1>4, <1>5, <1>6, <1>7, <1>8 DEF RequestStep

LEMMA NextKeeps == PromiseInv /\ [Next]_vars => [P!Next]_(P!vars)
<1> SUFFICES ASSUME PromiseInv, [Next]_vars PROVE [P!Next]_(P!vars)
  OBVIOUS
<1>1. ASSUME NEW r \in Requests, RequestStep(r) PROVE [P!Next]_(P!vars)
  BY <1>1, RequestKeeps
<1>2. ASSUME NEW r \in Requests, EndingStep(r) PROVE [P!Next]_(P!vars)
  <2>1. CASE Finish(r)
    BY <2>1, FinishKeeps
  <2>2. CASE Deadline(r) \/ Retire(r)
    BY <2>2, AllQuiet DEF Deadline, EndRelay, Retire
  <2>3. QED
    BY <1>2, <2>1, <2>2 DEF EndingStep
<1>3. ASSUME NEW c \in Conns, Connect(c) \/ LoseAck(c) \/ Disconnect(c)
      PROVE  [P!Next]_(P!vars)
  BY <1>3, AllQuiet DEF Connect, LoseAck, Register, Disconnect, tasks, history
<1>4. ASSUME NEW r \in Requests, Arrive(r) PROVE [P!Next]_(P!vars)
  <2>1. task \in [Requests -> Task] /\ task[r] \in Task
    BY DEF PromiseInv, TypeInv, TypeOK, TasksOK
  <2>2. task' = [task EXCEPT ![r] = [task[r] EXCEPT !.pc = Op(r)]]
        /\ UNCHANGED <<answers, delivered, hubRan>>
    BY <1>4 DEF Arrive, Goto, history
  <2>3. /\ Decided(task'[r]) = Decided(task[r])
        /\ \A q \in Requests \ {r} : task'[q] = task[q]
    BY <2>1, <2>2 DEF Decided, Task
  <2>4. QED
    BY <2>2, <2>3, TaskQuiet
<1>5. ASSUME NEW c \in Conns, NEW r \in Requests, Answer(c, r) PROVE [P!Next]_(P!vars)
  BY <1>5, WakeKeeps DEF Answer, history
<1>6. ASSUME NEW c \in Guests, NEW r \in Requests, ServerAnswers(c, r) \/ Progress(c, r)
      PROVE  [P!Next]_(P!vars)
  BY <1>6, AllQuiet DEF ServerAnswers, EndRelay, Progress
<1>7. ASSUME NEW c \in Guests, FailCalls(c) \/ RelayProgress(c)
      PROVE  [P!Next]_(P!vars)
  BY <1>7, AllQuiet DEF FailCalls, RelayProgress, history
<1>8. CASE UNCHANGED vars
  BY <1>8, AllQuiet DEF vars
<1>9. QED
  BY <1>1, <1>2, <1>3, <1>4, <1>5, <1>6, <1>7, <1>8 DEF Next, PeerStep

LEMMA InitKeeps == Init => PromiseInv /\ P!Init
<1> SUFFICES ASSUME Init PROVE PromiseInv /\ P!Init
  OBVIOUS
<1>1. TypeInv
  BY InitTypeInv
<1>2. OnceInv /\ ClearedInv
  BY DEF Init, Unused, OnceInv, OnePhase, ClearedInv, Cleared, Ran, NewTask
<1>3. FreshInv /\ SentInv
  BY DEF Init, Unused, FreshInv, Fresh, SentInv, Registered, Sent, NewTask
<1>4. \A r \in Requests : ~Permitted(r) /\ ~Ran(r) /\ answers[r] = <<>>
  BY ConnsAssumption DEF Init, Unused, Permitted, Ran, NewTask, Verdicts, Actions
<1>5. P!Init
  BY <1>4 DEF P!Init, ToolCalls
<1>6. QED
  BY <1>1, <1>2, <1>3, <1>5 DEF PromiseInv

\* The hub keeps its promise: a call runs only once it is permitted and never
\* after its caller was told of it, and what its caller is told, once, is true.
THEOREM HubKeepsItsPromise == Spec => KeepsItsPromise
<1>1. Init => PromiseInv /\ P!Init
  BY InitKeeps
<1>2. PromiseInv /\ [Next]_vars => PromiseInv'
  BY NextTypeInv, NextOnce, NextCleared, NextFresh, NextSent DEF PromiseInv
<1>3. PromiseInv /\ [Next]_vars => [P!Next]_(P!vars)
  BY NextKeeps
<1>4. QED
  BY <1>1, <1>2, <1>3, PTL DEF Spec, KeepsItsPromise, P!Spec

-----------------------------------------------------------------------------
(***************************************************************************)
(* Theorems about the tables of Hub - registrations, relays, the grants of a  *)
(* session and its replay - and about what the hub tells of a tool call: its   *)
(* record, its entry among the calls in flight, the progress it relays. All    *)
(* for every set of connections, sessions, call ids and requests.             *)
(***************************************************************************)

-----------------------------------------------------------------------------
(***************************************************************************)
(* What a step leaves alone.                                               *)
(***************************************************************************)

\* The task of a request answers, notes and forwards that request only.
OthersUntouched(r) ==
    \A q \in Requests \ {r} :
        /\ task'[q] = task[q]
        /\ relays'[q] = relays[q]
        /\ delivered'[q] = delivered[q]
        /\ answers'[q] = answers[q]
        /\ noted'[q] = noted[q]

LEMMA EndUntouched ==
    ASSUME TypeInv, NEW r \in Requests, NEW how, EndNoted(r, how) \/ EndUnnoted(r, how),
           UNCHANGED <<relays, delivered>>
    PROVE  OthersUntouched(r)
<1>1. Goto(r, "done") /\ answers' = Answered(r, how) /\ noted' \in {noted, Noted(r, how)}
  BY DEF EndNoted, EndUnnoted
<1>2. \A q \in Requests \ {r} : task'[q] = task[q]
  BY <1>1, GotoDone
<1>3. \A q \in Requests \ {r} : answers'[q] = answers[q] /\ noted'[q] = noted[q]
  BY <1>1 DEF Answered, Noted, TypeInv, TypeOK, HistoryOK
<1>4. QED
  BY <1>2, <1>3 DEF OthersUntouched

LEMMA RequestTouches ==
    ASSUME TypeInv, NEW r \in Requests, RequestStep(r)
    PROVE  /\ ~At(r, "done")
           /\ UNCHANGED <<conns, servers, ending, reading, heard, quiet>>
           /\ OthersUntouched(r)
           /\ Forward(r) \/ UNCHANGED <<relays, delivered, calls>>
<1>1. CASE Open(r) \/ Close(r) \/ Serve(r) \/ Bound(r) \/ TakeOver(r) \/ Release(r)
  <2>1. /\ Goto(r, "done") /\ ~At(r, "done")
        /\ UNCHANGED <<conns, servers, ending, reading, heard, quiet, relays,
                       delivered, calls, answers, noted>>
    BY <1>1 DEF Open, Close, Serve, Bound, TakeOver, Release, At, history
  <2>2. OthersUntouched(r)
    BY <2>1, GotoDone DEF OthersUntouched
  <2>3. QED
    BY <2>1, <2>2
<1>2. CASE BindLookup(r) \/ Ask(r) \/ GiveUp(r) \/ CallLive(r) \/ HookPasses(r)
           \/ Approved(r) \/ Route(r)
  <2>1. /\ ~At(r, "done")
        /\ UNCHANGED <<conns, servers, ending, reading, heard, quiet, relays,
                       delivered, calls, answers, noted>>
    BY <1>2 DEF BindLookup, Ask, GiveUp, CallLive, HookPasses, Approved, Route, At,
       tables, history
  <2>2. \A q \in Requests \ {r} : task'[q] = task[q]
    BY <1>2 DEF BindLookup, Ask, GiveUp, Wake, CallLive, HookPasses, Approved,
       Route, Goto, TypeInv, TypeOK, TasksOK
  <2>3. QED
    BY <2>1, <2>2 DEF OthersUntouched
<1>3. CASE CallReplayed(r) \/ NoSuchSession(r) \/ HookVetoes(r) \/ Refused(r)
           \/ StoreSecret(r) \/ InvokeInternal(r) \/ CannotRoute(r)
  <2>1. /\ ~At(r, "done")
        /\ UNCHANGED <<conns, servers, ending, reading, heard, quiet, relays,
                       delivered, calls>>
    BY <1>3 DEF CallReplayed, NoSuchSession, HookVetoes, Refused, StoreSecret,
       InvokeInternal, CannotRoute, At, tables
  <2>2. \E how \in Hows : EndNoted(r, how) \/ EndUnnoted(r, how)
    BY <1>3 DEF CallReplayed, NoSuchSession, HookVetoes, Refused, StoreSecret,
       InvokeInternal, CannotRoute, Hows
  <2>3. QED
    BY <2>1, <2>2, EndUntouched
<1>4. CASE ConsultPolicy(r)
  <2>1. /\ ~At(r, "done")
        /\ UNCHANGED <<conns, servers, ending, reading, heard, quiet, relays,
                       delivered, calls>>
    BY <1>4 DEF ConsultPolicy, At, tables
  <2>2. \A q \in Requests \ {r} : task'[q] = task[q]
    BY <1>4 DEF ConsultPolicy, TypeInv, TypeOK, TasksOK
  <2>3. \A q \in Requests \ {r} : answers'[q] = answers[q] /\ noted'[q] = noted[q]
    BY <1>4 DEF ConsultPolicy, Answered, TypeInv, TypeOK, HistoryOK
  <2>4. QED
    BY <2>1, <2>2, <2>3 DEF OthersUntouched
<1>5. CASE AskForSecret(r)
  <2>1. /\ ~At(r, "done")
        /\ UNCHANGED <<conns, servers, ending, reading, heard, quiet, relays,
                       delivered, calls>>
    BY <1>5 DEF AskForSecret, At, tables
  <2>2. CASE EndUnnoted(r, "noCredential")
    BY <2>1, <2>2, EndUntouched
  <2>3. CASE ~EndUnnoted(r, "noCredential")
    <3>1. \A q \in Requests \ {r} : task'[q] = task[q]
      BY <1>5, <2>3 DEF AskForSecret, TypeInv, TypeOK, TasksOK
    <3>2. UNCHANGED <<answers, noted>>
      BY <1>5, <2>3 DEF AskForSecret
    <3>3. QED
      BY <2>1, <3>1, <3>2 DEF OthersUntouched
  <2>4. QED
    BY <2>2, <2>3
<1>6. CASE Forward(r)
  <2>1. /\ ~At(r, "done")
        /\ UNCHANGED <<conns, servers, ending, reading, heard, quiet, answers, noted>>
    BY <1>6 DEF Forward, At
  <2>2. \A q \in Requests \ {r} : task'[q] = task[q]
    BY <1>6, GotoDone DEF Forward
  <2>3. \A q \in Requests \ {r} : relays'[q] = relays[q] /\ delivered'[q] = delivered[q]
    BY <1>6 DEF Forward, TypeInv, TypeOK, TablesOK, HistoryOK
  <2>4. QED
    BY <1>6, <2>1, <2>2, <2>3 DEF OthersUntouched
<1>7. QED
  BY <1>1, <1>2, <1>3, <1>4, <1>5, <1>6 DEF RequestStep

\* The ending of a call answers and notes that call only.
LEMMA EndingTouches ==
    ASSUME TypeInv, NEW r \in Requests, EndingStep(r)
    PROVE  /\ UNCHANGED <<conns, servers, sessions, hubCalls, takeovers, task, reading,
                          delivered, hubRan, heard, quiet>>
           /\ \A q \in Requests \ {r} : /\ relays'[q] = relays[q]
                                        /\ ending'[q] = ending[q]
                                        /\ answers'[q] = answers[q]
                                        /\ noted'[q] = noted[q]
<1>1. CASE Deadline(r)
  BY <1>1 DEF Deadline, EndRelay, TypeInv, TypeOK, TablesOK, TasksOK
<1>2. CASE Retire(r)
  BY <1>2 DEF Retire, Noted, TypeInv, TypeOK, TasksOK, HistoryOK
<1>3. CASE Finish(r)
  BY <1>3 DEF Finish, Answered, tables, TypeInv, TypeOK, TasksOK, HistoryOK
<1>4. QED
  BY <1>1, <1>2, <1>3 DEF EndingStep

\* Only a connection's coming and going changes the table of connections.
LEMMA ConnsTouched ==
    ASSUME TypeInv, Next
    PROVE  \/ UNCHANGED <<conns, servers>>
           \/ \E c \in Conns : Connect(c) \/ LoseAck(c) \/ Disconnect(c)
           \/ \E c \in Guests : FailCalls(c) /\ UNCHANGED servers
<1>1. ASSUME NEW r \in Requests, RequestStep(r) PROVE UNCHANGED <<conns, servers>>
  BY <1>1, RequestTouches
<1>2. ASSUME NEW r \in Requests, EndingStep(r) PROVE UNCHANGED <<conns, servers>>
  BY <1>2, EndingTouches
<1>3. ASSUME NEW r \in Requests, Arrive(r) PROVE UNCHANGED <<conns, servers>>
  BY <1>3 DEF Arrive, tables
<1>4. ASSUME NEW c, NEW r \in Requests,
             Answer(c, r) \/ ServerAnswers(c, r) \/ Progress(c, r) \/ RelayProgress(c)
      PROVE  UNCHANGED <<conns, servers>>
  BY <1>4 DEF Answer, ServerAnswers, EndRelay, Progress, RelayProgress, tables
<1>5. ASSUME NEW c \in Guests, RelayProgress(c) PROVE UNCHANGED <<conns, servers>>
  BY <1>5 DEF RelayProgress, tables
<1>6. QED
  BY <1>1, <1>2, <1>3, <1>4, <1>5 DEF Next, PeerStep, FailCalls

-----------------------------------------------------------------------------
(***************************************************************************)
(* Registrations.                                                          *)
(***************************************************************************)

LEMMA RegisterKeeps ==
    ASSUME TypeInv, NEW c \in Conns, NEW state, Register(c, state)
    PROVE  RegistrationKept
<1>1. SUFFICES ASSUME NEW v \in Servers, servers[v] # None, servers'[v] # servers[v]
               PROVE  servers'[v] # None /\ conns[servers'[v]] = "new"
  BY DEF RegistrationKept
<1>2. servers'[v] = c
  BY <1>1 DEF Register, TypeInv, TypeOK, TablesOK
<1>3. QED
  BY <1>2, ConnsAssumption DEF Register

LEMMA DisconnectKeepsOthers ==
    ASSUME TypeInv, NEW c \in Conns, Disconnect(c)
    PROVE  RegistrationKept
<1>1. SUFFICES ASSUME NEW v \in Servers, servers[v] # None, servers'[v] # servers[v]
               PROVE  servers'[v] = None /\ conns'[servers[v]] = "leaving"
  BY DEF RegistrationKept
<1>2. servers[v] = c /\ servers'[v] = None
  BY <1>1 DEF Disconnect, ServersWithout
<1>3. c \in Guests
  BY <1>1, <1>2 DEF TypeInv, TypeOK, TablesOK
<1>4. conns'[c] = "leaving"
  BY <1>3 DEF Disconnect, TypeInv, TypeOK, TablesOK
<1>5. QED
  BY <1>2, <1>4

\* A registration goes only with its own connection, or makes way for a newer
\* connection of the same server.
THEOREM RegistrationsAreTheirConnections == Spec => RegistrationFollowsItsConnection
<1>1. Init => TypeInv
  BY InitTypeInv
<1>2. TypeInv /\ [Next]_vars => TypeInv'
  BY NextTypeInv
<1>3. TypeInv /\ [Next]_vars => [RegistrationKept]_vars
  <2> SUFFICES ASSUME TypeInv, Next PROVE RegistrationKept
    OBVIOUS
  <2>1. CASE UNCHANGED servers
    BY <2>1 DEF RegistrationKept
  <2>2. ASSUME NEW c \in Conns, Connect(c) \/ LoseAck(c) PROVE RegistrationKept
    BY <2>2, RegisterKeeps DEF Connect, LoseAck
  <2>3. ASSUME NEW c \in Conns, Disconnect(c) PROVE RegistrationKept
    BY <2>3, DisconnectKeepsOthers
  <2>4. QED
    BY <2>1, <2>2, <2>3, ConnsTouched
<1>4. QED
  BY <1>1, <1>2, <1>3, PTL DEF Spec, RegistrationFollowsItsConnection

-----------------------------------------------------------------------------
(***************************************************************************)
(* A guest that goes takes its calls with it.                              *)
(***************************************************************************)

\* A call that reached a guest is relayed to that guest, and is in the relay
\* table only while the guest is there or on its way out.
StaysWithItsGuest(r) ==
    relays[r] # None /\ delivered[r] # None =>
        relays[r] = delivered[r] /\ conns[relays[r]] \in {"up", "leaving"}

CrashInv == \A r \in Requests : StaysWithItsGuest(r)

LEMMA QuietCrash ==
    ASSUME CrashInv, UNCHANGED <<conns, delivered>>,
           \A q \in Requests : relays'[q] \in {None, relays[q]}
    PROVE  CrashInv'
  BY DEF CrashInv, StaysWithItsGuest

LEMMA ForwardCrash ==
    ASSUME TypeInv, ClearedInv, CrashInv, NEW r \in Requests, Forward(r)
    PROVE  CrashInv'
<1>1. \A q \in Requests \ {r} : StaysWithItsGuest(q)'
  BY RequestTouches DEF RequestStep, OthersUntouched, CrashInv, StaysWithItsGuest
<1>2. delivered[r] = None
  BY DEF Forward, At, ClearedInv, Cleared, Ran
<1>3. relays'[r] = task[r].target /\ UNCHANGED conns
  BY DEF Forward, TypeInv, TypeOK, TablesOK
<1>4. delivered'[r] # None =>
        delivered'[r] = task[r].target /\ conns[task[r].target] = "up"
  BY <1>2 DEF Forward, TypeInv, TypeOK, HistoryOK
<1>5. StaysWithItsGuest(r)'
  BY <1>3, <1>4 DEF StaysWithItsGuest
<1>6. QED
  BY <1>1, <1>5 DEF CrashInv

LEMMA ConnsCrash ==
    ASSUME TypeInv, CrashInv, NEW c \in Conns, Connect(c) \/ LoseAck(c) \/ Disconnect(c)
    PROVE  CrashInv'
<1> SUFFICES ASSUME NEW q \in Requests, relays'[q] # None, delivered'[q] # None
             PROVE  relays'[q] = delivered'[q] /\ conns'[relays'[q]] \in {"up", "leaving"}
  BY DEF CrashInv, StaysWithItsGuest
<1>1. relays'[q] = relays[q] /\ delivered'[q] = delivered[q]
  BY DEF Connect, LoseAck, Register, Disconnect, history
<1>2. relays[q] = delivered[q] /\ relays[q] \in Guests /\ conns[relays[q]] \in {"up", "leaving"}
  BY <1>1 DEF CrashInv, StaysWithItsGuest, TypeInv, TypeOK, TablesOK
<1>3. CASE relays[q] # c
  <2>1. conns'[relays[q]] = conns[relays[q]]
    BY <1>2, <1>3 DEF Connect, LoseAck, Register, Disconnect, TypeInv, TypeOK, TablesOK, Conns
  <2>2. QED
    BY <1>1, <1>2, <2>1
<1>4. CASE relays[q] = c
  <2>1. Disconnect(c) /\ c \in Guests
    BY <1>2, <1>4 DEF Connect, LoseAck, Register
  <2>2. conns'[c] = "leaving"
    BY <2>1 DEF Disconnect, TypeInv, TypeOK, TablesOK
  <2>3. QED
    BY <1>1, <1>2, <1>4, <2>2
<1>5. QED
  BY <1>3, <1>4

LEMMA FailCallsCrash ==
    ASSUME TypeInv, CrashInv, NEW c \in Guests, FailCalls(c)
    PROVE  CrashInv'
<1> SUFFICES ASSUME NEW q \in Requests, relays'[q] # None, delivered'[q] # None
             PROVE  relays'[q] = delivered'[q] /\ conns'[relays'[q]] \in {"up", "leaving"}
  BY DEF CrashInv, StaysWithItsGuest
<1>1. relays'[q] = relays[q] /\ relays[q] # c /\ delivered'[q] = delivered[q]
  BY DEF FailCalls, history
<1>2. relays[q] = delivered[q] /\ relays[q] \in Conns /\ conns[relays[q]] \in {"up", "leaving"}
  BY <1>1 DEF CrashInv, StaysWithItsGuest, TypeInv, TypeOK, TablesOK, Conns
<1>3. conns'[relays[q]] = conns[relays[q]]
  BY <1>1, <1>2 DEF FailCalls, TypeInv, TypeOK, TablesOK
<1>4. QED
  BY <1>1, <1>2, <1>3

LEMMA NextCrash == TypeInv /\ ClearedInv /\ CrashInv /\ [Next]_vars => CrashInv'
<1> SUFFICES ASSUME TypeInv, ClearedInv, CrashInv, [Next]_vars PROVE CrashInv'
  OBVIOUS
<1>1. ASSUME NEW r \in Requests, RequestStep(r) PROVE CrashInv'
  BY <1>1, RequestTouches, ForwardCrash, QuietCrash
<1>2. ASSUME NEW r \in Requests, EndingStep(r) PROVE CrashInv'
  <2>1. UNCHANGED <<conns, delivered>>
    BY <1>2, EndingTouches
  <2>2. \A q \in Requests : relays'[q] \in {None, relays[q]}
    BY <1>2 DEF EndingStep, Deadline, EndRelay, Retire, Finish, tables, TypeInv, TypeOK,
       TablesOK
  <2>3. QED
    BY <2>1, <2>2, QuietCrash
<1>3. ASSUME NEW c \in Conns, Connect(c) \/ LoseAck(c) \/ Disconnect(c) PROVE CrashInv'
  BY <1>3, ConnsCrash
<1>4. ASSUME NEW r \in Requests, Arrive(r) PROVE CrashInv'
  BY <1>4, QuietCrash DEF Arrive, tables, history
<1>5. ASSUME NEW c \in Conns, NEW r \in Requests, Answer(c, r) PROVE CrashInv'
  BY <1>5, QuietCrash DEF Answer, history
<1>6. ASSUME NEW c \in Guests, NEW r \in Requests, ServerAnswers(c, r) PROVE CrashInv'
  <2>1. UNCHANGED <<conns, delivered>> /\ relays' = [relays EXCEPT ![r] = None]
    BY <1>6 DEF ServerAnswers, EndRelay
  <2>2. QED
    BY <2>1, QuietCrash DEF TypeInv, TypeOK, TablesOK
<1>7. ASSUME NEW c \in Guests, NEW r \in Requests, Progress(c, r) PROVE CrashInv'
  BY <1>7, QuietCrash DEF Progress, tables
<1>8. ASSUME NEW c \in Guests, FailCalls(c) PROVE CrashInv'
  BY <1>8, FailCallsCrash
<1>9. ASSUME NEW c \in Guests, RelayProgress(c) PROVE CrashInv'
  BY <1>9, QuietCrash DEF RelayProgress, tables
<1>10. CASE UNCHANGED vars
  BY <1>10, QuietCrash DEF vars
<1>11. QED
  BY <1>1, <1>2, <1>3, <1>4, <1>5, <1>6, <1>7, <1>8, <1>9, <1>10 DEF Next, PeerStep

\* A call that reached a guest is in flight only while that guest is there, or
\* while the hub is still failing the calls it leaves behind.
THEOREM CrashesEndCalls == Spec => []CrashEndsItsCalls
<1>1. Init => TypeInv /\ ClearedInv /\ CrashInv
  BY InitTypeInv DEF Init, Unused, ClearedInv, Cleared, Ran, NewTask, CrashInv,
     StaysWithItsGuest
<1>2. TypeInv /\ ClearedInv /\ CrashInv /\ [Next]_vars
        => TypeInv' /\ ClearedInv' /\ CrashInv'
  BY NextTypeInv, NextCleared, NextCrash
<1>3. CrashInv => CrashEndsItsCalls
  BY DEF CrashInv, StaysWithItsGuest, CrashEndsItsCalls
<1>4. QED
  BY <1>1, <1>2, <1>3, PTL DEF Spec

-----------------------------------------------------------------------------
(***************************************************************************)
(* What becomes of a session.                                              *)
(***************************************************************************)

SameSession(s) ==
    /\ sessions[s] # None
    /\ sessions'[s].owner = sessions[s].owner
    /\ sessions'[s].by = sessions[s].by

\* The session is as it was, but for its server and its catalogue.
SessionKept(s) ==
    /\ SameSession(s)
    /\ sessions'[s].grants = sessions[s].grants
    /\ sessions'[s].replay = sessions[s].replay

\* Request r opens, or opens again, session s.
OpenedBy(r, s) ==
    /\ Open(r)
    /\ sessions'[s].owner = From(r)
    /\ sessions'[s].by = r
    /\ sessions'[s].grants = DefaultPolicy.grants

\* The answer to call r is a grant in session s.
GrantedBy(r, s) ==
    /\ Approved(r)
    /\ s = Sid(r)
    /\ SameSession(s)
    /\ task[r].approval = "always"
    /\ sessions'[s].grants = sessions[s].grants \cup {GrantFor(Call(r))}
    /\ sessions'[s].replay = sessions[s].replay

\* Call r moves the replay of session s.
MovedBy(r, s) ==
    /\ CallReplayed(r)
    /\ s = Sid(r)
    /\ SameSession(s)
    /\ sessions'[s].grants = sessions[s].grants
    /\ sessions[s].replay \in Replaying
    /\ sessions'[s].replay = Advanced(sessions[s].replay, r)

LEMMA SessionAfterRequest ==
    ASSUME TypeInv, NEW r \in Requests, RequestStep(r),
           NEW s \in Sessions, sessions'[s] # None
    PROVE  SessionKept(s) \/ OpenedBy(r, s) \/ GrantedBy(r, s) \/ MovedBy(r, s)
<1>1. /\ sessions \in [Sessions -> Session \cup {None}]
      /\ sessions[s] # None => sessions[s] \in Session
  BY DEF TypeInv, TypeOK, TablesOK
<1>2. CASE sessions'[s] = sessions[s]
  BY <1>2 DEF SessionKept, SameSession
<1>3. CASE Open(r) /\ sessions'[s] # sessions[s]
  BY <1>1, <1>3 DEF Open, OpenedBy
<1>4. CASE Close(r)
  BY <1>1, <1>2, <1>4 DEF Close
<1>5. CASE Serve(r)
  <2>1. SUFFICES ASSUME s = Sid(r), sessions[s] # None,
                        sessions' = [sessions EXCEPT ![s] =
                                       [sessions[s] EXCEPT !.catalogue = From(r)]]
                 PROVE  SessionKept(s)
    BY <1>1, <1>2, <1>5 DEF Serve
  <2>2. sessions'[s] = [sessions[s] EXCEPT !.catalogue = From(r)]
    BY <1>1, <2>1
  <2>3. QED
    BY <1>1, <2>1, <2>2 DEF Session, SessionKept, SameSession
<1>6. CASE Bound(r)
  <2>1. SUFFICES ASSUME s = Sid(r), sessions[s] # None,
                        sessions' = [sessions EXCEPT ![s] =
                                       [sessions[s] EXCEPT !.server = Req[r].server,
                                                           !.catalogue = task[r].target]]
                 PROVE  SessionKept(s)
    BY <1>1, <1>2, <1>6 DEF Bound
  <2>2. sessions'[s] = [sessions[s] EXCEPT !.server = Req[r].server,
                                           !.catalogue = task[r].target]
    BY <1>1, <2>1
  <2>3. QED
    BY <1>1, <2>1, <2>2 DEF Session, SessionKept, SameSession
<1>7. CASE Approved(r) /\ sessions'[s] # sessions[s]
  <2> DEFINE grants == sessions[s].grants \cup {GrantFor(Call(r))}
  <2>1. /\ s = Sid(r) /\ sessions[s] # None /\ task[r].approval = "always"
        /\ sessions' = [sessions EXCEPT ![s] = [sessions[s] EXCEPT !.grants = grants]]
    BY <1>1, <1>7 DEF Approved
  <2>2. sessions'[s] = [sessions[s] EXCEPT !.grants = grants]
    BY <1>1, <2>1
  <2>3. GrantedBy(r, s)
    BY <1>1, <1>7, <2>1, <2>2 DEF Session, GrantedBy, SameSession
  <2>4. QED
    BY <2>3
<1>8. CASE CallReplayed(r) /\ sessions'[s] # sessions[s]
  <2>1. /\ s = Sid(r) /\ sessions[s] # None /\ sessions[s].replay # None
        /\ sessions' = [sessions EXCEPT ![s] = [sessions[s] EXCEPT
                           !.replay = Advanced(sessions[s].replay, r)]]
    BY <1>1, <1>8 DEF CallReplayed
  <2>2. sessions'[s] = [sessions[s] EXCEPT !.replay = Advanced(sessions[s].replay, r)]
    BY <1>1, <2>1
  <2>3. MovedBy(r, s)
    BY <1>1, <1>8, <2>1, <2>2 DEF Session, MovedBy, SameSession
  <2>4. QED
    BY <2>3
<1>9. CASE BindLookup(r) \/ TakeOver(r) \/ Release(r) \/ Ask(r) \/ GiveUp(r)
           \/ CallLive(r) \/ Forward(r)
  BY <1>2, <1>9 DEF BindLookup, TakeOver, Release, Ask, GiveUp, CallLive, Forward, tables
<1>10. CASE ConsultPolicy(r) \/ NoSuchSession(r) \/ HookPasses(r) \/ HookVetoes(r)
            \/ Refused(r)
  BY <1>2, <1>10 DEF ConsultPolicy, NoSuchSession, HookPasses, HookVetoes, Refused, tables
<1>11. CASE AskForSecret(r) \/ StoreSecret(r) \/ InvokeInternal(r) \/ Route(r)
            \/ CannotRoute(r)
  BY <1>2, <1>11 DEF AskForSecret, StoreSecret, InvokeInternal, Route, CannotRoute, tables
<1>12. QED
  BY <1>2, <1>3, <1>4, <1>5, <1>6, <1>7, <1>8, <1>9, <1>10, <1>11 DEF RequestStep

\* Every other step leaves a session that is still there as it was.
LEMMA SessionAfterOthers ==
    ASSUME TypeInv, [Next]_vars, \A r \in Requests : ~RequestStep(r),
           NEW s \in Sessions, sessions'[s] # None
    PROVE  SessionKept(s)
<1>1. CASE UNCHANGED sessions
  BY <1>1 DEF SessionKept, SameSession
<1>2. ASSUME NEW c \in Conns, Disconnect(c) PROVE SessionKept(s)
  <2>1. sessions'[s] = SessionWithout(c, s)
        /\ (sessions[s] # None => sessions[s] \in Session)
    BY <1>2 DEF Disconnect, TypeInv, TypeOK, TablesOK
  <2>2. QED
    BY <2>1 DEF SessionWithout, Session, SessionKept, SameSession
<1>3. ASSUME NEW r \in Requests, EndingStep(r) \/ Arrive(r) PROVE UNCHANGED sessions
  BY <1>3, TablesUntouched
<1>4. ASSUME NEW c \in Conns, Connect(c) \/ LoseAck(c) PROVE UNCHANGED sessions
  BY <1>4 DEF Connect, LoseAck, Register
<1>5. ASSUME NEW c \in Conns, NEW r \in Requests,
             Answer(c, r) \/ ServerAnswers(c, r) \/ Progress(c, r)
      PROVE  UNCHANGED sessions
  BY <1>5, TablesUntouchedByFrames
<1>6. ASSUME NEW c \in Guests, FailCalls(c) \/ RelayProgress(c) PROVE UNCHANGED sessions
  BY <1>6, TablesUntouchedByFrames
<1>7. QED
  BY <1>1, <1>2, <1>3, <1>4, <1>5, <1>6 DEF Next, PeerStep, vars, Conns

-----------------------------------------------------------------------------
(***************************************************************************)
(* Replay.                                                                 *)
(***************************************************************************)

\* A task that is over stays over, with all it knew.
LEMMA DoneStays ==
    ASSUME TypeInv, [Next]_vars, NEW q \in Requests, At(q, "done")
    PROVE  task'[q] = task[q]
<1>1. ASSUME NEW r \in Requests, RequestStep(r) PROVE task'[q] = task[q]
  BY <1>1, RequestTouches DEF OthersUntouched
<1>2. ASSUME NEW r \in Requests, EndingStep(r) PROVE task'[q] = task[q]
  BY <1>2, EndingTouches
<1>3. ASSUME NEW c \in Conns, Connect(c) \/ LoseAck(c) \/ Disconnect(c)
      PROVE  task'[q] = task[q]
  BY <1>3 DEF Connect, LoseAck, Register, Disconnect, tasks
<1>4. ASSUME NEW r \in Requests, Arrive(r) PROVE task'[q] = task[q]
  BY <1>4 DEF Arrive, Goto, At, TypeInv, TypeOK, TasksOK
<1>5. ASSUME NEW c \in Conns, NEW r \in Requests, Answer(c, r) PROVE task'[q] = task[q]
  BY <1>5 DEF Answer, Wake, At, TypeInv, TypeOK, TasksOK
<1>6. ASSUME NEW c \in Guests, NEW r \in Requests, ServerAnswers(c, r) \/ Progress(c, r)
      PROVE  task'[q] = task[q]
  BY <1>6 DEF ServerAnswers, EndRelay, Progress
<1>7. ASSUME NEW c \in Guests, FailCalls(c) \/ RelayProgress(c) PROVE task'[q] = task[q]
  BY <1>7 DEF FailCalls, RelayProgress
<1>8. CASE UNCHANGED vars
  BY <1>8 DEF vars
<1>9. QED
  BY <1>1, <1>2, <1>3, <1>4, <1>5, <1>6, <1>7, <1>8 DEF Next, PeerStep

\* The request that opened a session has been dealt with: it opens no other.
OpenersDone ==
    \A s \in Sessions : sessions[s] # None => At(sessions[s].by, "done")

LEMMA NextOpeners == TypeInv /\ OpenersDone /\ [Next]_vars => OpenersDone'
<1> SUFFICES ASSUME TypeInv, OpenersDone, [Next]_vars,
                    NEW s \in Sessions, sessions'[s] # None
             PROVE  task'[sessions'[s].by].pc = "done"
  BY DEF OpenersDone, At
<1>1. CASE SameSession(s)
  <2>1. sessions[s].by \in Requests /\ At(sessions[s].by, "done")
        /\ sessions'[s].by = sessions[s].by
    BY <1>1 DEF SameSession, OpenersDone, Session, TypeInv, TypeOK, TablesOK
  <2>2. QED
    BY <2>1, DoneStays DEF At
<1>2. ASSUME NEW r \in Requests, OpenedBy(r, s) PROVE task'[sessions'[s].by].pc = "done"
  <2>1. Goto(r, "done") /\ sessions'[s].by = r
    BY <1>2 DEF OpenedBy, Open
  <2>2. QED
    BY <2>1, GotoDone DEF At
<1>3. QED
  <2>1. ASSUME NEW r \in Requests, RequestStep(r)
        PROVE  SameSession(s) \/ OpenedBy(r, s)
    BY <2>1, SessionAfterRequest DEF SessionKept, GrantedBy, MovedBy
  <2>2. CASE \A r \in Requests : ~RequestStep(r)
    BY <1>1, <2>2, SessionAfterOthers DEF SessionKept
  <2>3. QED
    BY <1>1, <1>2, <2>1, <2>2

\* The two ways a replay can move.
LEMMA AdvancedReplay ==
    ASSUME NEW r, NEW was \in Replaying, NEW now, now = Advanced(was, r), now # was
    PROVE  /\ ~was.diverged
           /\ \/ now.diverged /\ now.at = was.at
              \/ ~now.diverged /\ now.at = was.at + 1 /\ Agrees(was, r)
<1>1. CASE Agrees(was, r)
  <2>1. now = [was EXCEPT !.at = was.at + 1]
    BY <1>1 DEF Advanced
  <2>2. now.at = was.at + 1 /\ now.diverged = was.diverged
    BY <2>1 DEF Replaying
  <2>3. QED
    BY <1>1, <2>2 DEF Agrees
<1>2. CASE ~Agrees(was, r)
  <2>1. now = [was EXCEPT !.diverged = TRUE]
    BY <1>2 DEF Advanced
  <2>2. now.at = was.at /\ now.diverged
    BY <2>1 DEF Replaying
  <2>3. was.diverged => now = was
    BY <2>1 DEF Replaying
  <2>4. QED
    BY <2>2, <2>3
<1>3. QED
  BY <1>1, <1>2

\* The step of a replay is answered from the record.
LEMMA MovedReplay ==
    ASSUME TypeInv, OnceInv, NEW r \in Requests, RequestStep(r), NEW s \in Sessions,
           MovedBy(r, s), sessions'[s].replay # sessions[s].replay
    PROVE  LET was == sessions[s].replay
               now == sessions'[s].replay IN
           /\ ~was.diverged
           /\ now.diverged => now.at = was.at
           /\ ~now.diverged =>
                /\ now.at = was.at + 1
                /\ \E q \in ToolCalls :
                      /\ At(q, "call")
                      /\ Call(q) = Recorded[now.at]
                      /\ ~InTable(From(q)) \/ answers'[q] = <<"recorded">>
<1> DEFINE was == sessions[s].replay
           now == sessions'[s].replay
<1>1. was \in Replaying /\ now = Advanced(was, r)
  BY DEF MovedBy
<1>2. /\ ~was.diverged
      /\ \/ now.diverged /\ now.at = was.at
         \/ ~now.diverged /\ now.at = was.at + 1 /\ Agrees(was, r)
  BY <1>1, AdvancedReplay
<1>3. ASSUME Agrees(was, r), now.at = was.at + 1
      PROVE  /\ r \in ToolCalls /\ At(r, "call") /\ Call(r) = Recorded[now.at]
             /\ ~InTable(From(r)) \/ answers'[r] = <<"recorded">>
  <2>1. At(r, "call") /\ EndUnnoted(r, "recorded")
    BY <1>3 DEF MovedBy, CallReplayed
  <2>2. r \in ToolCalls
    BY <2>1 DEF TypeInv, TasksFit, Fits, At, Ops, ToolCalls
  <2>3. Call(r) = Recorded[now.at]
    BY <1>3 DEF Agrees
  <2>4. answers[r] = <<>> /\ answers' = Answered(r, "recorded")
    BY <2>1 DEF OnceInv, OnePhase, At, EndUnnoted
  <2>5. InTable(From(r)) => answers'[r] = <<"recorded">>
    BY <2>4 DEF Answered, TypeInv, TypeOK, HistoryOK
  <2>6. QED
    BY <2>1, <2>2, <2>3, <2>5
<1>4. QED
  BY <1>2, <1>3

\* A replay moves along the record, one call that agrees at a time, and stops
\* for good at the first one that does not.
THEOREM ReplaysFollowTheRecord == Spec => ReplayFollowsTheRecord
<1> DEFINE I == TypeInv /\ OnceInv /\ OpenersDone
<1>1. Init => I
  BY InitTypeInv DEF Init, Unused, OnceInv, OnePhase, OpenersDone
<1>2. I /\ [Next]_vars => I'
  BY NextTypeInv, NextOnce, NextOpeners
<1>3. I /\ [Next]_vars => [ReplayAdvances]_vars
  <2> SUFFICES ASSUME I, Next,
                      NEW s \in Sessions, sessions[s] # None, sessions'[s] # None,
                      sessions'[s].by = sessions[s].by,
                      sessions[s].replay # None,
                      sessions'[s].replay # sessions[s].replay
               PROVE  LET was == sessions[s].replay
                          now == sessions'[s].replay IN
                      /\ ~was.diverged
                      /\ now.diverged => now.at = was.at
                      /\ ~now.diverged =>
                           /\ now.at = was.at + 1
                           /\ \E r \in ToolCalls :
                                 /\ At(r, "call")
                                 /\ Call(r) = Recorded[now.at]
                                 /\ ~InTable(From(r)) \/ answers'[r] = <<"recorded">>
    BY DEF ReplayAdvances
  <2>1. ~SessionKept(s)
    BY DEF SessionKept
  <2>2. PICK r \in Requests : RequestStep(r)
    BY <2>1, SessionAfterOthers
  <2>3. ~GrantedBy(r, s)
    BY DEF GrantedBy
  <2>4. ~OpenedBy(r, s)
    BY DEF OpenedBy, Open, OpenersDone, At
  <2>5. MovedBy(r, s)
    BY <2>1, <2>2, <2>3, <2>4, SessionAfterRequest
  <2>6. QED
    BY <2>2, <2>5, MovedReplay
<1>4. QED
  BY <1>1, <1>2, <1>3, PTL DEF Spec, ReplayFollowsTheRecord

-----------------------------------------------------------------------------
(***************************************************************************)
(* Grants.                                                                 *)
(***************************************************************************)

\* Only a harness opens a session, only the owner of a session is asked about
\* its calls, and an "always" comes in a response and never in a hook_reply.
MayGrant(r) ==
    /\ At(r, "open") => From(r) \in Harnesses
    /\ task[r].owner \in Harnesses \cup {None}
    /\ task[r].approval = "always" => /\ task[r].by = task[r].owner
                                      /\ task[r].by \in Harnesses
                                      /\ task[r].via = "response"

HarnessesOwn == \A s \in Sessions : sessions[s] # None => sessions[s].owner \in Harnesses

GrantInv == HarnessesOwn /\ GrantsWereGiven /\ \A r \in Requests : MayGrant(r)

\* A step after which r knows no more about its session and its approval.
SameGrant(r) ==
    /\ task'[r].pc # "open"
    /\ task'[r].owner = task[r].owner
    /\ task'[r].approval = task[r].approval
    /\ task'[r].by = task[r].by
    /\ task'[r].via = task[r].via

LEMMA SameMayGrant ==
    ASSUME GrantInv, NEW q \in Requests, SameGrant(q) \/ task'[q] = task[q]
    PROVE  MayGrant(q)'
  BY DEF GrantInv, MayGrant, SameGrant, At

LEMMA GotoGrant ==
    ASSUME TypeInv, NEW r \in Requests, NEW pc, pc # "open", Goto(r, pc)
    PROVE  SameGrant(r)
<1>1. task[r] \in Task /\ task' = [task EXCEPT ![r] = [task[r] EXCEPT !.pc = pc]]
  BY DEF TypeInv, TypeOK, TasksOK, Goto
<1>2. task'[r] = [task[r] EXCEPT !.pc = pc]
  BY <1>1 DEF TypeInv, TypeOK, TasksOK
<1>3. QED
  BY <1>1, <1>2 DEF Task, SameGrant

\* A question is answered by the connection it was put to: about a call, the
\* owner of its session.
LEMMA WakeGrant ==
    ASSUME TypeInv, ClearedInv, GrantInv, NEW r \in Requests, At(r, "wait"),
           NEW c \in Conns \cup {None}, NEW via, NEW answer, Wake(r, c, via, answer),
           answer = "always" /\ task[r].about = "approval" =>
               hubCalls[r] = c /\ c # None /\ via = "response"
    PROVE  MayGrant(r)'
<1>1. task[r] \in Task /\ MayGrant(r) /\ task \in [Requests -> Task]
  BY DEF TypeInv, TypeOK, TasksOK, GrantInv
<1>2. CASE task[r].about = "approval"
  <2>1. task' = [task EXCEPT ![r] = [task[r] EXCEPT !.pc = "decide",
                                !.approval = answer, !.by = c,
                        !.via = via]]
    BY <1>2 DEF Wake, After
  <2>2. task'[r] = [task[r] EXCEPT !.pc = "decide", !.approval = answer, !.by = c,
                        !.via = via]
    BY <1>1, <2>1
  <2>3. /\ task'[r].pc = "decide" /\ task'[r].approval = answer /\ task'[r].by = c
        /\ task'[r].owner = task[r].owner /\ task'[r].via = via
    BY <1>1, <2>2 DEF Task
  <2>4. answer = "always" => c \in Harnesses /\ c = task[r].owner
    BY <1>1, <1>2 DEF ClearedInv, Cleared, At, MayGrant
  <2>5. QED
    BY <1>1, <1>2, <2>3, <2>4 DEF MayGrant, At
<1>3. CASE task[r].about # "approval"
  <2> DEFINE pc == After(task[r].about)
  <2>1. task' = [task EXCEPT ![r] = [task[r] EXCEPT !.pc = pc, !.answer = answer]]
    BY <1>3 DEF Wake
  <2>2. task'[r] = [task[r] EXCEPT !.pc = pc, !.answer = answer]
    BY <1>1, <2>1
  <2>3. pc # "open"
    BY DEF After
  <2>4. SameGrant(r)
    BY <1>1, <2>2, <2>3 DEF Task, SameGrant
  <2>5. QED
    BY <2>4, SameMayGrant
<1>4. QED
  BY <1>2, <1>3

LEMMA RequestMayGrant ==
    ASSUME TypeInv, ClearedInv, FreshInv, GrantInv, NEW r \in Requests, RequestStep(r)
    PROVE  \A q \in Requests : MayGrant(q)'
<1>1. \A q \in Requests \ {r} : MayGrant(q)'
  BY RequestTouches, SameMayGrant DEF OthersUntouched
<1>2. task[r] \in Task /\ task \in [Requests -> Task]
  BY DEF TypeInv, TypeOK, TasksOK
<1>3. CASE \E pc \in Sections \ {"open"} : Goto(r, pc)
  BY <1>1, <1>3, GotoGrant, SameMayGrant
<1>4. CASE BindLookup(r) /\ ~Goto(r, "done")
  <2> DEFINE t == [task[r] EXCEPT !.pc = "ask", !.about = "bind",
                                  !.target = servers[Req[r].server]]
  <2>1. task' = [task EXCEPT ![r] = t]
    BY <1>4 DEF BindLookup
  <2>2. task'[r] = t
    BY <1>2, <2>1
  <2>3. SameGrant(r)
    BY <1>2, <2>2 DEF Task, SameGrant
  <2>4. QED
    BY <1>1, <2>3, SameMayGrant
<1>5. CASE GiveUp(r)
  <2>1. MayGrant(r)'
    BY <1>5, WakeGrant DEF GiveUp
  <2>2. QED
    BY <1>1, <2>1
<1>6. CASE ConsultPolicy(r)
  <2> DEFINE s       == sessions[Sid(r)]
             verdict == Evaluate(PolicyOf(Sid(r)), Call(r))
             t       == [task[r] EXCEPT
                           !.pc = IF verdict = "deny" THEN "done" ELSE "hook",
                           !.verdict = verdict, !.owner = s.owner, !.bot = s.bot]
  <2>1. task' = [task EXCEPT ![r] = t]
    BY <1>6 DEF ConsultPolicy
  <2>2. task'[r] = t
    BY <1>2, <2>1
  <2>3. /\ task'[r].pc \in {"done", "hook"} /\ task'[r].owner = s.owner
        /\ task'[r].approval = task[r].approval
    BY <1>2, <2>2 DEF Task
  <2>4. Op(r) = "call" /\ sessions[Sid(r)] # None
    BY <1>6 DEF ConsultPolicy, At, TypeInv, TasksFit, Fits, CallSections
  <2>5. s.owner \in Harnesses
    BY <2>4, RequestsAssumption DEF GrantInv, HarnessesOwn, Sid, Op
  <2>6. task[r].approval # "always"
    BY <1>6, ConnsAssumption DEF ConsultPolicy, FreshInv, Fresh, Early, At
  <2>7. QED
    BY <1>1, <2>3, <2>5, <2>6 DEF MayGrant, At
<1>7. CASE HookPasses(r)
  <2>1. \/ task' = [task EXCEPT ![r] = [task[r] EXCEPT
                      !.pc = "ask", !.about = "approval", !.target = task[r].owner]]
        \/ task' = [task EXCEPT ![r] = [task[r] EXCEPT !.pc = "run"]]
    BY <1>7 DEF HookPasses
  <2>2. \/ task'[r] = [task[r] EXCEPT !.pc = "ask", !.about = "approval",
                                      !.target = task[r].owner]
        \/ task'[r] = [task[r] EXCEPT !.pc = "run"]
    BY <1>2, <2>1
  <2>3. SameGrant(r)
    BY <1>2, <2>2 DEF Task, SameGrant
  <2>4. QED
    BY <1>1, <2>3, SameMayGrant
<1>8. CASE AskForSecret(r) /\ ~Goto(r, "done")
  <2> DEFINE t == [task[r] EXCEPT !.pc = "ask", !.about = "credential",
                                  !.target = From(r)]
  <2>1. task' = [task EXCEPT ![r] = t]
    BY <1>8 DEF AskForSecret, EndUnnoted
  <2>2. task'[r] = t
    BY <1>2, <2>1
  <2>3. SameGrant(r)
    BY <1>2, <2>2 DEF Task, SameGrant
  <2>4. QED
    BY <1>1, <2>3, SameMayGrant
<1>9. CASE Route(r)
  <2> DEFINE t == [task[r] EXCEPT !.pc = "forward",
                                  !.target = servers[sessions[Sid(r)].server]]
  <2>1. task' = [task EXCEPT ![r] = t]
    BY <1>9 DEF Route
  <2>2. task'[r] = t
    BY <1>2, <2>1
  <2>3. SameGrant(r)
    BY <1>2, <2>2 DEF Task, SameGrant
  <2>4. QED
    BY <1>1, <2>3, SameMayGrant
<1>10. QED
  <2>1. Open(r) \/ Close(r) \/ Serve(r) \/ Bound(r) \/ TakeOver(r) \/ Release(r)
        \/ Forward(r) \/ CallReplayed(r) \/ NoSuchSession(r) \/ HookVetoes(r)
        \/ Refused(r) \/ StoreSecret(r) \/ InvokeInternal(r) \/ CannotRoute(r)
          => Goto(r, "done")
    BY DEF Open, Close, Serve, Bound, TakeOver, Release, Forward, CallReplayed,
       NoSuchSession, HookVetoes, Refused, StoreSecret, InvokeInternal, CannotRoute,
       EndNoted, EndUnnoted
  <2>2. Ask(r) \/ CallLive(r) \/ Approved(r)
          => \E pc \in Sections \ {"open"} : Goto(r, pc)
    BY DEF Ask, CallLive, Approved, Sections
  <2>3. "done" \in Sections \ {"open"}
    BY DEF Sections
  <2>4. MayGrant(r)'
    BY <1>3, <1>4, <1>5, <1>6, <1>7, <1>8, <1>9, <2>1, <2>2, <2>3 DEF RequestStep
  <2>5. QED
    BY <1>1, <2>4

LEMMA NextMayGrant ==
    ASSUME TypeInv, ClearedInv, FreshInv, GrantInv, [Next]_vars
    PROVE  \A q \in Requests : MayGrant(q)'
<1>1. ASSUME NEW r \in Requests, RequestStep(r) PROVE \A q \in Requests : MayGrant(q)'
  BY <1>1, RequestMayGrant
<1>2. CASE UNCHANGED task
  BY <1>2, SameMayGrant
<1>3. ASSUME NEW r \in Requests, Arrive(r) PROVE \A q \in Requests : MayGrant(q)'
  <2>1. Goto(r, Op(r)) /\ (Op(r) = "serve" <=> From(r) \notin Harnesses) /\ From(r) \in Conns
    BY <1>3, RequestsAssumption DEF Arrive, RoleAllows, From
  <2>2. \A q \in Requests \ {r} : MayGrant(q)'
    BY <2>1, SameMayGrant DEF Goto, TypeInv, TypeOK, TasksOK
  <2>3. task[r] \in Task /\ task'[r] = [task[r] EXCEPT !.pc = Op(r)]
    BY <2>1 DEF Goto, TypeInv, TypeOK, TasksOK
  <2>4. /\ task'[r].pc = Op(r) /\ task'[r].owner = task[r].owner
        /\ task'[r].approval = task[r].approval /\ task'[r].by = task[r].by
        /\ task'[r].via = task[r].via
    BY <2>3 DEF Task
  <2>5. MayGrant(r)'
    BY <2>1, <2>4 DEF GrantInv, MayGrant, At, Conns
  <2>6. QED
    BY <2>2, <2>5
<1>4. ASSUME NEW c \in Conns, NEW r \in Requests, Answer(c, r)
      PROVE  \A q \in Requests : MayGrant(q)'
  <2>1. PICK via, answer : /\ via \in Replies
                          /\ answer \in AnswersIn(via, task[r].about)
                          /\ Wake(r, c, via, answer)
    BY <1>4 DEF Answer
  <2>2. At(r, "wait") /\ hubCalls[r] = c /\ c # None
    BY <1>4, ConnsAssumption DEF Answer, MayAnswer
  <2>3. answer = "always" /\ task[r].about = "approval" => via = "response"
    BY <2>1 DEF AnswersIn, Responses, HookReplies
  <2>4. MayGrant(r)'
    BY <2>1, <2>2, <2>3, WakeGrant
  <2>5. \A q \in Requests \ {r} : MayGrant(q)'
    BY <2>1, SameMayGrant DEF Wake, TypeInv, TypeOK, TasksOK
  <2>6. QED
    BY <2>4, <2>5
<1>5. ASSUME NEW r \in Requests, EndingStep(r) PROVE UNCHANGED task
  BY <1>5, EndingTouches
<1>6. ASSUME NEW c \in Conns, Connect(c) \/ LoseAck(c) \/ Disconnect(c)
      PROVE  UNCHANGED task
  BY <1>6 DEF Connect, LoseAck, Register, Disconnect, tasks
<1>7. ASSUME NEW c \in Guests, NEW r \in Requests, ServerAnswers(c, r) \/ Progress(c, r)
      PROVE  UNCHANGED task
  BY <1>7 DEF ServerAnswers, EndRelay, Progress
<1>8. ASSUME NEW c \in Guests, FailCalls(c) \/ RelayProgress(c) PROVE UNCHANGED task
  BY <1>8 DEF FailCalls, RelayProgress
<1>9. QED
  BY <1>1, <1>2, <1>3, <1>4, <1>5, <1>6, <1>7, <1>8 DEF Next, PeerStep, vars

\* A step after which r knows the same of its approval.
SameSaid(r) ==
    /\ task'[r].approval = task[r].approval
    /\ task'[r].owner = task[r].owner
    /\ task'[r].by = task[r].by
    /\ task'[r].via = task[r].via

\* What is granted stays granted: an approval is given once and is never changed.
LEMMA ApprovalStands ==
    ASSUME TypeInv, ClearedInv, FreshInv, [Next]_vars,
           NEW q \in Requests, task[q].approval = "always"
    PROVE  SameSaid(q)
<1>1. task \in [Requests -> Task] /\ task[q] \in Task /\ None # "always"
  BY ConnsAssumption DEF TypeInv, TypeOK, TasksOK
<1>2. CASE task'[q] = task[q]
  BY <1>2 DEF SameSaid
<1>3. ASSUME NEW pc, Goto(q, pc)
      PROVE  SameSaid(q)
  <2>1. task'[q] = [task[q] EXCEPT !.pc = pc]
    BY <1>1, <1>3 DEF Goto
  <2>2. QED
    BY <1>1, <2>1 DEF Task, SameSaid
<1>4. ASSUME NEW c, NEW via, NEW answer, At(q, "wait"), Wake(q, c, via, answer)
      PROVE  SameSaid(q)
  <2>1. task[q].about # "approval"
    BY <1>1, <1>4 DEF FreshInv, Fresh, At
  <2>2. task'[q] = [task[q] EXCEPT !.pc = After(task[q].about), !.answer = answer]
    BY <1>1, <1>4, <2>1 DEF Wake
  <2>3. QED
    BY <1>1, <2>2 DEF Task, SameSaid
<1>5. CASE RequestStep(q)
  <2>3. CASE Open(q) \/ Close(q) \/ Serve(q) \/ Bound(q) \/ TakeOver(q) \/ Release(q)
             \/ Forward(q) \/ Ask(q) \/ CallLive(q) \/ Approved(q)
    BY <1>3, <2>3 DEF Open, Close, Serve, Bound, TakeOver, Release, Forward, Ask,
       CallLive, Approved
  <2>4. CASE CallReplayed(q) \/ NoSuchSession(q) \/ HookVetoes(q) \/ Refused(q)
             \/ StoreSecret(q) \/ InvokeInternal(q) \/ CannotRoute(q)
    BY <1>3, <2>4 DEF CallReplayed, NoSuchSession, HookVetoes, Refused, StoreSecret,
       InvokeInternal, CannotRoute, EndNoted, EndUnnoted
  <2>5. CASE GiveUp(q)
    BY <1>4, <2>5 DEF GiveUp
  <2>6. CASE ConsultPolicy(q)
    BY <1>1, <2>6 DEF ConsultPolicy, SameSaid, FreshInv, Fresh, Early, At
  <2>7. CASE HookPasses(q)
    BY <1>1, <2>7 DEF HookPasses, FreshInv, Fresh, At
  <2>8. CASE BindLookup(q) \/ AskForSecret(q) \/ Route(q)
    <3>1. CASE \E pc : Goto(q, pc)
      BY <1>3, <3>1
    <3>2. CASE BindLookup(q) /\ ~Goto(q, "done")
      <4>1. task'[q] = [task[q] EXCEPT !.pc = "ask", !.about = "bind",
                                       !.target = servers[Req[q].server]]
        BY <1>1, <3>2 DEF BindLookup
      <4>2. QED
        BY <1>1, <4>1 DEF Task, SameSaid
    <3>3. CASE AskForSecret(q) /\ ~Goto(q, "done")
      <4>1. task'[q] = [task[q] EXCEPT !.pc = "ask", !.about = "credential",
                                       !.target = From(q)]
        BY <1>1, <3>3 DEF AskForSecret, EndUnnoted
      <4>2. QED
        BY <1>1, <4>1 DEF Task, SameSaid
    <3>4. CASE Route(q)
      <4>1. task'[q] = [task[q] EXCEPT !.pc = "forward",
                                  !.target = servers[sessions[Sid(q)].server]]
        BY <1>1, <3>4 DEF Route
      <4>2. QED
        BY <1>1, <4>1 DEF Task, SameSaid
    <3>5. QED
      BY <2>8, <3>1, <3>2, <3>3, <3>4
  <2>9. QED
    BY <1>5, <2>3, <2>4, <2>5, <2>6, <2>7, <2>8 DEF RequestStep
<1>6. ASSUME NEW r \in Requests \ {q}, RequestStep(r) PROVE task'[q] = task[q]
  BY <1>6, RequestTouches DEF OthersUntouched
<1>7. ASSUME NEW r \in Requests, EndingStep(r) PROVE task'[q] = task[q]
  BY <1>7, EndingTouches
<1>8. ASSUME NEW r \in Requests, Arrive(r)
      PROVE  SameSaid(q)
  <2>1. CASE r = q
    BY <1>3, <1>8, <2>1 DEF Arrive
  <2>2. CASE r # q
    BY <1>1, <1>8, <2>2 DEF Arrive, Goto, SameSaid
  <2>3. QED
    BY <2>1, <2>2
<1>9. ASSUME NEW c \in Conns, NEW r \in Requests, Answer(c, r)
      PROVE  SameSaid(q)
  <2>1. At(r, "wait") /\ \E via, answer : Wake(r, c, via, answer)
    BY <1>9 DEF Answer
  <2>2. CASE r = q
    BY <1>4, <2>1, <2>2
  <2>3. CASE r # q
    BY <1>1, <2>1, <2>3 DEF Wake, SameSaid
  <2>4. QED
    BY <2>2, <2>3
<1>10. ASSUME NEW c \in Conns, Connect(c) \/ LoseAck(c) \/ Disconnect(c)
       PROVE  task'[q] = task[q]
  BY <1>10 DEF Connect, LoseAck, Register, Disconnect, tasks
<1>11. ASSUME NEW c \in Guests, NEW r \in Requests, ServerAnswers(c, r) \/ Progress(c, r)
       PROVE  task'[q] = task[q]
  BY <1>11 DEF ServerAnswers, EndRelay, Progress
<1>12. ASSUME NEW c \in Guests, FailCalls(c) \/ RelayProgress(c) PROVE task'[q] = task[q]
  BY <1>12 DEF FailCalls, RelayProgress
<1>13. CASE UNCHANGED vars
  BY <1>2, <1>13 DEF vars
<1>14. QED
  BY <1>2, <1>5, <1>6, <1>7, <1>8, <1>9, <1>10, <1>11, <1>12, <1>13
     DEF Next, PeerStep

\* What the task of a call that left a grant behind looks like.
StandingYes(t) ==
    t.approval = "always" /\ t.by = t.owner /\ t.by \in Harnesses /\ t.via = "response"

\* A grant goes with its session, and a new session starts without any.
LEMMA NextGiven ==
    ASSUME TypeInv, ClearedInv, FreshInv, GrantInv, [Next]_vars
    PROVE  GrantsWereGiven'
<1> DEFINE Given(r, s, g) == /\ Sid(r) = s /\ GrantFor(Call(r)) = g
                             /\ StandingYes(task[r])
<1>1. SUFFICES ASSUME NEW s \in Sessions, sessions'[s] # None,
                      NEW g \in sessions'[s].grants \ DefaultPolicy.grants
               PROVE  \E r \in ToolCalls :
                         /\ Sid(r) = s
                         /\ GrantFor(Call(r)) = g
                         /\ StandingYes(task'[r])
  BY DEF GrantsWereGiven, StandingYes
<1>2. ASSUME NEW r \in ToolCalls, Given(r, s, g)
      PROVE  StandingYes(task'[r])
  BY <1>2, ApprovalStands DEF ToolCalls, StandingYes, SameSaid
<1>3. CASE sessions[s] # None /\ g \in sessions[s].grants
  <2>1. PICK r \in ToolCalls : Given(r, s, g)
    BY <1>3 DEF GrantInv, GrantsWereGiven, StandingYes
  <2>2. QED
    BY <1>2, <2>1
<1>4. ASSUME NEW r \in Requests, GrantedBy(r, s), g \notin sessions[s].grants
      PROVE  r \in ToolCalls /\ Given(r, s, g)
  <2>1. g = GrantFor(Call(r)) /\ s = Sid(r) /\ task[r].approval = "always"
    BY <1>4 DEF GrantedBy
  <2>2. StandingYes(task[r])
    BY <2>1 DEF GrantInv, MayGrant, StandingYes
  <2>3. r \in ToolCalls
    BY <1>4 DEF GrantedBy, Approved, At, TypeInv, TasksFit, Fits, CallSections, ToolCalls
  <2>4. QED
    BY <2>1, <2>2, <2>3
<1>5. CASE SessionKept(s)
  BY <1>3, <1>5 DEF SessionKept, SameSession
<1>6. ASSUME NEW r \in Requests, RequestStep(r), ~SessionKept(s)
      PROVE  \E q \in ToolCalls : /\ Sid(q) = s
                                  /\ GrantFor(Call(q)) = g
                                  /\ StandingYes(task'[q])
  <2>1. ~OpenedBy(r, s)
    BY DEF OpenedBy
  <2>2. CASE MovedBy(r, s)
    BY <1>3, <2>2 DEF MovedBy, SameSession
  <2>3. CASE GrantedBy(r, s)
    <3>1. CASE g \in sessions[s].grants
      BY <1>3, <2>3, <3>1 DEF GrantedBy, SameSession
    <3>2. CASE g \notin sessions[s].grants
      BY <1>2, <1>4, <2>3, <3>2
    <3>3. QED
      BY <3>1, <3>2
  <2>4. QED
    BY <1>1, <1>6, <2>1, <2>2, <2>3, SessionAfterRequest
<1>7. QED
  <2>1. CASE \A r \in Requests : ~RequestStep(r)
    BY <1>1, <1>5, <2>1, SessionAfterOthers
  <2>2. QED
    BY <1>5, <1>6, <2>1

\* Sessions belong to harnesses.
LEMMA NextHarnessesOwn ==
    ASSUME TypeInv, GrantInv, [Next]_vars
    PROVE  HarnessesOwn'
<1>1. SUFFICES ASSUME NEW s \in Sessions, sessions'[s] # None
               PROVE  sessions'[s].owner \in Harnesses
  BY DEF HarnessesOwn
<1>2. CASE SameSession(s)
  BY <1>2 DEF SameSession, GrantInv, HarnessesOwn
<1>3. ASSUME NEW r \in Requests, OpenedBy(r, s) PROVE sessions'[s].owner \in Harnesses
  BY <1>3 DEF OpenedBy, Open, GrantInv, MayGrant
<1>4. QED
  <2>1. ASSUME NEW r \in Requests, RequestStep(r)
        PROVE  SameSession(s) \/ OpenedBy(r, s)
    BY <1>1, <2>1, SessionAfterRequest DEF SessionKept, GrantedBy, MovedBy
  <2>2. CASE \A r \in Requests : ~RequestStep(r)
    BY <1>1, <1>2, <2>2, SessionAfterOthers DEF SessionKept
  <2>3. QED
    BY <1>2, <1>3, <2>1, <2>2

\* Every grant of a session was given, in a response and in no hook_reply, by the
\* harness that owned a session of that id when it was asked about that kind of
\* call.
THEOREM GrantsAreGiven == Spec => []GrantsWereGiven
<1> DEFINE I == TypeInv /\ ClearedInv /\ FreshInv /\ GrantInv
<1>1. Init => I
  <2> SUFFICES ASSUME Init PROVE I
    OBVIOUS
  <2>1. TypeInv
    BY InitTypeInv
  <2>2. ClearedInv /\ FreshInv
    BY DEF Init, Unused, ClearedInv, Cleared, Ran, NewTask, FreshInv, Fresh
  <2>3. GrantInv
    BY ConnsAssumption DEF Init, Unused, NewTask, GrantInv, HarnessesOwn,
       GrantsWereGiven, MayGrant, At
  <2>4. QED
    BY <2>1, <2>2, <2>3
<1>2. I /\ [Next]_vars => I'
  BY NextTypeInv, NextCleared, NextFresh, NextMayGrant, NextGiven, NextHarnessesOwn
     DEF GrantInv
<1>3. I => GrantsWereGiven
  BY DEF GrantInv
<1>4. QED
  BY <1>1, <1>2, <1>3, PTL DEF Spec

-----------------------------------------------------------------------------
(***************************************************************************)
(* The record.                                                             *)
(***************************************************************************)

\* What has been noted of a call, phase by phase: nothing until its ending is
\* written down, then that ending if its session named a Bot; and nothing else
\* once its caller was told, though what never reached a guest may be unnoted.
Accounted(r) ==
    /\ ~At(r, "done") \/ relays[r] # None => noted[r] = <<>>
    /\ ending[r] # None =>
          noted[r] = IF task[r].bot /\ ending[r].retired THEN <<ending[r].how>> ELSE <<>>
    /\ answers[r] # <<>> =>
          /\ noted[r] \in {<<>>, answers[r]}
          /\ noted[r] = <<>> /\ task[r].bot => delivered[r] = None

AccountInv == \A r \in Requests : Accounted(r)

\* A step that is about another request, or that notes and answers nothing.
LEMMA SameAccount ==
    ASSUME AccountInv, NEW q \in Requests, task'[q] = task[q],
           relays'[q] \in {None, relays[q]}, ending'[q] = ending[q],
           answers'[q] = answers[q], noted'[q] = noted[q], delivered'[q] = delivered[q]
    PROVE  Accounted(q)'
  BY DEF AccountInv, Accounted, At

\* A call that has not been forwarded: nothing has been said about it.
LEMMA Unsaid ==
    ASSUME OnceInv, ClearedInv, AccountInv, NEW r \in Requests, ~At(r, "done")
    PROVE  /\ answers[r] = <<>> /\ noted[r] = <<>> /\ delivered[r] = None
           /\ relays[r] = None /\ ending[r] = None
  BY DEF OnceInv, OnePhase, ClearedInv, Cleared, Ran, At, AccountInv, Accounted

\* A task that moves on, or forwards its call, with nothing said yet.
LEMMA MovedAccount ==
    ASSUME TypeInv, OnceInv, ClearedInv, AccountInv, NEW r \in Requests, ~At(r, "done"),
           UNCHANGED <<ending, answers, noted>>
    PROVE  Accounted(r)'
<1>1. answers'[r] = <<>> /\ noted'[r] = <<>> /\ ending'[r] = None
  BY Unsaid
<1>2. QED
  BY <1>1 DEF Accounted

\* A call that ends unforwarded, noted or not.
LEMMA EndAccount ==
    ASSUME TypeInv, OnceInv, ClearedInv, AccountInv, NEW r \in Requests, ~At(r, "done"),
           NEW how \in Hows, EndNoted(r, how) \/ EndUnnoted(r, how),
           UNCHANGED <<relays, ending, delivered>>
    PROVE  Accounted(r)'
<1>1. /\ answers[r] = <<>> /\ noted[r] = <<>> /\ delivered[r] = None
      /\ relays[r] = None /\ ending[r] = None
  BY Unsaid
<1>2. Goto(r, "done") /\ answers' = Answered(r, how) /\ noted' \in {noted, Noted(r, how)}
  BY DEF EndNoted, EndUnnoted
<1>3. answers'[r] \in {<<>>, <<how>>}
  BY <1>1, <1>2 DEF Answered, TypeInv, TypeOK, HistoryOK
<1>4. noted'[r] \in {<<>>, <<how>>}
  BY <1>1, <1>2 DEF Noted, TypeInv, TypeOK, HistoryOK
<1>5. task'[r].pc = "done"
  BY <1>2, GotoDone DEF At
<1>6. QED
  BY <1>1, <1>3, <1>4, <1>5 DEF Accounted, At

LEMMA RequestAccount ==
    ASSUME TypeInv, OnceInv, ClearedInv, AccountInv, NEW r \in Requests, RequestStep(r)
    PROVE  AccountInv'
<1>1. ~At(r, "done") /\ UNCHANGED ending /\ OthersUntouched(r)
      /\ (Forward(r) \/ UNCHANGED <<relays, delivered>>)
  BY RequestTouches
<1>2. \A q \in Requests \ {r} : Accounted(q)'
  BY <1>1, SameAccount DEF OthersUntouched
<1>3. CASE UNCHANGED <<answers, noted>>
  BY <1>1, <1>2, <1>3, MovedAccount DEF AccountInv
<1>4. CASE ~Forward(r) /\ \E how \in Hows : EndNoted(r, how) \/ EndUnnoted(r, how)
  BY <1>1, <1>2, <1>4, EndAccount DEF AccountInv
<1>5. CASE ConsultPolicy(r) /\ ~UNCHANGED <<answers, noted>>
  <2>1. /\ answers[r] = <<>> /\ noted[r] = <<>> /\ delivered[r] = None
        /\ relays[r] = None /\ ending[r] = None
    BY <1>1, Unsaid
  <2> DEFINE s == sessions[Sid(r)]
  <2>2. /\ answers' = Answered(r, "byPolicy")
        /\ noted' = IF s.bot THEN [noted EXCEPT ![r] = Append(noted[r], "byPolicy")]
                             ELSE noted
    BY <1>5 DEF ConsultPolicy
  <2>3. task'[r].pc = "done"
    BY <1>5 DEF ConsultPolicy, TypeInv, TypeOK, TasksOK, Task
  <2>4. answers'[r] \in {<<>>, <<"byPolicy">>}
    BY <2>1, <2>2 DEF Answered, TypeInv, TypeOK, HistoryOK
  <2>5. noted'[r] \in {<<>>, <<"byPolicy">>}
    BY <2>1, <2>2 DEF TypeInv, TypeOK, HistoryOK
  <2>6. /\ relays'[r] = None /\ ending'[r] = None /\ delivered'[r] = None
    BY <1>1, <1>5, <2>1 DEF ConsultPolicy, tables
  <2>7. Accounted(r)'
    BY <2>3, <2>4, <2>5, <2>6 DEF Accounted, At
  <2>8. QED
    BY <1>2, <2>7 DEF AccountInv
<1>6. QED
  <2>1. Open(r) \/ Close(r) \/ Serve(r) \/ Bound(r) \/ TakeOver(r) \/ Release(r)
        \/ BindLookup(r) \/ Ask(r) \/ GiveUp(r) \/ CallLive(r) \/ HookPasses(r)
        \/ Approved(r) \/ Route(r) \/ Forward(r)
          => UNCHANGED <<answers, noted>>
    BY DEF Open, Close, Serve, Bound, TakeOver, Release, BindLookup, Ask, GiveUp,
       CallLive, HookPasses, Approved, Route, Forward, history
  <2>2. CallReplayed(r) \/ NoSuchSession(r) \/ HookVetoes(r) \/ Refused(r)
        \/ StoreSecret(r) \/ InvokeInternal(r) \/ CannotRoute(r)
          => ~Forward(r) /\ \E how \in Hows : EndNoted(r, how) \/ EndUnnoted(r, how)
    BY DEF CallReplayed, NoSuchSession, HookVetoes, Refused, StoreSecret,
       InvokeInternal, CannotRoute, Hows, Forward, At
  <2>3. AskForSecret(r) =>
          \/ UNCHANGED <<answers, noted>>
          \/ ~Forward(r) /\ EndUnnoted(r, "noCredential") /\ "noCredential" \in Hows
    BY DEF AskForSecret, Hows, Forward, At
  <2>4. QED
    BY <1>3, <1>4, <1>5, <2>1, <2>2, <2>3 DEF RequestStep

\* A relay that leaves the table with an ending nobody has written down.
LEMMA EndRelayAccount ==
    ASSUME TypeInv, AccountInv, NEW r \in Requests, NEW how, NEW by,
           relays[r] # None, EndRelay(r, how, by), UNCHANGED task
    PROVE  AccountInv'
<1>1. UNCHANGED <<answers, noted, delivered>>
      /\ relays'[r] = None /\ ending'[r] = [how |-> how, by |-> by, retired |-> FALSE]
      /\ \A q \in Requests \ {r} : relays'[q] = relays[q] /\ ending'[q] = ending[q]
  BY DEF EndRelay, TypeInv, TypeOK, TablesOK, TasksOK
<1>2. \A q \in Requests \ {r} : Accounted(q)'
  BY <1>1, SameAccount
<1>3. Accounted(r)
  BY DEF AccountInv
<1>4. Accounted(r)'
  BY <1>1, <1>3 DEF Accounted, At
<1>5. QED
  BY <1>2, <1>4 DEF AccountInv

LEMMA EndingAccount ==
    ASSUME TypeInv, OnceInv, AccountInv, NEW r \in Requests, EndingStep(r)
    PROVE  AccountInv'
<1>1. UNCHANGED <<task, delivered>>
  BY EndingTouches
<1>2. \A q \in Requests \ {r} : Accounted(q)'
  BY <1>1, EndingTouches, SameAccount
<1>3. Accounted(r) /\ OnePhase(r) /\ ending \in [Requests -> Ending \cup {None}]
  BY DEF AccountInv, OnceInv, TypeInv, TypeOK, TasksOK
<1>4. CASE Deadline(r)
  BY <1>1, <1>4, EndRelayAccount DEF Deadline
<1>5. CASE Retire(r)
  <2>1. ending[r] # None /\ ~ending[r].retired /\ ending[r] \in Ending
    BY <1>3, <1>5 DEF Retire
  <2>2. noted[r] = <<>> /\ answers[r] = <<>> /\ relays[r] = None /\ At(r, "done")
    BY <1>3, <2>1 DEF Accounted, OnePhase
  <2>3. ending'[r] = [ending[r] EXCEPT !.retired = TRUE]
    BY <1>3, <1>5 DEF Retire
  <2>4. ending'[r].how = ending[r].how /\ ending'[r].retired
    BY <2>1, <2>3 DEF Ending
  <2>5. noted'[r] = IF task[r].bot THEN <<ending[r].how>> ELSE <<>>
    BY <1>5, <2>2 DEF Retire, Noted, TypeInv, TypeOK, HistoryOK
  <2>6. answers'[r] = <<>> /\ relays'[r] = None
    BY <1>5, <2>2 DEF Retire
  <2>7. Accounted(r)'
    BY <1>1, <2>2, <2>4, <2>5, <2>6 DEF Accounted, At
  <2>8. QED
    BY <1>2, <2>7 DEF AccountInv
<1>6. CASE Finish(r)
  <2>1. ending[r] # None /\ ending[r].retired
    BY <1>6 DEF Finish
  <2>2. answers[r] = <<>> /\ relays[r] = None /\ At(r, "done")
    BY <1>3, <2>1 DEF OnePhase
  <2>3. noted[r] = IF task[r].bot THEN <<ending[r].how>> ELSE <<>>
    BY <1>3, <2>1 DEF Accounted
  <2>4. ending'[r] = None /\ noted'[r] = noted[r] /\ relays'[r] = None
    BY <1>3, <1>6, <2>2 DEF Finish, tables
  <2>5. answers'[r] \in {<<>>, <<ending[r].how>>}
    BY <1>6, <2>2 DEF Finish, Answered, TypeInv, TypeOK, HistoryOK
  <2>6. Accounted(r)'
    BY <1>1, <2>2, <2>3, <2>4, <2>5 DEF Accounted, At
  <2>7. QED
    BY <1>2, <2>6 DEF AccountInv
<1>7. QED
  BY <1>4, <1>5, <1>6 DEF EndingStep

LEMMA FailCallsAccount ==
    ASSUME TypeInv, AccountInv, NEW c \in Guests, FailCalls(c)
    PROVE  AccountInv'
<1> SUFFICES ASSUME NEW q \in Requests PROVE Accounted(q)'
  BY DEF AccountInv
<1>1. UNCHANGED <<task, answers, noted, delivered>>
  BY DEF FailCalls, history
<1>2. CASE relays[q] = c
  <2>1. relays'[q] = None /\ ending'[q] = [how |-> "gone", by |-> c, retired |-> FALSE]
    BY <1>2 DEF FailCalls
  <2>2. relays[q] # None
    BY <1>2, ConnsAssumption DEF Conns
  <2>3. Accounted(q)
    BY DEF AccountInv
  <2>4. QED
    BY <1>1, <2>1, <2>2, <2>3 DEF Accounted, At
<1>3. CASE relays[q] # c
  BY <1>1, <1>3, SameAccount DEF FailCalls
<1>4. QED
  BY <1>2, <1>3

LEMMA NextAccount ==
    TypeInv /\ OnceInv /\ ClearedInv /\ AccountInv /\ [Next]_vars => AccountInv'
<1> SUFFICES ASSUME TypeInv, OnceInv, ClearedInv, AccountInv, [Next]_vars
             PROVE  AccountInv'
  OBVIOUS
<1>1. ASSUME NEW r \in Requests, RequestStep(r) \/ EndingStep(r) PROVE AccountInv'
  BY <1>1, RequestAccount, EndingAccount
<1>2. CASE /\ UNCHANGED <<task, ending, answers, noted, delivered>>
           /\ \A q \in Requests : relays'[q] \in {None, relays[q]}
  BY <1>2, SameAccount DEF AccountInv
<1>3. ASSUME NEW c \in Conns, Connect(c) \/ LoseAck(c) \/ Disconnect(c) PROVE AccountInv'
  BY <1>2, <1>3 DEF Connect, LoseAck, Register, Disconnect, tasks, history
<1>4. ASSUME NEW r \in Requests, ~At(r, "done"), UNCHANGED <<relays, ending, answers,
             noted, delivered>>, \A q \in Requests \ {r} : task'[q] = task[q]
      PROVE  AccountInv'
  <2>1. Accounted(r)' /\ \A q \in Requests \ {r} : Accounted(q)'
    BY <1>4, MovedAccount, SameAccount
  <2>2. QED
    BY <2>1 DEF AccountInv
<1>5. ASSUME NEW r \in Requests, Arrive(r) PROVE AccountInv'
  BY <1>4, <1>5 DEF Arrive, Goto, At, tables, history, TypeInv, TypeOK, TasksOK
<1>6. ASSUME NEW c \in Conns, NEW r \in Requests, Answer(c, r) PROVE AccountInv'
  BY <1>4, <1>6 DEF Answer, Wake, At, history, TypeInv, TypeOK, TasksOK
<1>7. ASSUME NEW c \in Guests, NEW r \in Requests, ServerAnswers(c, r) PROVE AccountInv'
  BY <1>7, EndRelayAccount DEF ServerAnswers, EndRelay
<1>8. ASSUME NEW c \in Guests, NEW r \in Requests, Progress(c, r) PROVE AccountInv'
  BY <1>2, <1>8 DEF Progress, tables
<1>9. ASSUME NEW c \in Guests, FailCalls(c) PROVE AccountInv'
  BY <1>9, FailCallsAccount
<1>10. ASSUME NEW c \in Guests, RelayProgress(c) PROVE AccountInv'
  BY <1>2, <1>10 DEF RelayProgress, tables
<1>11. CASE UNCHANGED vars
  BY <1>2, <1>11 DEF vars
<1>12. QED
  BY <1>1, <1>3, <1>5, <1>6, <1>7, <1>8, <1>9, <1>10, <1>11 DEF Next, PeerStep

-----------------------------------------------------------------------------
(***************************************************************************)
(* The table of calls in flight.                                           *)
(***************************************************************************)

Unfinished(r) == relays[r] # None \/ (ending[r] # None /\ ~ending[r].retired)

\* What is written down of an ending is never mistaken for its absence.
LEMMA EndingIsSome ==
    ASSUME NEW how \in {"ok", "failed", "gone", "deadline"}, NEW by \in Guests \cup {None}
    PROVE  [how |-> how, by |-> by, retired |-> FALSE] # None
<1>1. [how |-> how, by |-> by, retired |-> FALSE] \in Ending
  BY DEF Ending
<1>2. QED
  BY <1>1, EntriesAssumption, Zenon

\* A step that enters no call id and after which whoever was in flight is so.
LEMMA QuietLeak ==
    ASSUME NoLeakedCall, \A i \in CallIds : calls'[i] \in {None, calls[i]},
           \A q \in ToolCalls : Unfinished(q) => Unfinished(q)' \/ calls'[CallId(q)] = None
    PROVE  NoLeakedCall'
  BY DEF NoLeakedCall, Unfinished

LEMMA ForwardLeak ==
    ASSUME TypeInv, NoLeakedCall, NEW r \in Requests, Forward(r)
    PROVE  NoLeakedCall'
<1> SUFFICES ASSUME NEW i \in CallIds, calls'[i] # None
             PROVE  \E q \in ToolCalls : /\ CallId(q) = i
                                         /\ From(q) = calls'[i].origin
                                         /\ Unfinished(q)'
  BY DEF NoLeakedCall, Unfinished
<1>1. r \in ToolCalls /\ task[r].target # None
  BY ConnsAssumption DEF Forward, At, TypeInv, TasksFit, Fits, CallSections, ToolCalls,
     Conns
<1>2. calls \in [CallIds -> InFlight \cup {None}] /\ relays \in [Requests -> Guests \cup {None}]
  BY DEF TypeInv, TypeOK, TablesOK
<1>3. CASE i = CallId(r)
  <2>1. calls'[i].origin = From(r) /\ relays'[r] = task[r].target
    BY <1>2, <1>3 DEF Forward
  <2>2. QED
    BY <1>1, <1>3, <2>1 DEF Unfinished
<1>4. CASE i # CallId(r)
  <2>1. calls'[i] = calls[i]
    BY <1>2, <1>4 DEF Forward
  <2>2. PICK q \in ToolCalls : CallId(q) = i /\ From(q) = calls[i].origin /\ Unfinished(q)
    BY <2>1 DEF NoLeakedCall, Unfinished
  <2>3. Unfinished(q)'
    BY <1>2, <1>4, <2>2 DEF Forward, Unfinished, ToolCalls
  <2>4. QED
    BY <2>1, <2>2, <2>3
<1>5. QED
  BY <1>3, <1>4

LEMMA EndRelayLeak ==
    ASSUME TypeInv, NoLeakedCall, NEW r \in Requests,
           NEW how \in {"ok", "failed", "gone", "deadline"}, NEW by \in Guests \cup {None},
           EndRelay(r, how, by)
    PROVE  NoLeakedCall'
<1>1. UNCHANGED calls
  BY DEF EndRelay
<1>2. ending'[r] = [how |-> how, by |-> by, retired |-> FALSE]
  BY DEF EndRelay, TypeInv, TypeOK, TasksOK
<1>3. Unfinished(r)'
  <2>1. ending'[r] # None /\ ~ending'[r].retired
    BY <1>2, EndingIsSome
  <2>2. QED
    BY <2>1 DEF Unfinished
<1>4. \A q \in Requests \ {r} : Unfinished(q)' <=> Unfinished(q)
  BY DEF EndRelay, Unfinished, TypeInv, TypeOK, TablesOK, TasksOK
<1>5. QED
  BY <1>1, <1>3, <1>4, QuietLeak DEF ToolCalls

LEMMA EndingLeak ==
    ASSUME TypeInv, NoLeakedCall, NEW r \in Requests, EndingStep(r)
    PROVE  NoLeakedCall'
<1>1. CASE Deadline(r)
  BY <1>1, EndRelayLeak DEF Deadline
<1>2. CASE Retire(r)
  <2>1. calls' = [calls EXCEPT ![CallId(r)] = None] /\ UNCHANGED relays
    BY <1>2 DEF Retire
  <2>2. \A i \in CallIds : calls'[i] \in {None, calls[i]}
    BY <2>1 DEF TypeInv, TypeOK, TablesOK
  <2>3. \A q \in Requests \ {r} : Unfinished(q)' <=> Unfinished(q)
    BY <1>2 DEF Retire, Unfinished, TypeInv, TypeOK, TasksOK
  <2>4. r \in ToolCalls => calls'[CallId(r)] = None
    BY <2>1, RequestsAssumption DEF ToolCalls, Op, CallId, TypeInv, TypeOK, TablesOK
  <2>5. QED
    BY <2>2, <2>3, <2>4, QuietLeak DEF ToolCalls
<1>3. CASE Finish(r)
  <2>1. UNCHANGED <<calls, relays>> /\ ending[r].retired
    BY <1>3 DEF Finish, tables
  <2>2. \A q \in Requests : Unfinished(q) => Unfinished(q)'
    BY <1>3, <2>1 DEF Finish, Unfinished, TypeInv, TypeOK, TasksOK
  <2>3. QED
    BY <2>1, <2>2, QuietLeak DEF ToolCalls
<1>4. QED
  BY <1>1, <1>2, <1>3 DEF EndingStep

\* Who leaves takes the entries of its own calls along.
LEMMA DisconnectLeak ==
    ASSUME TypeInv, NoLeakedCall, NEW c \in Conns, Disconnect(c)
    PROVE  NoLeakedCall'
<1> SUFFICES ASSUME NEW i \in CallIds, calls'[i] # None
             PROVE  \E q \in ToolCalls : /\ CallId(q) = i
                                         /\ From(q) = calls'[i].origin
                                         /\ Unfinished(q)'
  BY DEF NoLeakedCall, Unfinished
<1>1. calls'[i] = calls[i] /\ calls[i].origin # c
  BY DEF Disconnect, CallsWithout
<1>2. PICK q \in ToolCalls : CallId(q) = i /\ From(q) = calls[i].origin /\ Unfinished(q)
  BY <1>1 DEF NoLeakedCall, Unfinished
<1>3. relays'[q] = relays[q] /\ ending'[q] = ending[q]
  BY <1>1, <1>2 DEF Disconnect, tasks, ToolCalls
<1>4. QED
  BY <1>1, <1>2, <1>3 DEF Unfinished

LEMMA FailCallsLeak ==
    ASSUME TypeInv, NoLeakedCall, NEW c \in Guests, FailCalls(c)
    PROVE  NoLeakedCall'
<1>1. ASSUME NEW q \in Requests, Unfinished(q) PROVE Unfinished(q)'
  <2>1. CASE relays[q] = c
    <3>1. ending'[q] = [how |-> "gone", by |-> c, retired |-> FALSE]
      BY <2>1 DEF FailCalls
    <3>2. ending'[q] # None /\ ~ending'[q].retired
      BY <3>1, EndingIsSome
    <3>3. QED
      BY <3>2 DEF Unfinished
  <2>2. CASE relays[q] # c
    BY <1>1, <2>2 DEF FailCalls, Unfinished
  <2>3. QED
    BY <2>1, <2>2
<1>2. UNCHANGED calls
  BY DEF FailCalls
<1>3. QED
  BY <1>1, <1>2, QuietLeak DEF ToolCalls

LEMMA NextLeak == TypeInv /\ NoLeakedCall /\ [Next]_vars => NoLeakedCall'
<1> SUFFICES ASSUME TypeInv, NoLeakedCall, [Next]_vars PROVE NoLeakedCall'
  OBVIOUS
<1>1. CASE UNCHANGED <<calls, relays, ending>>
  BY <1>1, QuietLeak DEF Unfinished
<1>2. ASSUME NEW r \in Requests, RequestStep(r) PROVE NoLeakedCall'
  BY <1>1, <1>2, RequestTouches, ForwardLeak
<1>3. ASSUME NEW r \in Requests, EndingStep(r) PROVE NoLeakedCall'
  BY <1>3, EndingLeak
<1>4. ASSUME NEW c \in Conns, Connect(c) \/ LoseAck(c) PROVE NoLeakedCall'
  BY <1>1, <1>4 DEF Connect, LoseAck, Register, tasks
<1>5. ASSUME NEW c \in Conns, Disconnect(c) PROVE NoLeakedCall'
  BY <1>5, DisconnectLeak
<1>6. ASSUME NEW r \in Requests, Arrive(r) PROVE NoLeakedCall'
  BY <1>1, <1>6 DEF Arrive, tables
<1>7. ASSUME NEW c \in Conns, NEW r \in Requests, Answer(c, r) PROVE NoLeakedCall'
  BY <1>1, <1>7 DEF Answer
<1>8. ASSUME NEW c \in Guests, NEW r \in Requests, ServerAnswers(c, r)
      PROVE  NoLeakedCall'
  BY <1>8, EndRelayLeak DEF ServerAnswers
<1>9. ASSUME NEW c \in Guests, NEW r \in Requests, Progress(c, r) PROVE NoLeakedCall'
  BY <1>1, <1>9 DEF Progress, tables
<1>10. ASSUME NEW c \in Guests, FailCalls(c) PROVE NoLeakedCall'
  BY <1>10, FailCallsLeak
<1>11. ASSUME NEW c \in Guests, RelayProgress(c) PROVE NoLeakedCall'
  BY <1>1, <1>11 DEF RelayProgress, tables
<1>12. CASE UNCHANGED vars
  BY <1>1, <1>12 DEF vars
<1>13. QED
  BY <1>2, <1>3, <1>4, <1>5, <1>6, <1>7, <1>8, <1>9, <1>10, <1>11, <1>12
     DEF Next, PeerStep

\* What the record says of a call is what its caller was told, a call that
\* reached a guest is in the record before its caller is told, and the table of
\* calls in flight holds calls in flight only.
THEOREM CallsAccounted == Spec => []CallsAreAccountedFor
<1> DEFINE I == TypeInv /\ OnceInv /\ ClearedInv /\ AccountInv /\ NoLeakedCall
<1>1. Init => I
  <2> SUFFICES ASSUME Init PROVE I
    OBVIOUS
  <2>1. TypeInv
    BY InitTypeInv
  <2>2. OnceInv /\ ClearedInv
    BY DEF Init, Unused, OnceInv, OnePhase, ClearedInv, Cleared, Ran, NewTask
  <2>3. AccountInv /\ NoLeakedCall
    BY DEF Init, Unused, AccountInv, Accounted, NoLeakedCall
  <2>4. QED
    BY <2>1, <2>2, <2>3
<1>2. I /\ [Next]_vars => I'
  BY NextTypeInv, NextOnce, NextCleared, NextAccount, NextLeak
<1>3. I => CallsAreAccountedFor
  <2> SUFFICES ASSUME I PROVE RecordAgrees
    BY DEF CallsAreAccountedFor
  <2>1. ASSUME NEW r \in Requests, answers[r] # <<>>,
               noted[r] # <<>> \/ (delivered[r] # None /\ task[r].bot)
        PROVE  noted[r] = answers[r]
    BY <2>1 DEF AccountInv, Accounted
  <2>2. QED
    BY <2>1 DEF RecordAgrees
<1>4. QED
  BY <1>1, <1>2, <1>3, PTL DEF Spec

-----------------------------------------------------------------------------
(***************************************************************************)
(* Progress.                                                               *)
(***************************************************************************)

\* Nobody comes back: connection ids are never reused.
LEMMA NextOnlyAge == TypeInv /\ [Next]_vars => OnlyAge
<1> SUFFICES ASSUME TypeInv, [Next]_vars PROVE OnlyAge
  OBVIOUS
<1>1. CASE UNCHANGED conns
  BY <1>1 DEF OnlyAge
<1>2. ASSUME NEW c \in Conns, Connect(c) \/ LoseAck(c) \/ Disconnect(c) PROVE OnlyAge
  <2>1. /\ Disconnect(c) \/ conns[c] = "new"
        /\ conns'[c] # "new" /\ (Disconnect(c) => conns'[c] # "up")
    BY <1>2 DEF Connect, LoseAck, Register, Disconnect, TypeInv, TypeOK, TablesOK
  <2>2. \A d \in Conns \ {c} : conns'[d] = conns[d]
    BY <1>2 DEF Connect, LoseAck, Register, Disconnect, TypeInv, TypeOK, TablesOK
  <2>3. QED
    BY <2>1, <2>2 DEF OnlyAge
<1>3. ASSUME NEW c \in Guests, FailCalls(c) PROVE OnlyAge
  BY <1>3 DEF FailCalls, OnlyAge, TypeInv, TypeOK, TablesOK
<1>4. QED
  BY <1>1, <1>2, <1>3, ConnsTouched DEF vars

\* Where a call went is where it stays, and only a forward sends it there.
LEMMA DeliveredStands ==
    ASSUME TypeInv, ClearedInv, [Next]_vars, NEW q \in Requests
    PROVE  /\ delivered[q] # None => delivered'[q] = delivered[q]
           /\ delivered'[q] # delivered[q] => Forward(q)
<1>1. CASE UNCHANGED delivered
  BY <1>1 DEF Forward
<1>2. ASSUME NEW r \in Requests, RequestStep(r), ~UNCHANGED delivered
      PROVE  /\ delivered[q] # None => delivered'[q] = delivered[q]
             /\ delivered'[q] # delivered[q] => Forward(q)
  <2>1. Forward(r) /\ OthersUntouched(r)
    BY <1>2, RequestTouches
  <2>2. delivered[r] = None
    BY <2>1 DEF Forward, At, ClearedInv, Cleared, Ran
  <2>3. QED
    BY <2>1, <2>2 DEF OthersUntouched
<1>3. ASSUME NEW r \in Requests, EndingStep(r) PROVE UNCHANGED delivered
  BY <1>3, EndingTouches
<1>4. ASSUME NEW c \in Conns, Connect(c) \/ LoseAck(c) \/ Disconnect(c)
      PROVE  UNCHANGED delivered
  BY <1>4 DEF Connect, LoseAck, Register, Disconnect, history
<1>5. ASSUME NEW c, NEW r \in Requests,
             Arrive(r) \/ Answer(c, r) \/ ServerAnswers(c, r) \/ Progress(c, r)
      PROVE  UNCHANGED delivered
  BY <1>5 DEF Arrive, Answer, ServerAnswers, EndRelay, Progress, history
<1>6. ASSUME NEW c \in Guests, FailCalls(c) \/ RelayProgress(c) PROVE UNCHANGED delivered
  BY <1>6 DEF FailCalls, RelayProgress, history
<1>7. QED
  BY <1>1, <1>2, <1>3, <1>4, <1>5, <1>6 DEF Next, PeerStep, vars

\* Only a forward enters a call id.
LEMMA CallsTouched ==
    ASSUME TypeInv, [Next]_vars, NEW i \in CallIds
    PROVE  \/ calls'[i] \in {None, calls[i]}
           \/ \E r \in Requests : Forward(r) /\ i = CallId(r)
<1>1. CASE UNCHANGED calls
  BY <1>1
<1>2. ASSUME NEW r \in Requests, RequestStep(r), ~UNCHANGED calls
      PROVE  Forward(r) /\ (i # CallId(r) => calls'[i] = calls[i])
  BY <1>2, RequestTouches DEF Forward, TypeInv, TypeOK, TablesOK
<1>3. ASSUME NEW r \in Requests, EndingStep(r) PROVE calls'[i] \in {None, calls[i]}
  BY <1>3 DEF EndingStep, Deadline, EndRelay, Retire, Finish, tables, TypeInv, TypeOK,
     TablesOK
<1>4. ASSUME NEW c \in Conns, Connect(c) \/ LoseAck(c) \/ Disconnect(c)
      PROVE  calls'[i] \in {None, calls[i]}
  BY <1>4 DEF Connect, LoseAck, Register, Disconnect, CallsWithout
<1>5. ASSUME NEW c, NEW r \in Requests,
             Arrive(r) \/ Answer(c, r) \/ ServerAnswers(c, r) \/ Progress(c, r)
      PROVE  UNCHANGED calls
  BY <1>5 DEF Arrive, Answer, ServerAnswers, EndRelay, Progress, tables
<1>6. ASSUME NEW c \in Guests, FailCalls(c) \/ RelayProgress(c) PROVE UNCHANGED calls
  BY <1>6 DEF FailCalls, RelayProgress, tables
<1>7. QED
  BY <1>1, <1>2, <1>3, <1>4, <1>5, <1>6 DEF Next, PeerStep, vars

\* Call q, of that id and caller, went to guest g.
Runs(q, id, caller, g) == CallId(q) = id /\ From(q) = caller /\ delivered[q] = g

\* The table of calls in flight names connections the hub has met, and while the
\* connection it names for an id is there, that is where such a call went.
RunnersKnown ==
    \A i \in CallIds :
        calls[i] # None =>
            /\ conns[calls[i].server] # "new"
            /\ conns[calls[i].server] = "up" =>
                  \E q \in ToolCalls : Runs(q, i, calls[i].origin, calls[i].server)

DeliveredToTheMet == \A r \in Requests : delivered[r] # None => conns[delivered[r]] # "new"

LEMMA NextRunners ==
    ASSUME TypeInv, ClearedInv, SentInv, RunnersKnown, [Next]_vars
    PROVE  RunnersKnown'
<1> SUFFICES ASSUME NEW i \in CallIds, calls'[i] # None
             PROVE  /\ conns'[calls'[i].server] # "new"
                    /\ conns'[calls'[i].server] = "up" =>
                          \E q \in ToolCalls : /\ CallId(q) = i
                                              /\ From(q) = calls'[i].origin
                                              /\ delivered'[q] = calls'[i].server
  BY DEF RunnersKnown, Runs
<1>1. OnlyAge
  BY NextOnlyAge
<1>2. CASE calls'[i] = calls[i]
  <2>1. calls[i] # None /\ calls[i].server \in Guests
    BY <1>2 DEF TypeInv, TypeOK, TablesOK, InFlight
  <2>2. conns'[calls[i].server] # "new"
    BY <1>1, <2>1 DEF RunnersKnown, OnlyAge, Conns
  <2>3. ASSUME conns'[calls[i].server] = "up"
        PROVE  \E q \in ToolCalls : /\ CallId(q) = i
                                    /\ From(q) = calls'[i].origin
                                    /\ delivered'[q] = calls'[i].server
    <3>1. conns[calls[i].server] = "up"
      BY <1>1, <2>1, <2>3 DEF RunnersKnown, OnlyAge, Conns
    <3>2. PICK q \in ToolCalls : Runs(q, i, calls[i].origin, calls[i].server)
      BY <2>1, <3>1 DEF RunnersKnown
    <3>3. delivered'[q] = delivered[q]
      BY <2>1, <3>2, DeliveredStands, ConnsAssumption DEF Runs, ToolCalls, Conns
    <3>4. calls'[i].origin = calls[i].origin /\ calls'[i].server = calls[i].server
      BY <1>2
    <3>5. CallId(q) = i /\ From(q) = calls'[i].origin /\ delivered'[q] = calls'[i].server
      BY <3>2, <3>3, <3>4 DEF Runs
    <3>6. QED
      BY <3>2, <3>5
  <2>4. QED
    BY <1>2, <2>2, <2>3
<1>3. ASSUME NEW r \in Requests, Forward(r), i = CallId(r)
      PROVE  /\ conns'[calls'[i].server] # "new"
             /\ conns'[calls'[i].server] = "up" =>
                   \E q \in ToolCalls : /\ CallId(q) = i
                                       /\ From(q) = calls'[i].origin
                                       /\ delivered'[q] = calls'[i].server
  <2>1. /\ calls'[i].origin = From(r) /\ calls'[i].server = task[r].target
        /\ UNCHANGED conns
        /\ conns[task[r].target] = "up" => delivered'[r] = task[r].target
    BY <1>3 DEF Forward, TypeInv, TypeOK, TablesOK, HistoryOK
  <2>2. conns[task[r].target] # "new"
    BY <1>3 DEF SentInv, Sent, Forward, At
  <2>3. r \in ToolCalls
    BY <1>3 DEF Forward, At, TypeInv, TasksFit, Fits, CallSections, ToolCalls
  <2>4. QED
    BY <1>3, <2>1, <2>2, <2>3
<1>4. QED
  BY <1>2, <1>3, CallsTouched

LEMMA NextMet ==
    ASSUME TypeInv, ClearedInv, DeliveredToTheMet, [Next]_vars
    PROVE  DeliveredToTheMet'
<1> SUFFICES ASSUME NEW q \in Requests, delivered'[q] # None
             PROVE  conns'[delivered'[q]] # "new"
  BY DEF DeliveredToTheMet
<1>1. CASE delivered'[q] = delivered[q]
  <2>1. delivered[q] \in Conns /\ conns[delivered[q]] # "new"
    BY <1>1 DEF DeliveredToTheMet, TypeInv, TypeOK, HistoryOK, Conns
  <2>2. QED
    BY <1>1, <2>1, NextOnlyAge DEF OnlyAge
<1>2. CASE Forward(q) /\ delivered'[q] # delivered[q]
  BY <1>2 DEF Forward, TypeInv, TypeOK, HistoryOK
<1>3. QED
  BY <1>1, <1>2, DeliveredStands

\* Only the deadline has ended the call, or nothing has.
NothingButADeadline(r) ==
    /\ answers[r] \in {<<>>, <<"deadline">>}
    /\ ending[r] # None => ending[r].how = "deadline"

\* A guest that may still report on a call has not ended it.
Unheard(r) ==
    r \notin quiet /\ delivered[r] # None /\ conns[delivered[r]] = "up"
        => NothingButADeadline(r)

\* A guest whose report is being relayed is there, has not ended the call it
\* reports on, and whoever is told made a call of that id that went to it.
ReadingOfItsOwn(g) ==
    reading[g] # None =>
        /\ conns[g] = "up"
        /\ delivered[reading[g].req] = g
        /\ NothingButADeadline(reading[g].req)
        /\ \E q \in ToolCalls : Runs(q, CallId(reading[g].req), reading[g].to, g)

\* What was heard is about calls that were delivered.
HeardOfTheDelivered == \A f \in heard : delivered[f.req] # None

ProgressInv ==
    /\ RunnersKnown
    /\ DeliveredToTheMet
    /\ \A r \in Requests : Unheard(r)
    /\ \A g \in Guests : ReadingOfItsOwn(g)
    /\ HeardOfTheDelivered
    /\ ProgressIsOfOnesOwn

\* What can end a call that was delivered, besides its deadline.
LEMMA EndedBySomebody ==
    ASSUME TypeInv, OnceInv, ClearedInv, [Next]_vars,
           NEW q \in Requests, delivered[q] # None, NothingButADeadline(q)
    PROVE  \/ NothingButADeadline(q)'
           \/ \E c \in Guests : ServerAnswers(c, q)
           \/ \E c \in Guests : FailCalls(c) /\ relays[q] = c
<1>1. CASE answers'[q] = answers[q] /\ ending'[q] = ending[q]
  BY <1>1 DEF NothingButADeadline
<1>2. ASSUME NEW r \in Requests, RequestStep(r)
      PROVE  answers'[q] = answers[q] /\ ending'[q] = ending[q]
  <2>1. r # q
    BY <1>2, RequestTouches DEF ClearedInv, Cleared, Ran, At
  <2>2. QED
    BY <1>2, <2>1, RequestTouches DEF OthersUntouched
<1>3. ASSUME NEW r \in Requests \ {q}, EndingStep(r)
      PROVE  answers'[q] = answers[q] /\ ending'[q] = ending[q]
  BY <1>3, EndingTouches
<1>4. CASE EndingStep(q)
  <2>1. CASE Deadline(q)
    <3>1. ending'[q] = [how |-> "deadline", by |-> None, retired |-> FALSE]
          /\ answers'[q] = answers[q]
      BY <2>1 DEF Deadline, EndRelay, TypeInv, TypeOK, TasksOK
    <3>2. QED
      BY <3>1 DEF NothingButADeadline
  <2>2. CASE Retire(q)
    <3>1. ending[q] \in Ending /\ ending'[q] = [ending[q] EXCEPT !.retired = TRUE]
          /\ answers'[q] = answers[q] /\ ending[q].how = "deadline"
      BY <2>2 DEF Retire, NothingButADeadline, TypeInv, TypeOK, TasksOK
    <3>2. ending'[q].how = "deadline"
      BY <3>1 DEF Ending
    <3>3. QED
      BY <3>1, <3>2 DEF NothingButADeadline
  <2>3. CASE Finish(q)
    <3>1. ending[q].how = "deadline" /\ answers[q] = <<>>
      BY <2>3 DEF Finish, NothingButADeadline, OnceInv, OnePhase
    <3>2. ending'[q] = None /\ answers'[q] \in {<<>>, <<"deadline">>}
      BY <2>3, <3>1 DEF Finish, Answered, TypeInv, TypeOK, TasksOK, HistoryOK
    <3>3. QED
      BY <3>2 DEF NothingButADeadline
  <2>4. QED
    BY <1>4, <2>1, <2>2, <2>3 DEF EndingStep
<1>5. ASSUME NEW c \in Conns, Connect(c) \/ LoseAck(c) \/ Disconnect(c)
      PROVE  UNCHANGED <<answers, ending>>
  BY <1>5 DEF Connect, LoseAck, Register, Disconnect, tasks, history
<1>6. ASSUME NEW c, NEW r \in Requests, Arrive(r) \/ Answer(c, r) \/ Progress(c, r)
      PROVE  UNCHANGED <<answers, ending>>
  BY <1>6 DEF Arrive, Answer, Progress, history
<1>7. ASSUME NEW c \in Guests, NEW r \in Requests \ {q}, ServerAnswers(c, r)
      PROVE  answers'[q] = answers[q] /\ ending'[q] = ending[q]
  BY <1>7 DEF ServerAnswers, EndRelay, TypeInv, TypeOK, TasksOK
<1>8. ASSUME NEW c \in Guests, FailCalls(c), relays[q] # c
      PROVE  answers'[q] = answers[q] /\ ending'[q] = ending[q]
  BY <1>8 DEF FailCalls, history
<1>9. ASSUME NEW c \in Guests, RelayProgress(c) PROVE UNCHANGED <<answers, ending>>
  BY <1>9 DEF RelayProgress
<1>10. QED
  BY <1>1, <1>2, <1>3, <1>4, <1>5, <1>6, <1>7, <1>8, <1>9 DEF Next, PeerStep, vars

\* Reports are over when a call is ended by its guest.
LEMMA NextUnheard ==
    ASSUME TypeInv, OnceInv, ClearedInv, CrashInv, DeliveredToTheMet, [Next]_vars,
           NEW q \in Requests, Unheard(q)
    PROVE  Unheard(q)'
<1> SUFFICES ASSUME q \notin quiet', delivered'[q] # None, conns'[delivered'[q]] = "up"
             PROVE  NothingButADeadline(q)'
  BY DEF Unheard
<1>1. CASE delivered'[q] # delivered[q]
  <2>1. Forward(q)
    BY <1>1, DeliveredStands
  <2>2. answers[q] = <<>> /\ ending[q] = None
    BY <2>1 DEF Forward, At, OnceInv, OnePhase
  <2>3. QED
    BY <2>1, <2>2 DEF Forward, NothingButADeadline
<1>2. CASE delivered'[q] = delivered[q]
  <2>1. delivered[q] # None /\ delivered[q] \in Guests
    BY <1>2 DEF TypeInv, TypeOK, HistoryOK
  <2>2. conns[delivered[q]] = "up"
    BY <1>2, <2>1, NextOnlyAge DEF OnlyAge, DeliveredToTheMet, Conns
  <2>3. q \notin quiet
    <3>1. q \in quiet => q \in quiet'
      <4>1. ASSUME NEW r \in Requests, RequestStep(r) \/ EndingStep(r)
            PROVE  UNCHANGED quiet
        BY <4>1, RequestTouches, EndingTouches
      <4>2. ASSUME NEW c \in Conns, Connect(c) \/ LoseAck(c) \/ Disconnect(c)
            PROVE  UNCHANGED quiet
        BY <4>2 DEF Connect, LoseAck, Register, Disconnect, history
      <4>3. ASSUME NEW c, NEW r, Arrive(r) \/ Answer(c, r) PROVE UNCHANGED quiet
        BY <4>3 DEF Arrive, Answer, history
      <4>4. ASSUME NEW c, NEW r, ServerAnswers(c, r) \/ Progress(c, r)
            PROVE  quiet' = quiet \cup {r}
        BY <4>4 DEF ServerAnswers, Progress
      <4>5. ASSUME NEW c, FailCalls(c) \/ RelayProgress(c) PROVE UNCHANGED quiet
        BY <4>5 DEF FailCalls, RelayProgress, history
      <4>6. QED
        BY <4>1, <4>2, <4>3, <4>4, <4>5 DEF Next, PeerStep, vars
    <3>2. QED
      BY <3>1
  <2>4. NothingButADeadline(q)
    BY <2>1, <2>2, <2>3 DEF Unheard
  <2>5. ASSUME NEW c \in Guests, ServerAnswers(c, q) PROVE FALSE
    BY <2>5 DEF ServerAnswers
  <2>6. ASSUME NEW c \in Guests, FailCalls(c), relays[q] = c PROVE FALSE
    <3>1. relays[q] = delivered[q]
      BY <2>1, <2>6, ConnsAssumption DEF CrashInv, StaysWithItsGuest, Conns
    <3>2. conns[c] = "leaving"
      BY <2>6 DEF FailCalls
    <3>3. QED
      BY <2>2, <2>6, <3>1, <3>2
  <2>7. QED
    BY <2>1, <2>4, <2>5, <2>6, EndedBySomebody
<1>3. QED
  BY <1>1, <1>2

\* A guest's reader relays one report at a time: while it does, it is there, and
\* it neither leaves nor answers.
LEMMA ReadingUndisturbed ==
    ASSUME TypeInv, [Next]_vars, NEW g \in Guests, reading[g] # None, conns[g] = "up"
    PROVE  \/ RelayProgress(g) /\ reading'[g] = None
           \/ /\ reading'[g] = reading[g] /\ conns'[g] = "up"
              /\ \A q \in Requests : ~ServerAnswers(g, q)
              /\ ~FailCalls(g)
<1> DEFINE Undisturbed == reading'[g] = reading[g] /\ conns'[g] = "up"
<1>1. ~Idle(g)
  BY DEF Idle
<1>2. (\A q \in Requests : ~ServerAnswers(g, q)) /\ ~FailCalls(g)
  BY <1>1 DEF ServerAnswers, FailCalls
<1>3. ASSUME NEW r \in Requests, RequestStep(r) \/ EndingStep(r) PROVE Undisturbed
  BY <1>3, RequestTouches, EndingTouches
<1>4. ASSUME NEW c \in Conns, Connect(c) \/ LoseAck(c) \/ Disconnect(c) PROVE Undisturbed
  <2>1. c # g
    BY <1>1, <1>4 DEF Connect, LoseAck, Register, Disconnect
  <2>2. QED
    BY <1>4, <2>1 DEF Connect, LoseAck, Register, Disconnect, tasks, Conns, TypeInv,
       TypeOK, TablesOK
<1>5. ASSUME NEW c \in Conns, NEW r \in Requests, Arrive(r) \/ Answer(c, r)
      PROVE  Undisturbed
  BY <1>5 DEF Arrive, Answer, tables
<1>6. ASSUME NEW c \in Guests, NEW r \in Requests, ServerAnswers(c, r)
      PROVE  Undisturbed
  BY <1>6 DEF ServerAnswers, EndRelay
<1>7. ASSUME NEW c \in Guests, NEW r \in Requests, Progress(c, r) PROVE Undisturbed
  <2>1. c # g
    BY <1>1, <1>7 DEF Progress
  <2>2. QED
    BY <1>7, <2>1 DEF Progress, tables, TypeInv, TypeOK, TasksOK
<1>8. ASSUME NEW c \in Guests, FailCalls(c) PROVE Undisturbed
  BY <1>2, <1>8 DEF FailCalls, Conns, TypeInv, TypeOK, TablesOK
<1>9. ASSUME NEW c \in Guests, RelayProgress(c)
      PROVE  Undisturbed \/ (RelayProgress(g) /\ reading'[g] = None)
  BY <1>9 DEF RelayProgress, tables, TypeInv, TypeOK, TasksOK
<1>10. CASE UNCHANGED vars
  BY <1>2, <1>10 DEF vars
<1>11. ASSUME NEW r \in Requests, Arrive(r) PROVE Undisturbed
  BY <1>11 DEF Arrive, tables
<1>12. QED
  BY <1>2, <1>3, <1>4, <1>5, <1>6, <1>7, <1>8, <1>9, <1>10, <1>11 DEF Next, PeerStep

\* Only a report starts to be relayed.
LEMMA ReadingStarts ==
    ASSUME TypeInv, [Next]_vars, NEW g \in Guests, reading[g] = None, reading'[g] # None
    PROVE  \E r \in Requests : Progress(g, r)
<1>1. ASSUME NEW r \in Requests, RequestStep(r) \/ EndingStep(r) PROVE UNCHANGED reading
  BY <1>1, RequestTouches, EndingTouches
<1>2. ASSUME NEW c \in Conns, Connect(c) \/ LoseAck(c) \/ Disconnect(c)
      PROVE  UNCHANGED reading
  BY <1>2 DEF Connect, LoseAck, Register, Disconnect, tasks
<1>3. ASSUME NEW c, NEW r, Arrive(r) \/ Answer(c, r) \/ ServerAnswers(c, r)
      PROVE  UNCHANGED reading
  BY <1>3 DEF Arrive, Answer, ServerAnswers, EndRelay
<1>4. ASSUME NEW c \in Guests, NEW r \in Requests, Progress(c, r)
      PROVE  c # g => reading'[g] = reading[g]
  BY <1>4 DEF Progress, TypeInv, TypeOK, TasksOK
<1>5. ASSUME NEW c \in Guests, FailCalls(c) \/ RelayProgress(c)
      PROVE  reading'[g] \in {None, reading[g]}
  BY <1>5 DEF FailCalls, RelayProgress, TypeInv, TypeOK, TasksOK
<1>6. QED
  BY <1>1, <1>2, <1>3, <1>4, <1>5 DEF Next, PeerStep, vars

LEMMA NextReading ==
    ASSUME TypeInv, OnceInv, ClearedInv, CrashInv, ProgressInv, [Next]_vars,
           NEW g \in Guests
    PROVE  ReadingOfItsOwn(g)'
<1> SUFFICES ASSUME reading'[g] # None
             PROVE  /\ conns'[g] = "up"
                    /\ delivered'[reading'[g].req] = g
                    /\ answers'[reading'[g].req] \in {<<>>, <<"deadline">>}
                    /\ ending'[reading'[g].req] # None
                         => ending'[reading'[g].req].how = "deadline"
                    /\ \E q \in ToolCalls : /\ CallId(q) = CallId(reading'[g].req)
                                            /\ From(q) = reading'[g].to
                                            /\ delivered'[q] = g
  BY DEF ReadingOfItsOwn, NothingButADeadline, Runs
<1>0. g # None
  BY ConnsAssumption DEF Conns
<1>1. CASE reading[g] # None
  <2>0. PICK r \in Requests : r = reading[g].req
    BY <1>1 DEF TypeInv, TypeOK, TasksOK
  <2>1. /\ conns[g] = "up" /\ delivered[r] = g /\ NothingButADeadline(r)
    BY <1>1, <2>0 DEF ProgressInv, ReadingOfItsOwn
  <2>2. PICK q \in ToolCalls : Runs(q, CallId(r), reading[g].to, g)
    BY <1>1, <2>0 DEF ProgressInv, ReadingOfItsOwn
  <2>3. /\ reading'[g] = reading[g] /\ conns'[g] = "up"
        /\ \A p \in Requests : ~ServerAnswers(g, p)
        /\ ~FailCalls(g)
    BY <1>1, <2>1, ReadingUndisturbed
  <2>4. delivered'[r] = g /\ delivered'[q] = g
    BY <1>0, <2>1, <2>2, DeliveredStands DEF Runs, ToolCalls
  <2>5. relays[r] \in {None, g}
    BY <1>0, <2>1 DEF CrashInv, StaysWithItsGuest
  <2>6. ASSUME NEW c \in Guests, ServerAnswers(c, r) PROVE FALSE
    BY <2>1, <2>3, <2>5, <2>6 DEF ServerAnswers, MayEnd
  <2>7. ASSUME NEW c \in Guests, FailCalls(c), relays[r] = c PROVE FALSE
    BY <2>3, <2>5, <2>7, ConnsAssumption DEF Conns
  <2>8. NothingButADeadline(r)'
    BY <1>0, <2>1, <2>6, <2>7, EndedBySomebody
  <2>9. /\ answers'[r] \in {<<>>, <<"deadline">>}
        /\ ending'[r] # None => ending'[r].how = "deadline"
    BY <2>8 DEF NothingButADeadline
  <2>10. CallId(q) = CallId(r) /\ From(q) = reading[g].to
    BY <2>2 DEF Runs
  <2>11. QED
    BY <2>0, <2>3, <2>4, <2>9, <2>10
<1>2. CASE reading[g] = None
  <2>1. PICK r \in Requests : Progress(g, r)
    BY <1>2, ReadingStarts
  <2>2. /\ conns[g] = "up" /\ delivered[r] = g /\ r \notin quiet
        /\ UNCHANGED <<conns, delivered, answers, ending>>
        /\ reading'[g] = [req |-> r, to |-> ProgressTo(g, r)]
    BY <2>1 DEF Progress, tables, TypeInv, TypeOK, TasksOK
  <2>3. /\ calls[CallId(r)] # None /\ calls[CallId(r)].server = g
        /\ ProgressTo(g, r) = calls[CallId(r)].origin
    BY <2>1 DEF Progress, ProgressTo, TypeInv, TypeOK, TasksOK
  <2>4. CallId(r) \in CallIds
    BY <1>0, <2>2, RequestsAssumption DEF TypeInv, OnlyCallsGo, Op, CallId
  <2>5. PICK q \in ToolCalls : Runs(q, CallId(r), calls[CallId(r)].origin, g)
    BY <2>2, <2>3, <2>4 DEF ProgressInv, RunnersKnown
  <2>6. NothingButADeadline(r)
    BY <1>0, <2>2 DEF ProgressInv, Unheard
  <2>7. reading'[g].req = r /\ reading'[g].to = calls[CallId(r)].origin
    BY <2>2, <2>3
  <2>8. /\ answers'[r] \in {<<>>, <<"deadline">>}
        /\ ending'[r] # None => ending'[r].how = "deadline"
    BY <2>2, <2>6 DEF NothingButADeadline
  <2>9. /\ CallId(q) = CallId(r) /\ From(q) = reading'[g].to /\ delivered'[q] = g
    BY <2>2, <2>5, <2>7 DEF Runs
  <2>10. QED
    BY <2>2, <2>7, <2>8, <2>9
<1>3. QED
  BY <1>1, <1>2

\* What a caller was told stands.
LEMMA AnswersStand ==
    ASSUME TypeInv, OnceInv, [Next]_vars, NEW q \in Requests, answers[q] # <<>>
    PROVE  answers'[q] = answers[q]
<1>1. At(q, "done") /\ ending[q] = None
  BY DEF OnceInv, OnePhase
<1>2. CASE UNCHANGED answers
  BY <1>2
<1>3. ASSUME NEW r \in Requests, RequestStep(r) PROVE answers'[q] = answers[q]
  BY <1>1, <1>3, RequestTouches DEF OthersUntouched
<1>4. ASSUME NEW r \in Requests, EndingStep(r) PROVE answers'[q] = answers[q]
  <2>1. CASE r = q
    BY <1>1, <1>4, <2>1 DEF EndingStep, Deadline, EndRelay, Retire, Finish
  <2>2. CASE r # q
    BY <1>4, <2>2, EndingTouches
  <2>3. QED
    BY <2>1, <2>2
<1>5. ASSUME NEW c \in Conns, Connect(c) \/ LoseAck(c) \/ Disconnect(c)
      PROVE  UNCHANGED answers
  BY <1>5 DEF Connect, LoseAck, Register, Disconnect, history
<1>6. ASSUME NEW c, NEW r,
             Arrive(r) \/ Answer(c, r) \/ ServerAnswers(c, r) \/ Progress(c, r)
      PROVE  UNCHANGED answers
  BY <1>6 DEF Arrive, Answer, ServerAnswers, EndRelay, Progress, history
<1>7. ASSUME NEW c, FailCalls(c) \/ RelayProgress(c) PROVE UNCHANGED answers
  BY <1>7 DEF FailCalls, RelayProgress, history
<1>8. QED
  BY <1>2, <1>3, <1>4, <1>5, <1>6, <1>7 DEF Next, PeerStep, vars

\* Only a reader relays a report.
LEMMA HeardFromReaders ==
    ASSUME TypeInv, [Next]_vars, NEW f \in heard', f \notin heard
    PROVE  \E g \in Guests :
              /\ RelayProgress(g)
              /\ f = [req |-> reading[g].req, to |-> reading[g].to,
                      late |-> answers[reading[g].req] # <<>>]
<1>1. ASSUME NEW r \in Requests, RequestStep(r) \/ EndingStep(r) PROVE UNCHANGED heard
  BY <1>1, RequestTouches, EndingTouches
<1>2. ASSUME NEW c \in Conns, Connect(c) \/ LoseAck(c) \/ Disconnect(c)
      PROVE  UNCHANGED heard
  BY <1>2 DEF Connect, LoseAck, Register, Disconnect, history
<1>3. ASSUME NEW c, NEW r,
             Arrive(r) \/ Answer(c, r) \/ ServerAnswers(c, r) \/ Progress(c, r)
      PROVE  UNCHANGED heard
  BY <1>3 DEF Arrive, Answer, ServerAnswers, EndRelay, Progress, history
<1>4. ASSUME NEW c, FailCalls(c) PROVE UNCHANGED heard
  BY <1>4 DEF FailCalls, history
<1>5. ASSUME NEW g \in Guests, RelayProgress(g)
      PROVE  f = [req |-> reading[g].req, to |-> reading[g].to,
                  late |-> answers[reading[g].req] # <<>>]
  BY <1>5 DEF RelayProgress
<1>6. QED
  BY <1>1, <1>2, <1>3, <1>4, <1>5 DEF Next, PeerStep, vars

LEMMA NextHeard ==
    ASSUME TypeInv, OnceInv, ClearedInv, ProgressInv, [Next]_vars
    PROVE  HeardOfTheDelivered' /\ ProgressIsOfOnesOwn'
<1> SUFFICES ASSUME NEW f \in heard'
             PROVE  /\ delivered'[f.req] # None
                    /\ f.late => answers'[f.req] = <<"deadline">>
                    /\ \E q \in ToolCalls : /\ From(q) = f.to
                                            /\ CallId(q) = CallId(f.req)
                                            /\ delivered'[q] = delivered'[f.req]
  BY DEF HeardOfTheDelivered, ProgressIsOfOnesOwn, ProgressComesFromTheRunner,
     LateOnlyAfterADeadline
<1>1. CASE f \in heard
  <2>1. f.req \in Requests /\ delivered[f.req] # None
    BY <1>1 DEF ProgressInv, HeardOfTheDelivered, TypeInv, TypeOK, HistoryOK, Frame
  <2>2. delivered'[f.req] = delivered[f.req]
    BY <2>1, DeliveredStands
  <2>3. f.late => answers[f.req] = <<"deadline">>
    BY <1>1 DEF ProgressInv, ProgressIsOfOnesOwn, LateOnlyAfterADeadline
  <2>4. ASSUME f.late PROVE answers'[f.req] = <<"deadline">>
    <3>1. answers[f.req] = <<"deadline">>
      BY <2>3, <2>4
    <3>2. <<"deadline">> # <<>>
      OBVIOUS
    <3>3. answers'[f.req] = answers[f.req]
      BY <2>1, <3>1, <3>2, AnswersStand
    <3>4. QED
      BY <3>1, <3>3
  <2>5. PICK q \in ToolCalls : /\ From(q) = f.to
                               /\ CallId(q) = CallId(f.req)
                               /\ delivered[q] = delivered[f.req]
    BY <1>1 DEF ProgressInv, ProgressIsOfOnesOwn, ProgressComesFromTheRunner
  <2>6. delivered'[q] = delivered'[f.req]
    BY <2>1, <2>2, <2>5, DeliveredStands DEF ToolCalls
  <2>7. QED
    BY <2>1, <2>2, <2>4, <2>5, <2>6
<1>2. CASE f \notin heard
  <2>1. PICK g \in Guests :
           /\ RelayProgress(g)
           /\ f = [req |-> reading[g].req, to |-> reading[g].to,
                   late |-> answers[reading[g].req] # <<>>]
    BY <1>2, HeardFromReaders
  <2> DEFINE r == reading[g].req
  <2>2. f.req = r /\ f.to = reading[g].to /\ (f.late => answers[r] # <<>>)
    BY <2>1
  <2>3. reading[g] # None /\ UNCHANGED <<answers, delivered>> /\ g # None
    BY <2>1, ConnsAssumption DEF RelayProgress, Conns
  <2>4. /\ delivered[r] = g /\ answers[r] \in {<<>>, <<"deadline">>}
        /\ \E q \in ToolCalls : Runs(q, CallId(r), reading[g].to, g)
    BY <2>3 DEF ProgressInv, ReadingOfItsOwn, NothingButADeadline
  <2>5. PICK q \in ToolCalls : CallId(q) = CallId(r) /\ From(q) = reading[g].to
                               /\ delivered[q] = g
    BY <2>4 DEF Runs
  <2>6. delivered'[f.req] # None /\ (f.late => answers'[f.req] = <<"deadline">>)
    BY <2>2, <2>3, <2>4
  <2>7. From(q) = f.to /\ CallId(q) = CallId(f.req) /\ delivered'[q] = delivered'[f.req]
    BY <2>2, <2>3, <2>4, <2>5
  <2>8. QED
    BY <2>6, <2>7
<1>3. QED
  BY <1>1, <1>2

\* A caller hears only of a call of its own id that went where its own went, and
\* hears of a call after its answer only when that answer was the deadline's.
THEOREM ProgressReachesItsOwn == Spec => []ProgressIsOfOnesOwn
<1> DEFINE I == /\ TypeInv /\ OnceInv /\ ClearedInv /\ SentInv /\ CrashInv
                /\ ProgressInv
<1>1. Init => I
  <2> SUFFICES ASSUME Init PROVE I
    OBVIOUS
  <2>1. TypeInv
    BY InitTypeInv
  <2>2. OnceInv /\ ClearedInv
    BY DEF Init, Unused, OnceInv, OnePhase, ClearedInv, Cleared, Ran, NewTask
  <2>3. SentInv /\ CrashInv
    BY DEF Init, Unused, SentInv, Sent, Registered, CrashInv, StaysWithItsGuest, NewTask
  <2>4. RunnersKnown /\ DeliveredToTheMet /\ HeardOfTheDelivered /\ ProgressIsOfOnesOwn
    BY DEF Init, Unused, RunnersKnown, DeliveredToTheMet, HeardOfTheDelivered,
       ProgressIsOfOnesOwn, ProgressComesFromTheRunner, LateOnlyAfterADeadline
  <2>5. (\A r \in Requests : Unheard(r)) /\ (\A g \in Guests : ReadingOfItsOwn(g))
    BY DEF Init, Unused, Unheard, ReadingOfItsOwn
  <2>6. QED
    BY <2>1, <2>2, <2>3, <2>4, <2>5 DEF ProgressInv
<1>2. I /\ [Next]_vars => I'
  <2> SUFFICES ASSUME I, [Next]_vars PROVE I'
    OBVIOUS
  <2>1. TypeInv' /\ OnceInv' /\ ClearedInv' /\ SentInv' /\ CrashInv'
    BY NextTypeInv, NextOnce, NextCleared, NextSent, NextCrash
  <2>2. RunnersKnown' /\ DeliveredToTheMet'
    BY NextRunners, NextMet DEF ProgressInv
  <2>3. \A r \in Requests : Unheard(r)'
    BY NextUnheard DEF ProgressInv
  <2>4. \A g \in Guests : ReadingOfItsOwn(g)'
    BY NextReading
  <2>5. HeardOfTheDelivered' /\ ProgressIsOfOnesOwn'
    BY NextHeard
  <2>6. QED
    BY <2>1, <2>2, <2>3, <2>4, <2>5 DEF ProgressInv
<1>3. I => ProgressIsOfOnesOwn
  BY DEF ProgressInv
<1>4. QED
  BY <1>1, <1>2, <1>3, PTL DEF Spec
=============================================================================
