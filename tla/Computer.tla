------------------------------ MODULE Computer -------------------------------
(***************************************************************************)
(* Starting a computer, finding it and being let in: `botroster up` (up.rs),        *)
(* `botrosterd` (main.rs), the commands that use a computer or start one of their   *)
(* own (hub_or_start), the window, which asks, starts one and owns what it started  *)
(* (botroster-desktop/hub.rs, botroster-app), and the token in the home by which    *)
(* a hub knows its clients (botroster-proto).  Each is a process of the machine.    *)
(* A token is named for the process that minted it.                                 *)
(***************************************************************************)
EXTENDS Viewer, Sequences, SequencesExt

CONSTANTS
    Procs,      \* the processes
    Job,        \* Job[p]: [kind, home, workspace, port, env, parent, timer]
    Mixes,      \* what is started: [procs, requests, fragile, talks, broken, budget]
    None,       \* no token, no parent, no workspace
    Anyone      \* what a hub without a token admits

\* A tick is the child of an `up`, a viewer that of a window, and a window starts one `up`, on its own
\* home and on a volume.  A free port is nobody's address.
ASSUME ComputerAssumption ==
    /\ None \notin Procs /\ Anyone \notin Procs /\ None # Anyone
    /\ \A p \in Procs :
         /\ Job[p].kind \in {"up", "daemon", "run", "client", "tick", "watch", "window"}
         /\ Job[p].env \in Procs \cup {None} /\ Job[p].parent \in Procs \cup {None}
         /\ Job[p].port \notin Procs \cup {None}
    /\ "127.0.0.1:8443" \notin Procs \cup {None}
    /\ \A m \in Mixes :
         /\ m.procs \subseteq Procs /\ m.requests \subseteq Requests
         /\ m.budget \in [DOMAIN m.budget -> Nat]
         /\ \A p \in m.procs :
              /\ Job[p].kind \in {"tick", "watch"} => Job[p].parent # None
              /\ Job[p].parent # None =>
                    /\ Job[p].parent \in m.procs
                    /\ Job[p].kind \in {"tick", "watch", "up"}
                    /\ Job[Job[p].parent].kind = (IF Job[p].kind = "tick" THEN "up" ELSE "window")
              /\ Job[p].kind = "window" =>
                    \E c \in m.procs :
                       /\ Job[c].kind = "up" /\ Job[c].parent = p
                       /\ Job[c].home = Job[p].home /\ Job[c].workspace = None
                       /\ \A d \in m.procs : Job[d].kind = "up" /\ Job[d].parent = p => d = c

VARIABLES
    mix,        \* the mix of this behaviour
    budget,     \* mishaps left
    file,       \* file[h]: the token in home h, or None
    proc,       \* every process
    refused,    \* refusals: [by, hub, changed]
    outdated    \* hubs whose home another start has written its token into

vars == <<viewVars, mix, budget, file, proc, refused, outdated>>

Kinds == {"up", "daemon", "run", "client", "tick", "watch", "window"}
Homes == {Job[p].home : p \in Procs}
Ports == {Job[p].port : p \in Procs} \cup Procs \cup {"127.0.0.1:8443"}

\* A process that does not run: nothing of it is left.
Idle == [pc |-> "idle", ours |-> None, token |-> None, found |-> "nothing", bound |-> None, admits |-> None,
         serves |-> FALSE, holds |-> FALSE, guest |-> FALSE, told |-> "nothing", owns |-> FALSE, turned |-> FALSE]

\* The processes of this behaviour.
Here == mix.procs

Init ==
    /\ ViewInit
    /\ mix \in Mixes
    /\ budget = mix.budget
    /\ file = [h \in Homes |-> None]
    /\ proc = [p \in Here |-> Idle]
    /\ refused = {} /\ outdated = {}

Set(p, rec) == proc' = [proc EXCEPT ![p] = rec]
Spend(what) ==
    /\ what \in DOMAIN budget /\ budget[what] > 0
    /\ budget' = [budget EXCEPT ![what] = @ - 1]
Unspent == UNCHANGED budget

\* It exits: the lock, the port and the guest go with the process.
Ended(p, told) == [Idle EXCEPT !.pc = "ended", !.told = told, !.found = proc[p].found]
Runs(p)        == proc[p].pc \notin {"idle", "ended"}
-----------------------------------------------------------------------------
(* Tokens: botroster-proto, and the window's own lookup.                       *)

\* What a process was told in its environment: a tick by the hub that spawned it, the rest by a shell.
Env(p) == IF Job[p].kind = "tick" THEN proc[Job[p].parent].ours ELSE Job[p].env

\* The hub this process started, else the environment, else the file in the home.
HubToken(p) ==
    IF proc[p].ours # None THEN proc[p].ours
    ELSE IF Env(p) # None THEN Env(p)
    ELSE file[Job[p].home]

\* What the window gives the children that have no home argument: the file, else what it inherited.
TokenAt(p) == IF file[Job[p].home] # None THEN file[Job[p].home] ELSE Job[p].env

\* The agent is given no token: it looks for one at each turn.  A viewer and an ask are handed one.
Lookup(p, pc) == IF Job[p].kind \in {"window", "watch"} /\ pc # "turn" THEN TokenAt(p) ELSE HubToken(p)

-----------------------------------------------------------------------------
(* A hub is asked.                                                            *)

\* The host and port of the URL, or the usual ones.
BindOf(port) == IF port = "bare" THEN "127.0.0.1:8443" ELSE port

\* A run's own computer is on a free port; a window's child on the port the window's URL names.
Address(p) ==
    IF Job[p].kind = "run" THEN p
    ELSE IF Job[p].parent # None THEN BindOf(Job[Job[p].parent].port) ELSE Job[p].port

\* Where a process looks: its own computer if it started one, its parent's if it is a child.
Target(p) == IF proc[p].bound # None THEN proc[p].bound
             ELSE IF Job[p].kind = "tick" THEN Address(Job[p].parent) ELSE Job[p].port

At(a)          == {q \in Here : proc[q].bound = a}
Admits(q, tok) == proc[q].admits = Anyone \/ proc[q].admits = tok

\* What an ask comes to.  A probe ends with the handshake; the others also bind the guest's server.
\* A port that is bound but not served yet keeps the caller waiting.
Answers(p, probe) ==
    IF At(Target(p)) = {} THEN {"unreachable"}
    ELSE {IF ~Admits(q, proc[p].token) THEN "refused" ELSE IF probe \/ proc[q].guest THEN "ok" ELSE "unready"
            : q \in {q \in At(Target(p)) : proc[q].serves}}

\* An ask under way gets its answer, or, when the machine is slow, gives up waiting for one.
Asked(p, probe, answer) ==
    \/ /\ answer \in Answers(p, probe) /\ Unspent
       /\ refused' = IF answer # "refused" THEN refused
                     ELSE refused \cup {[by |-> p, hub |-> q, changed |-> proc[p].token # Lookup(p, proc[p].pc)] : q \in At(Target(p))}
    \/ answer = "slow" /\ At(Target(p)) # {} /\ Spend("slow") /\ UNCHANGED refused

Asking(p, pc) == [proc[p] EXCEPT !.pc = pc, !.token = Lookup(p, pc)]

-----------------------------------------------------------------------------
(* A computer is started: Up::start, and botrosterd's main.                   *)

\* The port is bound before the token is written.
BindFirst(p) == IF Job[p].kind = "daemon" THEN <<"bind", "admission">>
                ELSE <<"check", "boot", "bind", "token", "hold", "guest", "ready">>

\* Ready as soon as it listens.
Prompt(p) == IF Job[p].kind = "daemon" THEN <<"bind", "admission">> ELSE <<"check", "token", "boot", "hold", "bind">>

Order(p) == IF Job[p].kind = "daemon" THEN <<"bind", "admission">>
            ELSE <<"check", "token", "boot", "bind", "hold", "guest", "ready">>

Begun(p)   == [proc[p] EXCEPT !.pc = Order(p)[1]]
\* The step after this one; a stack that is complete serves, and a run goes on to use its own.
Onwards(p, rec) ==
    LET order == Order(p)
        here  == CHOOSE i \in DOMAIN order : order[i] = proc[p].pc
    IN IF here < Len(order) THEN [rec EXCEPT !.pc = order[here + 1]]
       ELSE IF Job[p].kind = "run" THEN [rec EXCEPT !.pc = "connect", !.token = HubToken(p)]
       ELSE [rec EXCEPT !.pc = "up"]

Advance(p, may, rec) == Set(p, IF may THEN Onwards(p, rec) ELSE Ended(p, "failed"))

\* The home may not be the workspace, nor be under it.
Sound(p) == Job[p].workspace = None \/ ~IsPrefix(Job[p].workspace, Job[p].home)
Place(p) == IF Job[p].workspace = None THEN Append(Job[p].home, "volume") ELSE Job[p].workspace
\* Only volumes are locked.
VolumesOnly(p) == Job[p].workspace = None /\ \E q \in Here \ {p} : proc[q].holds /\ Place(q) = Place(p)

\* A volume, or a directory somebody named: both are locked.
Taken(p) == \E q \in Here \ {p} : proc[q].holds /\ Place(q) = Place(p)

Check(p) == proc[p].pc = "check" /\ Advance(p, Sound(p), proc[p]) /\ UNCHANGED <<file, outdated>>

\* A new token each time, over the one that is there: whatever hub runs on this home has another.
WriteToken(p) ==
    /\ proc[p].pc = "token"
    /\ file' = [file EXCEPT ![Job[p].home] = p]
    /\ outdated' = outdated \cup {q \in Here \ {p} : Job[q].home = Job[p].home
                                                    /\ (proc[q].ours # None \/ proc[q].admits # None)}
    /\ Set(p, Onwards(p, [proc[p] EXCEPT !.ours = p]))

Boot(p) ==
    /\ proc[p].pc = "boot"
    /\ Advance(p, Job[p].home \notin mix.broken, [proc[p] EXCEPT !.admits = p])
    /\ UNCHANGED <<file, outdated>>

Bind(p) ==
    /\ proc[p].pc = "bind"
    /\ Advance(p, At(Address(p)) = {}, [proc[p] EXCEPT !.bound = Address(p), !.serves = Job[p].kind # "daemon"])
    /\ UNCHANGED <<file, outdated>>

\* A daemon binds first, and admits whoever has the token its home holds by then.
Admission(p) ==
    /\ proc[p].pc = "admission"
    /\ Advance(p, Job[p].home \notin mix.broken,
               [proc[p] EXCEPT !.serves = TRUE,
                               !.admits = IF file[Job[p].home] = None THEN Anyone ELSE file[Job[p].home]])
    /\ UNCHANGED <<file, outdated>>

Hold(p) == proc[p].pc = "hold" /\ Advance(p, ~Taken(p), [proc[p] EXCEPT !.holds = TRUE]) /\ UNCHANGED <<file, outdated>>

\* The guest is handed the token of the hub it is started with.
Registers(p) ==
    /\ proc[p].pc = "guest"
    /\ Set(p, [Asking(p, "ready") EXCEPT !.guest = TRUE])
    /\ UNCHANGED <<file, outdated>>

\* Ready means the guest has registered; a machine too slow for that is a failed start.
Ready(p) ==
    /\ proc[p].pc = "ready"
    /\ \E answer \in {"ok", "refused", "slow"} : Asked(p, FALSE, answer) /\ Advance(p, answer = "ok", proc[p])

Starting(p) ==
    \/ /\ Check(p) \/ WriteToken(p) \/ Boot(p) \/ Bind(p) \/ Admission(p) \/ Hold(p) \/ Registers(p)
       /\ UNCHANGED <<budget, refused>>
    \/ Ready(p) /\ UNCHANGED <<file, outdated>>

-----------------------------------------------------------------------------
(* The commands.                                                              *)

Outcomes == {"ok", "refused", "unready", "unreachable", "slow"}

Opening(p) ==
    CASE Job[p].kind \in {"up", "daemon"} -> Begun(p)
      [] Job[p].kind = "run"             -> Asking(p, "probe")
      [] Job[p].kind = "window"          -> Asking(p, "reach")
      [] OTHER                           -> Asking(p, "connect")

\* A person types a command.
Start(p) ==
    /\ proc[p].pc = "idle" /\ Job[p].parent = None
    /\ Set(p, Opening(p))
    /\ UNCHANGED <<budget, file, refused, outdated>>

\* The timer of an `up` fires at once, whether or not its guest has registered.
Tick(p) ==
    /\ Job[p].kind = "tick" /\ proc[p].pc = "idle"
    /\ proc[Job[p].parent].pc \in {"hold", "guest", "ready", "up"}
    /\ Set(p, Opening(p))
    /\ UNCHANGED <<budget, file, refused, outdated>>

\* A refusal is a hub that is there; nothing, or nothing intelligible in time, is not.
StartsItsOwn(answer) == answer \in {"unreachable", "slow"}

Probe(p) ==
    /\ proc[p].pc = "probe"
    /\ \E answer \in Outcomes :
         /\ Asked(p, TRUE, answer)
         /\ Set(p, IF answer = "ok" THEN Asking(p, "connect")
                   ELSE IF StartsItsOwn(answer) THEN [Begun(p) EXCEPT !.found = answer]
                   ELSE Ended(p, answer))

Connect(p) ==
    /\ proc[p].pc = "connect"
    /\ \E answer \in Outcomes :
         /\ Asked(p, FALSE, answer)
         /\ Set(p, IF answer # "ok"              THEN Ended(p, answer)
                   ELSE IF Job[p].kind = "run"   THEN [proc[p] EXCEPT !.pc = "works"]
                   ELSE IF Job[p].kind = "watch" THEN [proc[p] EXCEPT !.pc = "watches"]
                   ELSE Ended(p, "done"))

\* The task is over; the computer it started, if it did, is stopped.
Works(p) == proc[p].pc = "works" /\ Set(p, Ended(p, "done")) /\ UNCHANGED <<budget, refused>>

\* Ctrl-C, or a signal.
Stop(p) ==
    /\ proc[p].pc = "up" /\ Job[p].parent = None
    /\ Set(p, Ended(p, "stopped"))
    /\ UNCHANGED <<budget, file, refused, outdated>>

\* Killed: the lock, the port and the guest go with it, and what it had started stays.
Crash(p) ==
    /\ Runs(p) /\ p \in mix.fragile /\ Spend("crash")
    /\ Set(p, Ended(p, "crashed"))
    /\ UNCHANGED <<file, refused, outdated>>
-----------------------------------------------------------------------------
(* The window.                                                                *)

Child(w)  == CHOOSE c \in Here : Job[c].parent = w /\ Job[c].kind = "up"
Family(w) == {c \in Here : Job[c].parent = w /\ proc[c].pc # "idle" /\ (Job[c].kind = "watch" \/ proc[w].owns)}
Told(w, told) == [proc[w] EXCEPT !.pc = "open", !.told = told]

\* Only where there is nothing is one started: a refusal is reported.
Reach(w) ==
    /\ proc[w].pc = "reach"
    /\ \E answer \in Outcomes :
         /\ Asked(w, FALSE, answer)
         /\ IF answer \in {"ok", "refused"} THEN Set(w, Told(w, IF answer = "ok" THEN "serving" ELSE "refused"))
            ELSE proc' = [proc EXCEPT ![w].pc = "poll", ![Child(w)] = Begun(Child(w))]

\* A child that has exited says why; one that has not is asked.
Poll(w) ==
    /\ proc[w].pc = "poll"
    /\ Set(w, IF ~Runs(Child(w)) THEN Told(w, "failed")
              ELSE [Asking(w, "polls") EXCEPT !.found = IF proc[Child(w)].pc = "up" THEN "complete" ELSE "starting"])
    /\ UNCHANGED <<budget, refused>>

\* It waits for ever.
NoDeadline(w, answer) == FALSE

\* The patience outlasts any start: it is over when a computer that was complete is asked and does not serve.
Deadline(w, answer) == proc[w].found = "complete" /\ answer # "slow"

GivenUp(w) == proc' = [proc EXCEPT ![w] = Told(w, "failed"), ![Child(w)] = Ended(Child(w), "killed")]

Polls(w) ==
    /\ proc[w].pc = "polls"
    /\ \/ /\ Asked(w, FALSE, "ok")
          /\ Set(w, [Asking(w, "last") EXCEPT !.owns = TRUE])
       \/ \E answer \in Outcomes \ {"ok"} :
            /\ Asked(w, FALSE, answer)
            /\ IF Deadline(w, answer) THEN GivenUp(w) ELSE Set(w, [proc[w] EXCEPT !.pc = "poll"])

\* A machine so slow that the patience runs out first.
Impatient(w) == proc[w].pc = "poll" /\ Runs(Child(w)) /\ Spend("patience") /\ GivenUp(w) /\ UNCHANGED refused

LastAsk(w) ==
    /\ proc[w].pc = "last"
    /\ \E answer \in Outcomes : Asked(w, FALSE, answer) /\ Set(w, Told(w, IF answer = "ok" THEN "serving" ELSE answer))

\* The person sends a message: the agent connects.
Turn(w) ==
    /\ proc[w].pc = "open" /\ Job[w].kind = "window" /\ w \in mix.talks /\ ~proc[w].turned
    /\ Set(w, [Asking(w, "turn") EXCEPT !.turned = TRUE])
    /\ UNCHANGED <<budget, file, refused, outdated>>

Turned(w) ==
    /\ proc[w].pc = "turn"
    /\ \E answer \in Outcomes : Asked(w, FALSE, answer) /\ Set(w, [proc[w] EXCEPT !.pc = "open"])

\* The panel: a viewer is started, once, and killed with the connection.
OpenComputer(w, v) ==
    /\ proc[w].pc = "open" /\ Job[v].kind = "watch" /\ Job[v].parent = w /\ proc[v].pc = "idle"
    /\ Set(v, Opening(v))
    /\ UNCHANGED <<budget, file, refused, outdated>>

\* Whatever serves where the window points.
WhoeverServes(w) == Family(w) \cup At(Job[w].port)

\* What goes with the connection: the viewer, and a computer this window started.
GoesWith(w) == Family(w)

Disconnect(w) ==
    /\ proc[w].pc = "open"
    /\ LET gone == GoesWith(w)
       IN proc' = [p \in Here |-> IF p = w THEN Ended(w, "left")
                                   ELSE IF p \in gone /\ Runs(p) THEN Ended(p, "killed") ELSE proc[p]]
    /\ UNCHANGED <<budget, file, refused, outdated>>

Asks2(p) == (Probe(p) \/ Connect(p) \/ Works(p) \/ Reach(p) \/ Poll(p) \/ Polls(p) \/ LastAsk(p) \/ Turned(p))
            /\ UNCHANGED <<file, outdated>>
Step(p) == Starting(p) \/ Asks2(p)

Next ==
    \/ /\ \E p \in Here :
            \/ Start(p) \/ Tick(p) \/ Step(p) \/ Stop(p) \/ Crash(p)
            \/ Impatient(p) /\ UNCHANGED <<file, outdated>>
            \/ Turn(p) \/ Disconnect(p) \/ \E v \in Here : OpenComputer(p, v)
       /\ UNCHANGED <<mix, viewVars>>
    \/ /\ \E r \in mix.requests : Send(r) \/ ViewStep(r)
       /\ UNCHANGED <<mix, budget, file, proc, refused, outdated>>
    \/ /\ OtherHolds /\ Spend("other")
       /\ UNCHANGED <<mix, file, proc, refused, outdated>>

Spec == Init /\ [][Next]_vars

Windows  == {p \in Procs : Job[p].kind = "window"}
Commands == \E p \in Here \ Windows : Step(p)
Page     == \E r \in Requests : ViewStep(r)

\* Every process goes on with what it does; people, timers and mishaps are under no obligation.
\* (A command's own steps come to an end, so one condition serves for all of them; a window may poll.)
FairSpec ==
    /\ Spec
    /\ WF_vars(Commands /\ UNCHANGED <<mix, viewVars>>)
    /\ \A w \in Windows : WF_vars(w \in Here /\ Step(w) /\ UNCHANGED <<mix, viewVars>>)
    /\ WF_vars(Page /\ UNCHANGED <<mix, budget, file, proc, refused, outdated>>)
-----------------------------------------------------------------------------
(* Properties.                                                                *)

PCs == {"idle", "check", "token", "boot", "bind", "admission", "hold", "guest", "ready", "up", "probe", "connect",
        "works", "watches", "reach", "poll", "polls", "last", "open", "turn", "ended"}
Tokens == Procs \cup {None}

TypeOK ==
    /\ ViewTypeOK
    /\ mix \in Mixes
    /\ file \in [Homes -> Tokens]
    /\ \A p \in Here :
         /\ proc[p].pc \in PCs /\ proc[p].ours \in {p, None} /\ proc[p].token \in Tokens
         /\ proc[p].bound \in Ports \cup {None} /\ proc[p].admits \in Tokens \cup {Anyone}
         /\ {proc[p].serves, proc[p].holds, proc[p].guest, proc[p].owns, proc[p].turned} \subseteq BOOLEAN
    /\ refused \subseteq [by : Here, hub : Here, changed : BOOLEAN] /\ outdated \subseteq Here

\* Two computers never work in one place at once: of two starts on one home, or on one directory
\* somebody named, the second is told, and ends.
OneWriter == \A p, q \in Here : p # q /\ proc[p].guest /\ proc[q].guest => Place(p) # Place(q)

\* "ready" is said of a computer a call can be made on, by `up` and by the window: its guest has
\* registered with the hub that answers at its address.
ReadyMeansServing ==
    \A p \in Here : proc[p].pc \in {"up", "works"} /\ Job[p].kind # "daemon" /\ proc[p].bound # None
        => proc[p].guest /\ proc[p].serves /\ proc[p].holds /\ At(Address(p)) = {p}

\* No computer is started over one that answered: a run starts its own only if nothing was there,
\* or nothing answered in time.
NoSecondComputer ==
    [][\A p \in Here : Job[p].kind = "run" /\ proc[p].pc = "probe" /\ proc'[p].pc = "check"
           => At(Job[p].port) = {} \/ budget' # budget]_vars

\* No process is refused by a hub it started, or by the one that started it, whatever its shell exported.
OwnHubAdmits == \A r \in refused : r.by # r.hub /\ ~(Job[r.by].kind = "tick" /\ Job[r.by].parent = r.hub)

\* A client of the same home is refused only if the token in that home was written again since the hub
\* minted its own, or between the client's look at it and its hello: there is no moment at which a hub
\* answers and the file is not yet its own.
RefusalsHaveAReason ==
    \A r \in refused : Job[r.by].home = Job[r.hub].home /\ Job[r.by].env = None
        => r.changed \/ r.hub \in outdated

\* A disconnected window leaves nothing running that it started, and ends nothing that it did not.
OnlyItsOwnEnds ==
    [][\A w \in Here : Job[w].kind = "window" /\ proc[w].pc = "open" /\ proc'[w].pc = "ended"
            /\ proc'[w].told = "left"
          => \A q \in Here \ {w} : Runs(q) =>
                ((proc'[q].pc = "ended") <=> (Job[q].parent = w))]_vars

\* A person who opens the window on a machine where nothing else happens is told of a computer that
\* serves, whatever address the window is pointed at, as long as its URL names a port.
UndisturbedGetsAComputer ==
    \A w \in Here : Job[w].kind = "window" /\ proc[w].pc = "open" /\ budget = mix.budget /\ mix.broken = {}
            /\ Job[w].port # "bare" /\ (\A q \in Here \ {w} : Job[q].parent = None => proc[q].pc = "idle")
        => proc[w].told = "serving"

\* Every command ends or serves, and every connect reports: nobody waits for ever for a computer that
\* will not answer.  Every request of the page is answered.
Settled ==
    /\ \A p \in Here : proc[p].pc \in {"idle", "up", "watches", "open", "ended"}
    /\ \A kind \in {"takeover", "release", "input", "frame"} : Under(kind) = {}
CommandsEnd == []<>Settled

\* up.rs:495-501: "every client reads the file, so rotating it costs them nothing".
RotationCostsNobody ==
    \A r \in refused : Job[r.by].home = Job[r.hub].home /\ Job[r.by].env = None => r.changed

\* A computer that is called ready serves, alone at its place, and whoever holds its input
\* is shown as holding it (up.rs, engine.rs, watch.rs).
ReadyComputersServe ==
    TypeOK /\ OneWriter /\ ReadyMeansServing /\ UndisturbedGetsAComputer /\ DrivingMeansHolding

\* Nobody is refused by a computer for another reason than a token that changed under it.
NobodyIsRefusedForNothing == OwnHubAdmits /\ RefusalsHaveAReason

\* Every command ends, having started no second computer, ended nobody else's, and typed
\* nothing without consent.
CommandsMindTheirOwn == NoSecondComputer /\ OnlyItsOwnEnds /\ ConsentIsFresh /\ CommandsEnd

=============================================================================
