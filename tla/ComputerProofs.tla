---------------------------- MODULE ComputerProofs ----------------------------
(***************************************************************************)
(* Theorems about Computer and Viewer.  The argument is about what each process     *)
(* has by the section it is in (Stack, Handed), what the file in a home says of the *)
(* hubs that run on it (Filed), who is alone where (Apart), what a window knows of  *)
(* the computer it started (Kin, Quiet), and whose the computer's input is (Hand).  *)
(***************************************************************************)
EXTENDS Computer, TLAPS

(***************************************************************************)
(* What a process has, by its section.                                     *)
(***************************************************************************)

Tolds == {"nothing", "done", "stopped", "crashed", "killed", "left", "failed", "serving"} \cup Outcomes
Founds == {"nothing", "unreachable", "slow", "complete", "starting"}

Record ==
    [pc : PCs, ours : Tokens, token : Tokens, found : Founds, bound : Ports \cup {None},
     admits : Tokens \cup {Anyone}, serves : BOOLEAN, holds : BOOLEAN, guest : BOOLEAN,
     told : Tolds, owns : BOOLEAN, turned : BOOLEAN]

StackPCs == {"check", "token", "boot", "bind", "hold", "guest", "ready"}

PcsOf(kind) ==
    IF kind = "up"          THEN {"idle", "ended", "up"} \cup StackPCs
    ELSE IF kind = "run"    THEN {"idle", "ended", "probe", "connect", "works"} \cup StackPCs
    ELSE IF kind = "daemon" THEN {"idle", "ended", "bind", "admission", "up"}
    ELSE IF kind = "window" THEN {"idle", "ended", "reach", "poll", "polls", "last", "open", "turn"}
    ELSE {"idle", "ended", "connect", "watches"}

\* The sections behind a process; a run that found nothing has a computer of its own.
Complete(rec)   == rec.pc = "up" \/ (rec.pc \in {"connect", "works"} /\ rec.found # "nothing")
Registered(rec) == rec.pc = "ready" \/ Complete(rec)
Holding(rec)    == rec.pc = "guest" \/ Registered(rec)
Listening(rec)  == rec.pc = "hold" \/ Holding(rec)
Booted(rec)     == rec.pc = "bind" \/ Listening(rec)
Minted(rec)     == rec.pc = "boot" \/ Booted(rec)

\* What an `up`, or a run, has of its computer.
OwnStack(p, rec) ==
    /\ rec.ours   = IF Minted(rec) THEN p ELSE None
    /\ rec.admits = IF Booted(rec) THEN p ELSE None
    /\ rec.bound  = IF Listening(rec) THEN Address(p) ELSE None
    /\ rec.serves <=> Listening(rec)
    /\ rec.holds  <=> Holding(rec)
    /\ rec.guest  <=> Registered(rec)

\* A daemon binds before it admits anybody.
DaemonStack(p, rec) ==
    /\ rec.ours = None /\ ~rec.holds /\ ~rec.guest
    /\ rec.admits = None <=> rec.pc # "up"
    /\ rec.bound  = IF rec.pc \in {"admission", "up"} THEN Address(p) ELSE None
    /\ rec.serves <=> rec.pc = "up"

Stack(p, rec) ==
    /\ rec.pc \in PcsOf(Job[p].kind)
    /\ rec.found # "nothing" => Job[p].kind \in {"run", "window"}
    /\ Job[p].kind = "run" /\ rec.pc \in StackPCs => rec.found # "nothing"
    /\ rec.pc \in {"idle", "probe"} => rec.found = "nothing"
    /\ IF Job[p].kind = "daemon" THEN DaemonStack(p, rec) ELSE OwnStack(p, rec)

\* Whom it was told to ask for: an own computer, or the one it is a timer of.
Handed(p, rec) ==
    /\ Registered(rec) /\ Job[p].kind \in {"up", "run"} => rec.token = p
    /\ Job[p].kind = "tick" /\ rec.pc = "connect" => rec.token = Job[p].parent

\* One process, whatever the others do.
Fit(p, rec) == rec \in Record /\ Stack(p, rec) /\ Handed(p, rec)

(***************************************************************************)
(* Several processes.                                                      *)
(***************************************************************************)

\* No two listen on one address, no two hold one place.
Apart ==
    \A p, q \in Here : p # q =>
        /\ proc[p].bound # None => proc[p].bound # proc[q].bound
        /\ proc[p].holds /\ proc[q].holds => Place(p) # Place(q)

\* A token that is good is in the home, unless another start has written there.
Filed ==
    \A p \in Here \ outdated :
        /\ proc[p].ours # None => file[Job[p].home] = p
        /\ proc[p].admits \notin {None, Anyone} => file[Job[p].home] = proc[p].admits

\* A child is not started before its parent, a timer not before it listens; a computer that outlived the
\* wait for it is the window's.
Kin ==
    \A p \in Here :
        /\ Job[p].parent # None /\ proc[p].pc # "idle" => proc[Job[p].parent].pc # "idle"
        /\ Job[p].kind = "tick" /\ proc[p].pc # "idle" /\ Runs(Job[p].parent) =>
             Listening(proc[Job[p].parent])
        /\ Job[p].kind = "window" =>
             /\ proc[p].pc \in {"idle", "reach"} => proc[Child(p)].pc = "idle"
             /\ proc[p].pc \in {"last", "open", "turn"} /\ Runs(Child(p)) => proc[p].owns

\* Nothing else is started, nothing goes wrong, and the window's address names a port.
Undisturbed(w) ==
    /\ budget = mix.budget /\ mix.broken = {}
    /\ Job[w].kind = "window" /\ Job[w].port # "bare"
    /\ \A q \in Here \ {w} : Job[q].parent = None => proc[q].pc = "idle"

\* How far the window and its computer are by themselves.
Quiet ==
    \A w \in Here : Undisturbed(w) =>
        /\ proc[w].pc \in {"poll", "polls"} => Runs(Child(w))
        /\ proc[w].pc = "polls" /\ proc[w].found = "complete" =>
             proc[Child(w)].pc = "up" /\ proc[w].token = Child(w)
        /\ proc[w].pc = "last" => Registered(proc[Child(w)]) /\ proc[w].token = Child(w)
        /\ proc[w].pc \in {"open", "turn"} => proc[w].told = "serving"
        /\ proc[Child(w)].ours # None => file[Job[w].home] = Child(w)

\* Mishaps are used up and do not come back.
Budgeted ==
    /\ budget \in [DOMAIN mix.budget -> Nat]
    /\ \A what \in DOMAIN mix.budget : budget[what] <= mix.budget[what]

Types == mix \in Mixes /\ file \in [Homes -> Tokens] /\ DOMAIN proc = Here

Fits == \A p \in Here : Fit(p, proc[p])

MachineInv ==
    /\ Types /\ outdated \subseteq Here /\ refused \subseteq [by : Here, hub : Here, changed : BOOLEAN]
    /\ Fits /\ Apart /\ Filed /\ Kin /\ Quiet /\ Budgeted
    /\ OwnHubAdmits /\ RefusalsHaveAReason

\* The viewer: `driving` is right about the hub unless a takeover and a release crossed.
Hand ==
    /\ \A r \in Requests :
         /\ ask[r] \in {"claims", "claimed"} => Asks[r].kind = "takeover"
         /\ ask[r] = "returns" => Asks[r].kind = "release"
         /\ ask[r] \in {"waits", "calls", "allowed", "acts"} => Asks[r].kind \in {"input", "frame"}
    /\ ~crossed =>
         /\ Under("takeover") = {} \/ Under("release") = {}
         /\ \A r \in Requests : ask[r] = "claimed" => holder = "viewer"
         /\ driving => holder = "viewer" /\ \A r \in Requests : ask[r] # "returns"

ViewInv == ViewTypeOK /\ Hand

IInv == MachineInv /\ ViewInv

-----------------------------------------------------------------------------
(***************************************************************************)
(* What the assumption says of the processes of a mix.                     *)
(***************************************************************************)

LEMMA JobFacts ==
    ASSUME mix \in Mixes, NEW p \in Here
    PROVE  /\ p \in Procs /\ p # None /\ p # Anyone /\ None # Anyone
           /\ Job[p].kind \in Kinds
           /\ Job[p].env \in Tokens
           /\ Job[p].parent \in Here \cup {None}
           /\ Job[p].home \in Homes
           /\ Job[p].port \notin Procs \cup {None}
           /\ Job[p].kind \in {"tick", "watch"} => Job[p].parent # None
           /\ Job[p].parent # None =>
                 /\ Job[p].kind \in {"tick", "watch", "up"}
                 /\ Job[p].kind = "tick" => Job[Job[p].parent].kind = "up"
                 /\ Job[p].kind # "tick" => Job[Job[p].parent].kind = "window"
<1>1. mix.procs \subseteq Procs /\ p \in mix.procs
  BY ComputerAssumption DEF Here
<1>2. Job[p].parent # None =>
        /\ Job[p].parent \in mix.procs
        /\ Job[p].kind \in {"tick", "watch", "up"}
        /\ Job[Job[p].parent].kind = (IF Job[p].kind = "tick" THEN "up" ELSE "window")
  BY <1>1, ComputerAssumption
<1>3. Job[p].kind \in {"tick", "watch"} => Job[p].parent # None
  BY <1>1, ComputerAssumption
<1> QED
  BY <1>1, <1>2, <1>3, ComputerAssumption DEF Here, Kinds, Tokens, Homes

LEMMA ChildFacts ==
    ASSUME mix \in Mixes, NEW w \in Here, Job[w].kind = "window"
    PROVE  /\ Child(w) \in Here /\ Child(w) # w
           /\ Job[Child(w)].kind = "up" /\ Job[Child(w)].parent = w
           /\ Job[Child(w)].home = Job[w].home /\ Job[Child(w)].workspace = None
           /\ \A d \in Here : Job[d].kind = "up" /\ Job[d].parent = w => d = Child(w)
           /\ Job[w].parent = None
<1>1. PICK c \in Here :
        /\ Job[c].kind = "up" /\ Job[c].parent = w
        /\ Job[c].home = Job[w].home /\ Job[c].workspace = None
        /\ \A d \in Here : Job[d].kind = "up" /\ Job[d].parent = w => d = c
  BY ComputerAssumption DEF Here
<1>2. Child(w) \in Here /\ Job[Child(w)].parent = w /\ Job[Child(w)].kind = "up"
  BY <1>1 DEF Child
<1>3. Child(w) = c
  BY <1>1, <1>2
<1>4. Job[w].parent = None
  BY JobFacts
<1> QED
  BY <1>1, <1>2, <1>3, <1>4

\* An address is a port somebody names, or a free one of the process's own.
LEMMA AddressFacts ==
    ASSUME mix \in Mixes, NEW p \in Here
    PROVE  Address(p) \in Ports /\ Address(p) # None
<1>1. CASE Job[p].kind = "run"
  BY <1>1, JobFacts DEF Address, Ports
<1>2. CASE Job[p].kind # "run" /\ Job[p].parent = None
  BY <1>2, JobFacts DEF Address, Ports
<1>3. CASE Job[p].kind # "run" /\ Job[p].parent # None
  <2>1. Job[p].parent \in Here
    BY <1>3, JobFacts
  <2>2. Job[p].parent \in Procs /\ Job[Job[p].parent].port \notin Procs \cup {None}
    BY <2>1, JobFacts
  <2>3. BindOf(Job[Job[p].parent].port) \in Ports /\ BindOf(Job[Job[p].parent].port) # None
    BY <2>2, ComputerAssumption DEF BindOf, Ports
  <2> QED
    BY <1>3, <2>3 DEF Address
<1> QED
  BY <1>1, <1>2, <1>3

(***************************************************************************)
(* The sections of a start come in their order.                            *)
(***************************************************************************)

LEMMA OnwardsOfStack ==
    ASSUME NEW p, NEW rec, Job[p].kind # "daemon"
    PROVE  /\ proc[p].pc = "check" => Onwards(p, rec) = [rec EXCEPT !.pc = "token"]
           /\ proc[p].pc = "token" => Onwards(p, rec) = [rec EXCEPT !.pc = "boot"]
           /\ proc[p].pc = "boot"  => Onwards(p, rec) = [rec EXCEPT !.pc = "bind"]
           /\ proc[p].pc = "bind"  => Onwards(p, rec) = [rec EXCEPT !.pc = "hold"]
           /\ proc[p].pc = "hold"  => Onwards(p, rec) = [rec EXCEPT !.pc = "guest"]
           /\ proc[p].pc = "guest" => Onwards(p, rec) = [rec EXCEPT !.pc = "ready"]
           /\ proc[p].pc = "ready" =>
                Onwards(p, rec) = IF Job[p].kind = "run"
                                  THEN [rec EXCEPT !.pc = "connect", !.token = HubToken(p)]
                                  ELSE [rec EXCEPT !.pc = "up"]
<1> DEFINE order == <<"check", "token", "boot", "bind", "hold", "guest", "ready">>
<1>1. Order(p) = order
  BY DEF Order
<1>2. /\ Len(order) = 7 /\ DOMAIN order = 1 .. 7
      /\ order[1] = "check" /\ order[2] = "token" /\ order[3] = "boot" /\ order[4] = "bind"
      /\ order[5] = "hold" /\ order[6] = "guest" /\ order[7] = "ready"
  OBVIOUS
<1> HIDE DEF order
<1>3. \A i \in DOMAIN order :
         /\ order[i] = "check" => i = 1
         /\ order[i] = "token" => i = 2
         /\ order[i] = "boot" => i = 3
         /\ order[i] = "bind" => i = 4
         /\ order[i] = "hold" => i = 5
         /\ order[i] = "guest" => i = 6
         /\ order[i] = "ready" => i = 7
  <2> SUFFICES ASSUME NEW i \in 1 .. 7
               PROVE  /\ order[i] = "check" => i = 1
                      /\ order[i] = "token" => i = 2
                      /\ order[i] = "boot" => i = 3
                      /\ order[i] = "bind" => i = 4
                      /\ order[i] = "hold" => i = 5
                      /\ order[i] = "guest" => i = 6
                      /\ order[i] = "ready" => i = 7
    BY <1>2
  <2>1. i \in {1, 2, 3, 4, 5, 6, 7}
    OBVIOUS
  <2> QED
    BY <2>1, <1>2
<1>4. ASSUME NEW i \in 1 .. 7, proc[p].pc = order[i]
      PROVE  (CHOOSE j \in DOMAIN order : order[j] = proc[p].pc) = i
  BY <1>2, <1>3, <1>4
<1>5. ASSUME NEW i \in 1 .. 6, proc[p].pc = order[i]
      PROVE  Onwards(p, rec) = [rec EXCEPT !.pc = order[i + 1]]
  BY <1>1, <1>2, <1>4, <1>5 DEF Onwards
<1>6. ASSUME proc[p].pc = order[7]
      PROVE  Onwards(p, rec) = IF Job[p].kind = "run"
                               THEN [rec EXCEPT !.pc = "connect", !.token = HubToken(p)]
                               ELSE [rec EXCEPT !.pc = "up"]
  BY <1>1, <1>2, <1>4, <1>6 DEF Onwards
<1>7. proc[p].pc = "ready" => Onwards(p, rec) = IF Job[p].kind = "run"
                                                THEN [rec EXCEPT !.pc = "connect", !.token = HubToken(p)]
                                                ELSE [rec EXCEPT !.pc = "up"]
  BY <1>2, <1>6
<1>8. /\ proc[p].pc = "check" => Onwards(p, rec) = [rec EXCEPT !.pc = "token"]
      /\ proc[p].pc = "token" => Onwards(p, rec) = [rec EXCEPT !.pc = "boot"]
      /\ proc[p].pc = "boot"  => Onwards(p, rec) = [rec EXCEPT !.pc = "bind"]
      /\ proc[p].pc = "bind"  => Onwards(p, rec) = [rec EXCEPT !.pc = "hold"]
      /\ proc[p].pc = "hold"  => Onwards(p, rec) = [rec EXCEPT !.pc = "guest"]
      /\ proc[p].pc = "guest" => Onwards(p, rec) = [rec EXCEPT !.pc = "ready"]
  BY <1>2, <1>5
<1> QED
  BY <1>7, <1>8

LEMMA AfterCheck ==
    ASSUME NEW p, NEW rec, Job[p].kind # "daemon", proc[p].pc = "check"
    PROVE  Onwards(p, rec) = [rec EXCEPT !.pc = "token"]
  BY OnwardsOfStack

LEMMA AfterToken ==
    ASSUME NEW p, NEW rec, Job[p].kind # "daemon", proc[p].pc = "token"
    PROVE  Onwards(p, rec) = [rec EXCEPT !.pc = "boot"]
  BY OnwardsOfStack

LEMMA AfterBoot ==
    ASSUME NEW p, NEW rec, Job[p].kind # "daemon", proc[p].pc = "boot"
    PROVE  Onwards(p, rec) = [rec EXCEPT !.pc = "bind"]
  BY OnwardsOfStack

LEMMA AfterBind ==
    ASSUME NEW p, NEW rec, Job[p].kind # "daemon", proc[p].pc = "bind"
    PROVE  Onwards(p, rec) = [rec EXCEPT !.pc = "hold"]
  BY OnwardsOfStack

LEMMA AfterHold ==
    ASSUME NEW p, NEW rec, Job[p].kind # "daemon", proc[p].pc = "hold"
    PROVE  Onwards(p, rec) = [rec EXCEPT !.pc = "guest"]
  BY OnwardsOfStack

LEMMA AfterGuest ==
    ASSUME NEW p, NEW rec, Job[p].kind # "daemon", proc[p].pc = "guest"
    PROVE  Onwards(p, rec) = [rec EXCEPT !.pc = "ready"]
  BY OnwardsOfStack

LEMMA AfterReady ==
    ASSUME NEW p, NEW rec, Job[p].kind # "daemon", proc[p].pc = "ready"
    PROVE  Onwards(p, rec) = IF Job[p].kind = "run"
                             THEN [rec EXCEPT !.pc = "connect", !.token = HubToken(p)]
                             ELSE [rec EXCEPT !.pc = "up"]
  BY OnwardsOfStack

LEMMA OnwardsOfDaemon ==
    ASSUME NEW p, NEW rec, Job[p].kind = "daemon"
    PROVE  /\ proc[p].pc = "bind"      => Onwards(p, rec) = [rec EXCEPT !.pc = "admission"]
           /\ proc[p].pc = "admission" => Onwards(p, rec) = [rec EXCEPT !.pc = "up"]
<1> DEFINE order == <<"bind", "admission">>
<1>1. Order(p) = order
  BY DEF Order
<1>2. Len(order) = 2 /\ DOMAIN order = 1 .. 2 /\ order[1] = "bind" /\ order[2] = "admission"
  OBVIOUS
<1> HIDE DEF order
<1>3. ASSUME proc[p].pc = "bind" PROVE (CHOOSE j \in DOMAIN order : order[j] = proc[p].pc) = 1
  BY <1>2, <1>3
<1>4. ASSUME proc[p].pc = "admission" PROVE (CHOOSE j \in DOMAIN order : order[j] = proc[p].pc) = 2
  BY <1>2, <1>4
<1>5. ASSUME proc[p].pc = "bind" PROVE Onwards(p, rec) = [rec EXCEPT !.pc = "admission"]
  BY <1>1, <1>2, <1>3, <1>5 DEF Onwards
<1>6. ASSUME proc[p].pc = "admission" PROVE Onwards(p, rec) = [rec EXCEPT !.pc = "up"]
  BY <1>1, <1>2, <1>4, <1>6 DEF Onwards
<1> QED
  BY <1>5, <1>6

-----------------------------------------------------------------------------
(***************************************************************************)
(* A process in its next section still fits.                               *)
(***************************************************************************)

LEMMA LookupFacts ==
    ASSUME Types, Fits, NEW p \in Here, NEW pc
    PROVE  /\ HubToken(p) \in Tokens /\ TokenAt(p) \in Tokens /\ Lookup(p, pc) \in Tokens
           /\ proc[p].ours # None => HubToken(p) = p
           /\ Job[p].kind = "tick" /\ proc[p].ours = None
                /\ proc[Job[p].parent].pc \in {"hold", "guest", "ready", "up"}
              => HubToken(p) = Job[p].parent
<1>1. p \in Procs /\ Job[p].env \in Tokens /\ Job[p].home \in Homes
  BY JobFacts DEF Types
<1>2. file[Job[p].home] \in Tokens
  BY <1>1 DEF Types
<1>3. Fit(p, proc[p])
  BY DEF Fits
<1>4. proc[p].ours \in {p, None}
  <2>1. CASE Job[p].kind = "daemon"
    BY <1>3, <2>1 DEF Fit, Stack, DaemonStack
  <2>2. CASE Job[p].kind # "daemon"
    BY <1>3, <2>2 DEF Fit, Stack, OwnStack
  <2> QED
    BY <2>1, <2>2
<1>5. ASSUME Job[p].kind = "tick"
      PROVE  /\ proc[Job[p].parent].ours \in Tokens
             /\ proc[Job[p].parent].pc \in {"hold", "guest", "ready", "up"} =>
                  proc[Job[p].parent].ours = Job[p].parent /\ Job[p].parent # None
  <2>1. Job[p].parent \in Here /\ Job[p].parent # None /\ Job[Job[p].parent].kind = "up"
    BY <1>5, JobFacts DEF Types
  <2>2. Fit(Job[p].parent, proc[Job[p].parent])
    BY <2>1 DEF Fits
  <2> QED
    BY <2>1, <2>2 DEF Fit, Stack, OwnStack, Record, Minted, Booted, Listening, Holding, Registered, Complete
<1>6. Env(p) \in Tokens
  BY <1>1, <1>5 DEF Env
<1>7. HubToken(p) \in Tokens
  BY <1>1, <1>2, <1>4, <1>6 DEF HubToken, Tokens
<1>8. TokenAt(p) \in Tokens
  BY <1>1, <1>2 DEF TokenAt
<1>9. proc[p].ours # None => HubToken(p) = p
  BY <1>4 DEF HubToken
<1>10. Job[p].kind = "tick" /\ proc[p].ours = None
         /\ proc[Job[p].parent].pc \in {"hold", "guest", "ready", "up"} => HubToken(p) = Job[p].parent
  BY <1>5 DEF HubToken, Env
<1>11. Lookup(p, pc) \in Tokens
  BY <1>7, <1>8 DEF Lookup
<1> QED
  BY <1>7, <1>8, <1>9, <1>10, <1>11

\* What ends has nothing.
LEMMA EndedFits ==
    ASSUME mix \in Mixes, NEW p \in Here, Fit(p, proc[p]), NEW told \in Tolds
    PROVE  /\ Fit(p, Ended(p, told)) /\ Ended(p, told).pc = "ended"
           /\ Ended(p, told).told = told
           /\ Ended(p, told).bound = None /\ Ended(p, told).ours = None
           /\ Ended(p, told).admits = None /\ Ended(p, told).holds = FALSE
<1>1. p \in Procs /\ Job[p].kind \in Kinds
  BY JobFacts
<1> DEFINE rec == Ended(p, told)
<1>2. /\ rec.pc = "ended" /\ rec.ours = None /\ rec.found = proc[p].found /\ rec.bound = None
      /\ rec.admits = None /\ rec.serves = FALSE /\ rec.holds = FALSE /\ rec.guest = FALSE
      /\ rec.told = told
  BY DEF Ended, Idle
<1>3. proc[p].found \in Founds /\ (proc[p].found # "nothing" => Job[p].kind \in {"run", "window"})
  BY DEF Fit, Record, Stack
<1>4. rec \in Record
  <2>1. Idle \in Record
    BY DEF Idle, Record, PCs, Tokens, Tolds, Founds
  <2>2. "ended" \in PCs
    BY DEF PCs
  <2> QED
    BY <1>3, <2>1, <2>2 DEF Ended, Record
<1>5. rec.pc \in PcsOf(Job[p].kind)
  BY <1>1, <1>2 DEF PcsOf, Kinds
<1>6. ~Minted(rec) /\ ~Booted(rec) /\ ~Listening(rec) /\ ~Holding(rec) /\ ~Registered(rec)
  BY <1>2 DEF Minted, Booted, Listening, Holding, Registered, Complete
<1>7. OwnStack(p, rec)
  BY <1>2, <1>6 DEF OwnStack
<1>8. DaemonStack(p, rec)
  BY <1>2 DEF DaemonStack
<1>9. Stack(p, rec)
  BY <1>2, <1>3, <1>5, <1>7, <1>8 DEF Stack, StackPCs
<1>10. Handed(p, rec)
  BY <1>2, <1>6 DEF Handed
<1> QED
  BY <1>2, <1>4, <1>9, <1>10 DEF Fit

\* The kinds of process there are in a section.
LEMMA KindsOf ==
    ASSUME mix \in Mixes, NEW p \in Here, Fit(p, proc[p])
    PROVE  /\ proc[p].pc \in {"check", "token", "boot", "hold", "guest", "ready"} => Job[p].kind \in {"up", "run"}
           /\ proc[p].pc = "bind" => Job[p].kind \in {"up", "run", "daemon"}
           /\ proc[p].pc = "admission" => Job[p].kind = "daemon"
           /\ proc[p].pc = "up" => Job[p].kind \in {"up", "daemon"}
           /\ proc[p].pc \in {"probe", "works"} => Job[p].kind = "run"
           /\ proc[p].pc = "watches" => Job[p].kind \in {"watch", "client", "tick"}
           /\ proc[p].pc = "connect" => Job[p].kind \in {"run", "watch", "client", "tick"}
           /\ proc[p].pc \in {"reach", "poll", "polls", "last", "open", "turn"} => Job[p].kind = "window"
<1>1. Job[p].kind \in Kinds /\ proc[p].pc \in PcsOf(Job[p].kind)
  BY JobFacts DEF Fit, Stack
<1> QED
  BY <1>1 DEF Kinds, PcsOf, StackPCs

\* Neither before nor after does it have anything of a computer.
LEMMA BareFits ==
    ASSUME NEW p, Fit(p, proc[p]), NEW rec \in Record, Job[p].kind # "daemon",
           ~Minted(proc[p]), ~Minted(rec),
           rec.ours = proc[p].ours, rec.admits = proc[p].admits, rec.bound = proc[p].bound,
           rec.serves = proc[p].serves, rec.holds = proc[p].holds, rec.guest = proc[p].guest,
           rec.pc \in PcsOf(Job[p].kind),
           rec.found # "nothing" => Job[p].kind \in {"run", "window"},
           Job[p].kind = "run" /\ rec.pc \in StackPCs => rec.found # "nothing",
           rec.pc \in {"idle", "probe"} => rec.found = "nothing",
           Job[p].kind = "tick" /\ rec.pc = "connect" => rec.token = Job[p].parent
    PROVE  Fit(p, rec)
<1>1. OwnStack(p, proc[p])
  BY DEF Fit, Stack
<1>2. /\ ~Booted(proc[p]) /\ ~Listening(proc[p]) /\ ~Holding(proc[p]) /\ ~Registered(proc[p])
      /\ ~Booted(rec) /\ ~Listening(rec) /\ ~Holding(rec) /\ ~Registered(rec)
  BY DEF Minted, Booted, Listening, Holding, Registered
<1>3. OwnStack(p, rec)
  BY <1>1, <1>2 DEF OwnStack
<1>4. Stack(p, rec)
  BY <1>3 DEF Stack
<1>5. Handed(p, rec)
  BY <1>2 DEF Handed
<1> QED
  BY <1>4, <1>5 DEF Fit

\* A process that is outside its computer's start.
LEMMA Bare ==
    ASSUME NEW p, Fit(p, proc[p]),
           \/ proc[p].pc \in {"idle", "ended", "check", "token", "probe", "watches", "reach", "poll", "polls",
                              "last", "open", "turn"}
           \/ proc[p].pc = "connect" /\ proc[p].found = "nothing"
    PROVE  ~Minted(proc[p])
  BY DEF Minted, Booted, Listening, Holding, Registered, Complete

LEMMA AskingFits ==
    ASSUME Types, Fits, NEW p \in Here, ~Minted(proc[p]), Job[p].kind # "daemon",
           NEW pc \in {"probe", "reach", "connect", "polls", "last", "turn"},
           pc \in PcsOf(Job[p].kind),
           pc \in {"probe", "connect"} => proc[p].found = "nothing",
           Job[p].kind = "tick" => proc[Job[p].parent].pc \in {"hold", "guest", "ready", "up"}
    PROVE  Fit(p, Asking(p, pc))
<1> DEFINE rec == Asking(p, pc)
<1>1. Fit(p, proc[p])
  BY DEF Fits
<1>2. Lookup(p, pc) \in Tokens
  BY LookupFacts
<1>3. /\ rec.pc = pc /\ rec.token = Lookup(p, pc) /\ rec.found = proc[p].found
      /\ rec.ours = proc[p].ours /\ rec.admits = proc[p].admits /\ rec.bound = proc[p].bound
      /\ rec.serves = proc[p].serves /\ rec.holds = proc[p].holds /\ rec.guest = proc[p].guest
      /\ rec \in Record
  <2>1. pc \in PCs
    BY DEF PCs
  <2>2. proc[p] \in Record
    BY <1>1 DEF Fit
  <2> QED
    BY <1>2, <2>1, <2>2 DEF Asking, Record
<1>4. ~Minted(rec)
  BY <1>3 DEF Minted, Booted, Listening, Holding, Registered, Complete
<1>5. Job[p].kind = "tick" => rec.token = Job[p].parent
  <2>1. SUFFICES ASSUME Job[p].kind = "tick" PROVE rec.token = Job[p].parent
    OBVIOUS
  <2>2. proc[p].ours = None
    BY <1>1, <2>1 DEF Fit, Stack, OwnStack
  <2>3. HubToken(p) = Job[p].parent
    BY <2>1, <2>2, LookupFacts
  <2> QED
    BY <1>3, <2>1, <2>3 DEF Lookup
<1>6. rec.found # "nothing" => Job[p].kind \in {"run", "window"}
  BY <1>1, <1>3 DEF Fit, Stack
<1>7. rec.pc \notin StackPCs
  BY <1>3 DEF StackPCs
<1> HIDE DEF rec
<1>8. Fit(p, rec)
  BY <1>1, <1>3, <1>4, <1>5, <1>6, <1>7, BareFits
<1> QED
  BY <1>8 DEF rec

\* The record of a process with another section, another finding, another word for its person.
LEMMA BareMove ==
    ASSUME Fits, NEW p \in Here, ~Minted(proc[p]), Job[p].kind # "daemon",
           NEW rec \in Record, ~Minted(rec),
           rec.ours = proc[p].ours, rec.admits = proc[p].admits, rec.bound = proc[p].bound,
           rec.serves = proc[p].serves, rec.holds = proc[p].holds, rec.guest = proc[p].guest,
           rec.pc \in PcsOf(Job[p].kind) \ {"idle", "probe"},
           rec.found # "nothing" => Job[p].kind \in {"run", "window"},
           Job[p].kind = "run" => rec.found # "nothing" \/ rec.pc \notin StackPCs,
           Job[p].kind # "tick"
    PROVE  Fit(p, rec)
<1>1. Fit(p, proc[p])
  BY DEF Fits
<1> QED
  BY <1>1, BareFits

\* The steps of a start, each with what it adds.
LEMMA CheckedFits ==
    ASSUME Types, Fits, NEW p \in Here, proc[p].pc = "check"
    PROVE  /\ Onwards(p, proc[p]) = [proc[p] EXCEPT !.pc = "token"]
           /\ Fit(p, Onwards(p, proc[p]))
<1>1. Fit(p, proc[p]) /\ Job[p].kind \in {"up", "run"}
  BY KindsOf DEF Fits, Types
<1>2. Onwards(p, proc[p]) = [proc[p] EXCEPT !.pc = "token"]
  BY <1>1, AfterCheck
<1> DEFINE rec == [proc[p] EXCEPT !.pc = "token"]
<1>3. rec \in Record
  BY <1>1 DEF Fit, Record, PCs
<1>4. OwnStack(p, rec)
  BY <1>1 DEF Fit, Stack, OwnStack, Minted, Booted, Listening, Holding, Registered, Complete, Record
<1>5. Stack(p, rec)
  BY <1>1, <1>4 DEF Fit, Stack, PcsOf, StackPCs, Record
<1>6. Handed(p, rec)
  BY <1>1 DEF Handed, Registered, Complete, Fit, Record
<1> QED
  BY <1>2, <1>3, <1>5, <1>6 DEF Fit

LEMMA MintedFits ==
    ASSUME Types, Fits, NEW p \in Here, proc[p].pc = "token"
    PROVE  /\ Onwards(p, [proc[p] EXCEPT !.ours = p]) = [proc[p] EXCEPT !.ours = p, !.pc = "boot"]
           /\ Fit(p, [proc[p] EXCEPT !.ours = p, !.pc = "boot"])
<1>1. Fit(p, proc[p]) /\ Job[p].kind \in {"up", "run"} /\ p \in Procs
  BY KindsOf, JobFacts DEF Fits, Types
<1>2. Onwards(p, [proc[p] EXCEPT !.ours = p]) = [[proc[p] EXCEPT !.ours = p] EXCEPT !.pc = "boot"]
  BY <1>1, AfterToken
<1> DEFINE rec == [proc[p] EXCEPT !.ours = p, !.pc = "boot"]
<1>3. rec \in Record
  BY <1>1 DEF Fit, Record, PCs, Tokens
<1>4. OwnStack(p, rec)
  BY <1>1 DEF Fit, Stack, OwnStack, Minted, Booted, Listening, Holding, Registered, Complete, Record
<1>5. Stack(p, rec)
  BY <1>1, <1>4 DEF Fit, Stack, PcsOf, StackPCs, Record
<1>6. Handed(p, rec)
  BY <1>1 DEF Handed, Registered, Complete, Fit, Record
<1> QED
  BY <1>2, <1>3, <1>5, <1>6 DEF Fit

LEMMA BootedFits ==
    ASSUME Types, Fits, NEW p \in Here, proc[p].pc = "boot"
    PROVE  /\ Onwards(p, [proc[p] EXCEPT !.admits = p]) = [proc[p] EXCEPT !.admits = p, !.pc = "bind"]
           /\ Fit(p, [proc[p] EXCEPT !.admits = p, !.pc = "bind"])
<1>1. Fit(p, proc[p]) /\ Job[p].kind \in {"up", "run"} /\ p \in Procs
  BY KindsOf, JobFacts DEF Fits, Types
<1>2. Onwards(p, [proc[p] EXCEPT !.admits = p]) = [[proc[p] EXCEPT !.admits = p] EXCEPT !.pc = "bind"]
  BY <1>1, AfterBoot
<1> DEFINE rec == [proc[p] EXCEPT !.admits = p, !.pc = "bind"]
<1>3. rec \in Record
  BY <1>1 DEF Fit, Record, PCs, Tokens
<1>4. OwnStack(p, rec)
  BY <1>1 DEF Fit, Stack, OwnStack, Minted, Booted, Listening, Holding, Registered, Complete, Record
<1>5. Stack(p, rec)
  BY <1>1, <1>4 DEF Fit, Stack, PcsOf, StackPCs, Record
<1>6. Handed(p, rec)
  BY <1>1 DEF Handed, Registered, Complete, Fit, Record
<1> QED
  BY <1>2, <1>3, <1>5, <1>6 DEF Fit

LEMMA ListeningFits ==
    ASSUME Types, Fits, NEW p \in Here, proc[p].pc = "bind"
    PROVE  LET rec == [proc[p] EXCEPT !.bound = Address(p), !.serves = Job[p].kind # "daemon"]
               on  == IF Job[p].kind = "daemon" THEN [rec EXCEPT !.pc = "admission"] ELSE [rec EXCEPT !.pc = "hold"]
           IN  Onwards(p, rec) = on /\ Fit(p, on)
<1>1. Fit(p, proc[p]) /\ Job[p].kind \in {"up", "run", "daemon"} /\ p \in Procs
  BY KindsOf, JobFacts DEF Fits, Types
<1>2. Address(p) \in Ports
  BY AddressFacts DEF Types
<1> DEFINE new == [proc[p] EXCEPT !.bound = Address(p), !.serves = Job[p].kind # "daemon"]
<1>a. proc[p] \in Record
  BY <1>1 DEF Fit
<1>3. new \in Record
  BY <1>a, <1>2 DEF Record
<1>4. CASE Job[p].kind = "daemon"
  <2> DEFINE rec == [new EXCEPT !.pc = "admission"]
  <2>1. Onwards(p, new) = rec
    BY <1>4, OnwardsOfDaemon
  <2>2. rec \in Record
    BY <1>3 DEF Record, PCs
  <2>3. DaemonStack(p, rec)
    BY <1>1, <1>a, <1>4 DEF Fit, Stack, DaemonStack, Record
  <2>4. Stack(p, rec)
    BY <1>1, <1>a, <1>4, <2>3 DEF Fit, Stack, PcsOf, StackPCs, Record
  <2>5. Handed(p, rec)
    BY <1>4 DEF Handed
  <2> QED
    BY <1>4, <2>1, <2>2, <2>4, <2>5 DEF Fit
<1>5. CASE Job[p].kind \in {"up", "run"}
  <2> DEFINE rec == [new EXCEPT !.pc = "hold"]
  <2>1. Onwards(p, new) = rec
    BY <1>5, AfterBind
  <2>2. rec \in Record
    BY <1>3 DEF Record, PCs
  <2>3. OwnStack(p, rec)
    BY <1>1, <1>a, <1>5 DEF Fit, Stack, OwnStack, Minted, Booted, Listening, Holding, Registered, Complete, Record
  <2>4. Stack(p, rec)
    BY <1>1, <1>a, <1>5, <2>3 DEF Fit, Stack, PcsOf, StackPCs, Record
  <2>5. Handed(p, rec)
    BY <1>a, <1>5 DEF Handed, Registered, Complete, Record
  <2> QED
    BY <1>5, <2>1, <2>2, <2>4, <2>5 DEF Fit
<1> QED
  BY <1>1, <1>4, <1>5

LEMMA AdmissionFits ==
    ASSUME Types, Fits, NEW p \in Here, proc[p].pc = "admission", NEW tok \in Procs \cup {Anyone}
    PROVE  LET rec == [proc[p] EXCEPT !.serves = TRUE, !.admits = tok]
               on  == [proc[p] EXCEPT !.serves = TRUE, !.admits = tok, !.pc = "up"]
           IN  Onwards(p, rec) = on /\ Fit(p, on)
<1>1. Fit(p, proc[p]) /\ Job[p].kind = "daemon" /\ p \in Procs
  BY KindsOf, JobFacts DEF Fits, Types
<1>a. proc[p] \in Record
  BY <1>1 DEF Fit
<1> DEFINE new == [proc[p] EXCEPT !.serves = TRUE, !.admits = tok]
<1> DEFINE rec == [proc[p] EXCEPT !.serves = TRUE, !.admits = tok, !.pc = "up"]
<1>2. Onwards(p, new) = [new EXCEPT !.pc = "up"]
  BY <1>1, OnwardsOfDaemon
<1>3. rec \in Record
  BY <1>a DEF Record, PCs, Tokens
<1>4. tok # None
  BY ComputerAssumption
<1>5. DaemonStack(p, rec)
  BY <1>1, <1>a, <1>4 DEF Fit, Stack, DaemonStack, Record
<1>6. Stack(p, rec)
  BY <1>1, <1>a, <1>5 DEF Fit, Stack, PcsOf, StackPCs, Record
<1>7. Handed(p, rec)
  BY <1>1 DEF Handed
<1> QED
  BY <1>2, <1>3, <1>6, <1>7 DEF Fit

LEMMA HoldingFits ==
    ASSUME Types, Fits, NEW p \in Here, proc[p].pc = "hold"
    PROVE  /\ Onwards(p, [proc[p] EXCEPT !.holds = TRUE]) = [proc[p] EXCEPT !.holds = TRUE, !.pc = "guest"]
           /\ Fit(p, [proc[p] EXCEPT !.holds = TRUE, !.pc = "guest"])
<1>1. Fit(p, proc[p]) /\ Job[p].kind \in {"up", "run"} /\ p \in Procs
  BY KindsOf, JobFacts DEF Fits, Types
<1>2. Onwards(p, [proc[p] EXCEPT !.holds = TRUE]) = [[proc[p] EXCEPT !.holds = TRUE] EXCEPT !.pc = "guest"]
  BY <1>1, AfterHold
<1> DEFINE rec == [proc[p] EXCEPT !.holds = TRUE, !.pc = "guest"]
<1>3. rec \in Record
  BY <1>1 DEF Fit, Record, PCs, Tokens
<1>4. OwnStack(p, rec)
  BY <1>1 DEF Fit, Stack, OwnStack, Minted, Booted, Listening, Holding, Registered, Complete, Record
<1>5. Stack(p, rec)
  BY <1>1, <1>4 DEF Fit, Stack, PcsOf, StackPCs, Record
<1>6. Handed(p, rec)
  BY <1>1 DEF Handed, Registered, Complete, Fit, Record
<1> QED
  BY <1>2, <1>3, <1>5, <1>6 DEF Fit

LEMMA RegisteredFits ==
    ASSUME Types, Fits, NEW p \in Here, proc[p].pc = "guest"
    PROVE  Fit(p, [Asking(p, "ready") EXCEPT !.guest = TRUE])
<1>1. Fit(p, proc[p]) /\ Job[p].kind \in {"up", "run"} /\ p \in Procs /\ p # None
  BY KindsOf, JobFacts DEF Fits, Types
<1>a. proc[p] \in Record
  BY <1>1 DEF Fit
<1>2. proc[p].ours = p
  BY <1>1 DEF Fit, Stack, OwnStack, Minted, Booted, Listening, Holding
<1>3. Lookup(p, "ready") = p
  BY <1>1, <1>2, LookupFacts DEF Lookup
<1> DEFINE rec == [proc[p] EXCEPT !.pc = "ready", !.token = p, !.guest = TRUE]
<1>4. [Asking(p, "ready") EXCEPT !.guest = TRUE] = rec
  BY <1>3 DEF Asking
<1>5. rec \in Record
  BY <1>1, <1>a DEF Record, PCs, Tokens
<1>6. OwnStack(p, rec)
  BY <1>1, <1>a DEF Fit, Stack, OwnStack, Minted, Booted, Listening, Holding, Registered, Complete, Record
<1>7. Stack(p, rec)
  BY <1>1, <1>a, <1>6 DEF Fit, Stack, PcsOf, StackPCs, Record
<1>8. Handed(p, rec)
  BY <1>1, <1>a DEF Handed, Record
<1> QED
  BY <1>4, <1>5, <1>7, <1>8 DEF Fit

LEMMA ReadyFits ==
    ASSUME Types, Fits, NEW p \in Here, proc[p].pc = "ready"
    PROVE  LET on == IF Job[p].kind = "run" THEN [proc[p] EXCEPT !.pc = "connect"]
                                            ELSE [proc[p] EXCEPT !.pc = "up"]
           IN  Onwards(p, proc[p]) = on /\ Fit(p, on)
<1>1. Fit(p, proc[p]) /\ Job[p].kind \in {"up", "run"} /\ p \in Procs /\ p # None
  BY KindsOf, JobFacts DEF Fits, Types
<1>a. proc[p] \in Record
  BY <1>1 DEF Fit
<1>2. proc[p].ours = p /\ proc[p].token = p
  BY <1>1 DEF Fit, Stack, OwnStack, Handed, Minted, Booted, Listening, Holding, Registered
<1>3. HubToken(p) = p
  BY <1>1, <1>2, LookupFacts
<1>4. CASE Job[p].kind = "run"
  <2> DEFINE rec == [proc[p] EXCEPT !.pc = "connect"]
  <2>1. Onwards(p, proc[p]) = [proc[p] EXCEPT !.pc = "connect", !.token = p]
    BY <1>3, <1>4, AfterReady
  <2>2. Onwards(p, proc[p]) = rec
    BY <1>2, <1>a, <2>1 DEF Record
  <2>3. rec \in Record
    BY <1>a DEF Record, PCs
  <2>4. proc[p].found # "nothing"
    BY <1>1, <1>4 DEF Fit, Stack, StackPCs
  <2>5. OwnStack(p, rec)
    BY <1>1, <1>a, <2>4 DEF Fit, Stack, OwnStack, Minted, Booted, Listening, Holding, Registered, Complete, Record
  <2>6. Stack(p, rec)
    BY <1>1, <1>4, <1>a, <2>5 DEF Fit, Stack, PcsOf, StackPCs, Record
  <2>7. Handed(p, rec)
    BY <1>2, <1>4, <1>a DEF Handed, Record
  <2> QED
    BY <1>4, <2>2, <2>3, <2>6, <2>7 DEF Fit
<1>5. CASE Job[p].kind = "up"
  <2> DEFINE rec == [proc[p] EXCEPT !.pc = "up"]
  <2>1. Onwards(p, proc[p]) = rec
    BY <1>5, AfterReady
  <2>2. rec \in Record
    BY <1>a DEF Record, PCs
  <2>3. OwnStack(p, rec)
    BY <1>1, <1>a DEF Fit, Stack, OwnStack, Minted, Booted, Listening, Holding, Registered, Complete, Record
  <2>4. Stack(p, rec)
    BY <1>1, <1>5, <1>a, <2>3 DEF Fit, Stack, PcsOf, StackPCs, Record
  <2>5. Handed(p, rec)
    BY <1>2, <1>5, <1>a DEF Handed, Record
  <2> QED
    BY <1>5, <2>1, <2>2, <2>4, <2>5 DEF Fit
<1> QED
  BY <1>1, <1>4, <1>5

-----------------------------------------------------------------------------
(***************************************************************************)
(* Who answers, and whom it refuses.                                       *)
(***************************************************************************)

LEMMA TargetFacts ==
    ASSUME Types, NEW p \in Here
    PROVE  Target(p) # None
<1>1. CASE proc[p].bound # None
  BY <1>1 DEF Target
<1>2. CASE proc[p].bound = None /\ Job[p].kind = "tick"
  <2>1. Job[p].parent \in Here
    BY <1>2, JobFacts DEF Types
  <2>2. Address(Job[p].parent) # None
    BY <2>1, AddressFacts DEF Types
  <2> QED
    BY <1>2, <2>2 DEF Target
<1>3. CASE proc[p].bound = None /\ Job[p].kind # "tick"
  BY <1>3, JobFacts DEF Target, Types
<1> QED
  BY <1>1, <1>2, <1>3

LEMMA OneListens ==
    ASSUME Apart, NEW a, a # None, NEW q \in At(a)
    PROVE  At(a) = {q} /\ q \in Here /\ proc[q].bound = a
<1>1. \A r \in At(a) : r \in Here /\ proc[r].bound = a
  BY DEF At
<1>2. \A r \in At(a) : r = q
  BY <1>1 DEF Apart
<1> QED
  BY <1>1, <1>2

AskPCs == {"ready", "probe", "connect", "reach", "polls", "last", "turn"}

\* Who asks either has its computer or has nothing of one.
LEMMA Askers ==
    ASSUME Types, Fits, NEW p \in Here, proc[p].pc \in AskPCs
    PROVE  /\ Job[p].kind # "daemon"
           /\ proc[p].bound # None =>
                proc[p].bound = Address(p) /\ proc[p].admits = p /\ proc[p].token = p
           /\ proc[p].bound = None => proc[p].ours = None
<1>1. Fit(p, proc[p])
  BY DEF Fits
<1>2. Job[p].kind \in Kinds \ {"daemon"}
  BY <1>1, KindsOf, JobFacts DEF AskPCs, Types, Kinds
<1>3. OwnStack(p, proc[p])
  BY <1>1, <1>2 DEF Fit, Stack
<1>4. CASE Registered(proc[p])
  <2>1. Job[p].kind \in {"up", "run"}
    BY <1>1, <1>2, <1>4 DEF Registered, Complete, Fit, Stack, PcsOf, StackPCs, Kinds, AskPCs
  <2>2. proc[p].token = p
    BY <1>1, <1>4, <2>1 DEF Fit, Handed
  <2>3. Address(p) # None
    BY AddressFacts DEF Types
  <2> QED
    BY <1>2, <1>3, <1>4, <2>2, <2>3 DEF OwnStack, Booted, Listening, Holding
<1>5. CASE ~Registered(proc[p])
  <2>1. ~Minted(proc[p]) /\ ~Listening(proc[p])
    BY <1>5 DEF AskPCs, Minted, Booted, Listening, Holding, Registered
  <2> QED
    BY <1>2, <1>3, <2>1 DEF OwnStack
<1> QED
  BY <1>4, <1>5

\* A hub that serves admits the token it minted, or the one it found.
LEMMA Servers ==
    ASSUME Types, Fits, NEW q \in Here, proc[q].serves
    PROVE  /\ Job[q].kind \in {"up", "run"} => proc[q].admits = q /\ proc[q].ours = q
           /\ Job[q].kind \in {"up", "run", "daemon"}
           /\ proc[q].admits # None
<1>1. Fit(q, proc[q]) /\ Job[q].kind \in Kinds /\ q # None
  BY JobFacts DEF Fits, Types
<1>2. CASE Job[q].kind = "daemon"
  BY <1>1, <1>2 DEF Fit, Stack, DaemonStack
<1>3. CASE Job[q].kind # "daemon"
  <2>1. OwnStack(q, proc[q]) /\ Listening(proc[q])
    BY <1>1, <1>3 DEF Fit, Stack, OwnStack
  <2>2. Job[q].kind \in {"up", "run"}
    BY <1>1, <1>3, <2>1 DEF Fit, Stack, PcsOf, Kinds, StackPCs, Listening, Holding, Registered, Complete
  <2> QED
    BY <1>1, <2>1, <2>2 DEF OwnStack, Minted, Booted
<1> QED
  BY <1>2, <1>3

LEMMA Refusing ==
    ASSUME Types, Fits, Apart, Filed, Kin,
           NEW p \in Here, proc[p].pc \in AskPCs,
           NEW q \in At(Target(p)), proc[q].serves, ~Admits(q, proc[p].token)
    PROVE  /\ At(Target(p)) = {q} /\ q \in Here
           /\ p # q /\ ~(Job[p].kind = "tick" /\ Job[p].parent = q)
           /\ Job[p].home = Job[q].home /\ Job[p].env = None =>
                proc[p].token # Lookup(p, proc[p].pc) \/ q \in outdated
<1>1. At(Target(p)) = {q} /\ q \in Here /\ proc[q].bound = Target(p)
  BY TargetFacts, OneListens
<1>2. proc[q].admits # proc[p].token /\ proc[q].admits # Anyone
  BY DEF Admits
<1>3. proc[p].bound = None
  <2>1. SUFFICES ASSUME proc[p].bound # None PROVE FALSE
    OBVIOUS
  <2>2. p \in At(Target(p))
    BY <2>1 DEF Target, At
  <2>3. p = q
    BY <1>1, <2>2
  <2> QED
    BY <1>2, <2>1, <2>3, Askers
<1>4. p # q
  BY <1>1, <1>3, TargetFacts
<1>5. ~(Job[p].kind = "tick" /\ Job[p].parent = q)
  <2>1. SUFFICES ASSUME Job[p].kind = "tick", Job[p].parent = q PROVE FALSE
    OBVIOUS
  <2>2. Fit(p, proc[p]) /\ Job[q].kind = "up"
    BY <2>1, <1>1, JobFacts DEF Fits, Types
  <2>3. proc[p].pc = "connect"
    BY <2>1, <2>2, KindsOf DEF AskPCs, Types
  <2>4. proc[p].token = q
    BY <2>1, <2>2, <2>3 DEF Fit, Handed
  <2>5. proc[q].admits = q
    BY <1>1, <2>2, Servers
  <2> QED
    BY <1>2, <2>4, <2>5
<1>6. ASSUME Job[p].home = Job[q].home, Job[p].env = None, proc[p].token = Lookup(p, proc[p].pc), q \notin outdated
      PROVE  FALSE
  <2>1. proc[p].ours = None
    BY <1>3, Askers
  <2>2. Job[p].kind = "tick" => Env(p) = None
    <3>1. SUFFICES ASSUME Job[p].kind = "tick" PROVE Env(p) = None
      OBVIOUS
    <3>2. Job[p].parent \in Here /\ Job[p].parent # None /\ Job[Job[p].parent].kind = "up"
      BY <3>1, JobFacts DEF Types
    <3>3. Fit(Job[p].parent, proc[Job[p].parent]) /\ OwnStack(Job[p].parent, proc[Job[p].parent])
      BY <3>2 DEF Fits, Fit, Stack
    <3>4. CASE Runs(Job[p].parent)
      <4>1. Listening(proc[Job[p].parent])
        BY <3>1, <3>4 DEF Kin, AskPCs
      <4>2. proc[Job[p].parent].bound = Target(p)
        BY <1>3, <3>1, <3>3, <4>1 DEF OwnStack, Target
      <4>3. Job[p].parent = q
        BY <1>1, <3>2, <4>2 DEF At
      <4> QED
        BY <1>5, <3>1, <4>3
    <3>5. CASE ~Runs(Job[p].parent)
      <4>1. ~Minted(proc[Job[p].parent])
        BY <3>5 DEF Runs, Minted, Booted, Listening, Holding, Registered, Complete
      <4> QED
        BY <3>1, <3>3, <4>1 DEF Env, OwnStack
    <3> QED
      BY <3>4, <3>5
  <2>3. Env(p) = None
    BY <1>6, <2>2 DEF Env
  <2>4. proc[p].token = file[Job[q].home]
    BY <1>6, <2>1, <2>3 DEF Lookup, TokenAt, HubToken
  <2>5. Job[q].kind \in {"up", "run", "daemon"} /\ proc[q].admits # None
    BY <1>1, Servers
  <2>6. file[Job[q].home] = proc[q].admits
    BY <1>1, <1>2, <1>6, <2>5 DEF Filed
  <2> QED
    BY <1>2, <2>4, <2>6
<1> QED
  BY <1>1, <1>4, <1>5, <1>6

\* What an ask leaves behind: a refusal for a reason, or a mishap less.
LEMMA AskedKeeps ==
    ASSUME Types, Fits, Apart, Filed, Kin, OwnHubAdmits, RefusalsHaveAReason,
           refused \subseteq [by : Here, hub : Here, changed : BOOLEAN],
           NEW p \in Here, proc[p].pc \in AskPCs, NEW probe, NEW answer, Asked(p, probe, answer),
           mix' = mix, outdated' = outdated
    PROVE  /\ refused' \subseteq [by : Here', hub : Here', changed : BOOLEAN]
           /\ OwnHubAdmits' /\ RefusalsHaveAReason'
           /\ \/ Unspent /\ answer \in Answers(p, probe)
              \/ answer = "slow" /\ Spend("slow") /\ At(Target(p)) # {}
<1>1. Here' = Here
  BY DEF Here
<1>2. CASE refused' = refused
  BY <1>1, <1>2 DEF Asked, OwnHubAdmits, RefusalsHaveAReason
<1>3. CASE /\ answer = "refused" /\ answer \in Answers(p, probe) /\ Unspent
           /\ refused' = refused \cup {[by |-> p, hub |-> q, changed |-> proc[p].token # Lookup(p, proc[p].pc)] : q \in At(Target(p))}
  <2>1. PICK q \in At(Target(p)) : proc[q].serves /\ ~Admits(q, proc[p].token)
    BY <1>3 DEF Answers
  <2> DEFINE new == [by |-> p, hub |-> q, changed |-> proc[p].token # Lookup(p, proc[p].pc)]
  <2>2. /\ At(Target(p)) = {q} /\ q \in Here
        /\ p # q /\ ~(Job[p].kind = "tick" /\ Job[p].parent = q)
        /\ Job[p].home = Job[q].home /\ Job[p].env = None =>
             proc[p].token # Lookup(p, proc[p].pc) \/ q \in outdated
    BY <2>1, Refusing
  <2>3. refused' = refused \cup {new}
    BY <1>3, <2>2
  <2>4. new.by = p /\ new.hub = q /\ (new.changed <=> proc[p].token # Lookup(p, proc[p].pc))
        /\ new \in [by : Here, hub : Here, changed : BOOLEAN]
    BY <2>2
  <2> HIDE DEF new
  <2>5. OwnHubAdmits'
    BY <2>2, <2>3, <2>4 DEF OwnHubAdmits
  <2>6. RefusalsHaveAReason'
    BY <2>2, <2>3, <2>4 DEF RefusalsHaveAReason
  <2> QED
    BY <1>1, <1>3, <2>3, <2>4, <2>5, <2>6
<1> QED
  BY <1>2, <1>3 DEF Asked

-----------------------------------------------------------------------------
(***************************************************************************)
(* What becomes of the invariants when one process changes.                *)
(***************************************************************************)

LEMMA Spent ==
    ASSUME mix \in Mixes, Budgeted, mix' = mix, NEW what, Spend(what)
    PROVE  Budgeted' /\ budget' # mix.budget
<1>1. what \in DOMAIN mix.budget /\ budget[what] \in Nat /\ budget[what] > 0
      /\ budget' = [budget EXCEPT ![what] = budget[what] - 1]
  BY DEF Budgeted, Spend
<1>2. budget' \in [DOMAIN mix.budget -> Nat]
  BY <1>1 DEF Budgeted
<1>3. mix.budget \in [DOMAIN mix.budget -> Nat]
  BY ComputerAssumption
<1>4. budget'[what] = budget[what] - 1 /\ budget[what] <= mix.budget[what] /\ mix.budget[what] \in Nat
  BY <1>1, <1>3 DEF Budgeted
<1>5. budget'[what] < mix.budget[what]
  BY <1>1, <1>4
<1>6. budget' # mix.budget
  BY <1>1, <1>4, <1>5
<1>7. \A x \in DOMAIN mix.budget : budget'[x] <= mix.budget[x]
  <2> SUFFICES ASSUME NEW x \in DOMAIN mix.budget PROVE budget'[x] <= mix.budget[x]
    OBVIOUS
  <2>1. CASE x = what
    BY <2>1, <1>4, <1>5, <1>1
  <2>2. CASE x # what
    BY <2>2, <1>1 DEF Budgeted
  <2> QED
    BY <2>1, <2>2
<1> QED
  BY <1>2, <1>6, <1>7 DEF Budgeted

\* A step uses up a mishap, or none.
Spending == Unspent \/ \E what : Spend(what)

LEMMA BudgetKept ==
    ASSUME mix \in Mixes, Budgeted, mix' = mix, Spending
    PROVE  Budgeted' /\ (budget' = mix.budget => budget = mix.budget /\ Unspent)
<1>1. CASE Unspent
  BY <1>1 DEF Unspent, Budgeted
<1>2. CASE \E what : Spend(what)
  BY <1>2, Spent
<1> QED
  BY <1>1, <1>2 DEF Spending

\* What is undisturbed has been so all along.
LEMMA UndisturbedBefore ==
    ASSUME mix \in Mixes, Budgeted, mix' = mix, Spending, NEW w \in Here, Undisturbed(w)',
           \A q \in Here : proc[q].pc # "idle" => proc'[q].pc # "idle"
    PROVE  Undisturbed(w) /\ Unspent
<1>1. budget = mix.budget /\ Unspent
  BY BudgetKept DEF Undisturbed
<1> QED
  BY <1>1 DEF Undisturbed, Here

\* Then the only computer is the one the window starts.
LEMMA Alone ==
    ASSUME mix \in Mixes, Kin, NEW w \in Here, Undisturbed(w),
           NEW q \in Here, Job[q].kind \in {"up", "run", "daemon"}, q # Child(w)
    PROVE  proc[q].pc = "idle"
<1>1. Job[w].kind = "window" /\ q # w
  BY DEF Undisturbed
<1>2. CASE Job[q].parent = None
  BY <1>1, <1>2 DEF Undisturbed
<1>3. CASE Job[q].parent # None
  <2>1. Job[q].parent \in Here /\ Job[q].kind = "up" /\ Job[Job[q].parent].kind = "window"
    BY <1>3, JobFacts
  <2>2. Job[q].parent # w
    BY <1>1, <2>1, ChildFacts
  <2>3. Job[Job[q].parent].parent = None
    BY <2>1, ChildFacts
  <2>4. proc[Job[q].parent].pc = "idle"
    BY <2>1, <2>2, <2>3 DEF Undisturbed
  <2> QED
    BY <1>3, <2>4 DEF Kin
<1> QED
  BY <1>2, <1>3

\* It keeps what it had, or loses it.
Fades(old, new) ==
    /\ new.bound \in {old.bound, None} /\ new.ours \in {old.ours, None}
    /\ new.admits \in {old.admits, None} /\ (new.holds => old.holds)

LEMMA FadesKeep ==
    ASSUME mix \in Mixes, Apart, Filed, mix' = mix, file' = file, outdated' = outdated,
           \A q \in Here : Fades(proc[q], proc'[q])
    PROVE  Apart' /\ Filed'
<1>1. Here' = Here
  BY DEF Here
<1>2. Apart'
  <2> SUFFICES ASSUME NEW p \in Here, NEW q \in Here, p # q
               PROVE  /\ proc'[p].bound # None => proc'[p].bound # proc'[q].bound
                      /\ proc'[p].holds /\ proc'[q].holds => Place(p) # Place(q)
    BY <1>1 DEF Apart, Place
  <2>1. Fades(proc[p], proc'[p]) /\ Fades(proc[q], proc'[q])
    OBVIOUS
  <2> QED
    BY <2>1 DEF Fades, Apart
<1>3. Filed'
  BY <1>1 DEF Fades, Filed
<1> QED
  BY <1>2, <1>3

LEMMA OneFades ==
    ASSUME DOMAIN proc = Here, NEW p \in Here, NEW rec, Set(p, rec), Fades(proc[p], rec)
    PROVE  \A q \in Here : Fades(proc[q], proc'[q])
<1>1. ASSUME NEW q \in Here PROVE Fades(proc[q], proc'[q])
  <2>1. CASE q = p
    BY <2>1 DEF Set
  <2>2. CASE q # p
    BY <2>2 DEF Set, Fades
  <2> QED
    BY <2>1, <2>2
<1> QED
  BY <1>1

LEMMA OneFits ==
    ASSUME DOMAIN proc = Here, mix' = mix, Fits, NEW p \in Here, NEW rec, Set(p, rec), Fit(p, rec)
    PROVE  /\ DOMAIN proc' = Here' /\ Fits' /\ proc'[p] = rec
           /\ \A q \in Here \ {p} : proc'[q] = proc[q]
<1>1. Here' = Here
  BY DEF Here
<1>2. proc'[p] = rec /\ (\A q \in Here \ {p} : proc'[q] = proc[q]) /\ DOMAIN proc' = Here
  BY DEF Set
<1>3. ASSUME NEW q \in Here PROVE Fit(q, proc'[q])
  BY <1>2 DEF Fits
<1> QED
  BY <1>1, <1>2, <1>3 DEF Fits, Fit, Stack, Handed, OwnStack, DaemonStack, Address

\* What must be so of the new record of p for Kin to go on.
KinNext(p, rec) ==
    /\ proc[p].pc = "idle" /\ Job[p].parent # None =>
         Job[p].kind \in {"tick", "watch"} /\ proc[Job[p].parent].pc # "idle"
    /\ proc[p].pc = "idle" /\ Job[p].kind = "tick" => Listening(proc[Job[p].parent])
    /\ Job[p].kind = "up" /\ Listening(proc[p]) => Listening(rec) \/ rec.pc = "ended"
    /\ Job[p].kind = "window" =>
         /\ rec.pc = "reach" => proc[Child(p)].pc = "idle"
         /\ rec.pc \in {"last", "open", "turn"} /\ Runs(Child(p)) => rec.owns

LEMMA KinStep ==
    ASSUME mix \in Mixes, mix' = mix, Fits, Kin, DOMAIN proc = Here, NEW p \in Here, NEW rec, Set(p, rec),
           proc[p].pc # "ended", rec.pc # "idle", KinNext(p, rec)
    PROVE  Kin'
<1>1. Here' = Here
  BY DEF Here
<1>2. proc'[p] = rec /\ (\A q \in Here \ {p} : proc'[q] = proc[q])
  BY DEF Set
<1> SUFFICES ASSUME NEW q \in Here
             PROVE  /\ Job[q].parent # None /\ proc'[q].pc # "idle" => proc'[Job[q].parent].pc # "idle"
                    /\ Job[q].kind = "tick" /\ proc'[q].pc # "idle" /\ proc'[Job[q].parent].pc \notin {"idle", "ended"} =>
                         Listening(proc'[Job[q].parent])
                    /\ Job[q].kind = "window" =>
                         /\ proc'[q].pc \in {"idle", "reach"} => proc'[Child(q)].pc = "idle"
                         /\ proc'[q].pc \in {"last", "open", "turn"} /\ proc'[Child(q)].pc \notin {"idle", "ended"} => proc'[q].owns
  BY <1>1 DEF Kin, Runs, Listening, Holding, Registered, Complete, Child, Here
<1>3. \A x \in Here : proc[x].pc # "idle" => proc'[x].pc # "idle"
  BY <1>2
<1>4. Job[q].parent # None => Job[q].parent \in Here
  BY JobFacts
<1>5. Job[q].parent # None /\ proc'[q].pc # "idle" => proc'[Job[q].parent].pc # "idle"
  BY <1>2, <1>3, <1>4 DEF Kin, KinNext
<1>6. ASSUME Job[q].kind = "tick", proc'[q].pc # "idle", proc'[Job[q].parent].pc \notin {"idle", "ended"}
      PROVE  Listening(proc'[Job[q].parent])
  <2>1. Job[q].parent \in Here /\ Job[q].parent # None /\ Job[Job[q].parent].kind = "up" /\ Job[q].parent # q
    BY <1>6, JobFacts
  <2>2. CASE p = Job[q].parent
    <3>1. proc[q].pc # "idle"
      BY <1>2, <1>6, <2>1, <2>2
    <3>2. proc[p].pc # "idle"
      BY <2>1, <2>2, <3>1 DEF Kin
    <3>3. Listening(proc[p])
      BY <1>6, <2>2, <3>1, <3>2 DEF Kin, Runs
    <3> QED
      BY <1>2, <1>6, <2>1, <2>2, <3>3 DEF KinNext
  <2>3. CASE p = q
    <3>1. proc'[Job[q].parent] = proc[Job[q].parent]
      BY <1>2, <2>1, <2>3
    <3>2. CASE proc[q].pc = "idle"
      BY <1>6, <2>3, <3>1, <3>2 DEF KinNext
    <3>3. CASE proc[q].pc # "idle"
      BY <1>6, <3>1, <3>3 DEF Kin, Runs
    <3> QED
      BY <3>2, <3>3
  <2>4. CASE p # q /\ p # Job[q].parent
    BY <1>2, <1>6, <2>1, <2>4 DEF Kin, Runs
  <2> QED
    BY <2>2, <2>3, <2>4
<1>7. ASSUME Job[q].kind = "window"
      PROVE  /\ proc'[q].pc \in {"idle", "reach"} => proc'[Child(q)].pc = "idle"
             /\ proc'[q].pc \in {"last", "open", "turn"} /\ proc'[Child(q)].pc \notin {"idle", "ended"} => proc'[q].owns
  <2>1. Child(q) \in Here /\ Child(q) # q /\ Job[Child(q)].kind = "up" /\ Job[Child(q)].parent = q /\ q # None
    BY <1>7, ChildFacts, JobFacts
  <2>2. CASE p = q
    <3>1. proc'[Child(q)] = proc[Child(q)]
      BY <1>2, <2>1, <2>2
    <3> QED
      BY <1>2, <1>7, <2>2, <3>1 DEF KinNext, Runs
  <2>3. CASE p = Child(q)
    <3>1. proc'[q] = proc[q]
      BY <1>2, <2>1, <2>3
    <3>2. proc[p].pc # "idle"
      BY <2>1, <2>3 DEF KinNext
    <3> QED
      BY <1>7, <2>3, <3>1, <3>2 DEF Kin, Runs
  <2>4. CASE p # q /\ p # Child(q)
    BY <1>2, <1>7, <2>1, <2>4 DEF Kin, Runs
  <2> QED
    BY <2>2, <2>3, <2>4
<1> QED
  BY <1>5, <1>6, <1>7

\* What Quiet says of an undisturbed window whose record is rec, ...
WindowQuiet(w, rec) ==
    /\ rec.pc \in {"poll", "polls"} => Runs(Child(w))
    /\ rec.pc = "polls" /\ rec.found = "complete" => proc[Child(w)].pc = "up" /\ rec.token = Child(w)
    /\ rec.pc = "last" => Registered(proc[Child(w)]) /\ rec.token = Child(w)
    /\ rec.pc \in {"open", "turn"} => rec.told = "serving"

\* ... and of the computer it started, when that goes on to rec.
ChildQuiet(p, rec) ==
    /\ rec.pc # "ended"
    /\ proc[p].pc = "up" => rec.pc = "up"
    /\ Registered(proc[p]) => Registered(rec)
    /\ rec.ours # None => file'[Job[p].home] = p

\* What must be so of the new record of p for Quiet to go on.
QuietNext(p, rec) ==
    /\ Job[p].kind = "window" /\ Undisturbed(p) /\ Unspent => WindowQuiet(p, rec)
    /\ \A w \in Here : Job[w].kind = "window" /\ Undisturbed(w) /\ Unspent /\ p = Child(w)
         => ChildQuiet(p, rec)

LEMMA QuietStep ==
    ASSUME mix \in Mixes, mix' = mix, Budgeted, Spending, Kin, Quiet, DOMAIN proc = Here,
           NEW p \in Here, NEW rec, Set(p, rec), proc[p].pc # "ended", rec.pc # "idle",
           file' = file \/ (Job[p].kind \in {"up", "run"} /\ proc[p].pc # "idle"),
           QuietNext(p, rec)
    PROVE  Quiet'
<1>1. Here' = Here
  BY DEF Here
<1>2. proc'[p] = rec /\ (\A q \in Here \ {p} : proc'[q] = proc[q])
  BY DEF Set
<1>3. \A x \in Here : proc[x].pc # "idle" => proc'[x].pc # "idle"
  BY <1>2
<1> SUFFICES ASSUME NEW w \in Here, Undisturbed(w)'
             PROVE  /\ proc'[w].pc \in {"poll", "polls"} => proc'[Child(w)].pc \notin {"idle", "ended"}
                    /\ proc'[w].pc = "polls" /\ proc'[w].found = "complete" =>
                         proc'[Child(w)].pc = "up" /\ proc'[w].token = Child(w)
                    /\ proc'[w].pc = "last" => Registered(proc'[Child(w)]) /\ proc'[w].token = Child(w)
                    /\ proc'[w].pc \in {"open", "turn"} => proc'[w].told = "serving"
                    /\ proc'[Child(w)].ours # None => file'[Job[w].home] = Child(w)
  BY <1>1 DEF Quiet, Runs, Registered, Complete, Child, Here
<1>4. Undisturbed(w) /\ Unspent
  BY <1>3, UndisturbedBefore
<1>5. Job[w].kind = "window"
  BY <1>4 DEF Undisturbed
<1>6. /\ Child(w) \in Here /\ Child(w) # w /\ Job[Child(w)].kind = "up" /\ Job[Child(w)].parent = w
      /\ Job[Child(w)].home = Job[w].home
  BY <1>5, ChildFacts
<1>7. WindowQuiet(w, proc[w]) /\ (proc[Child(w)].ours # None => file[Job[w].home] = Child(w))
  BY <1>4 DEF Quiet, WindowQuiet
<1>8. CASE p = w
  <2>1. proc'[w] = rec /\ proc'[Child(w)] = proc[Child(w)]
    BY <1>2, <1>6, <1>8
  <2>2. file' = file
    BY <1>5, <1>8
  <2>3. WindowQuiet(w, rec)
    BY <1>4, <1>5, <1>8 DEF QuietNext
  <2> QED
    BY <1>7, <2>1, <2>2, <2>3 DEF WindowQuiet, Runs
<1>9. CASE p = Child(w)
  <2>1. proc'[w] = proc[w] /\ proc'[Child(w)] = rec
    BY <1>2, <1>6, <1>9
  <2>2. ChildQuiet(p, rec)
    BY <1>4, <1>5, <1>9 DEF QuietNext
  <2>3. rec.pc \notin {"idle", "ended"}
    BY <2>2 DEF ChildQuiet
  <2>4. proc'[w].pc = "polls" /\ proc'[w].found = "complete" => rec.pc = "up" /\ proc'[w].token = Child(w)
    BY <1>7, <1>9, <2>1, <2>2 DEF WindowQuiet, ChildQuiet
  <2>5. proc'[w].pc = "last" => Registered(rec) /\ proc'[w].token = Child(w)
    BY <1>7, <1>9, <2>1, <2>2 DEF WindowQuiet, ChildQuiet
  <2>6. proc'[w].pc \in {"open", "turn"} => proc'[w].told = "serving"
    BY <1>7, <2>1 DEF WindowQuiet
  <2>7. rec.ours # None => file'[Job[w].home] = Child(w)
    BY <1>6, <1>9, <2>2 DEF ChildQuiet
  <2> QED
    BY <2>1, <2>3, <2>4, <2>5, <2>6, <2>7
<1>10. CASE p # w /\ p # Child(w)
  <2>1. proc'[w] = proc[w] /\ proc'[Child(w)] = proc[Child(w)]
    BY <1>2, <1>6, <1>10
  <2>2. file' = file
    BY <1>4, <1>10, Alone
  <2> QED
    BY <1>7, <2>1, <2>2 DEF WindowQuiet, Runs
<1> QED
  BY <1>8, <1>9, <1>10

RefusalsKept ==
    refused' \subseteq [by : Here', hub : Here', changed : BOOLEAN] /\ OwnHubAdmits' /\ RefusalsHaveAReason'

LEMMA SameRefusals ==
    ASSUME MachineInv, mix' = mix, refused' = refused, outdated \subseteq outdated'
    PROVE  RefusalsKept
  BY DEF MachineInv, RefusalsKept, Here, OwnHubAdmits, RefusalsHaveAReason

\* One process changes, and what it has it had before.
LEMMA FadingStep ==
    ASSUME MachineInv, mix' = mix, file' = file, outdated' = outdated, Spending, RefusalsKept,
           NEW p \in Here, NEW rec, Set(p, rec), Fit(p, rec), Fades(proc[p], rec),
           proc[p].pc # "ended", rec.pc # "idle", KinNext(p, rec), QuietNext(p, rec)
    PROVE  MachineInv'
<1>1. Types /\ Fits /\ Apart /\ Filed /\ Kin /\ Quiet /\ Budgeted /\ mix \in Mixes /\ DOMAIN proc = Here
  BY DEF MachineInv, Types
<1>2. DOMAIN proc' = Here' /\ Fits'
  BY <1>1, OneFits
<1>3. Types'
  BY <1>1, <1>2 DEF Types
<1>4. Apart' /\ Filed'
  <2>1. \A q \in Here : Fades(proc[q], proc'[q])
    BY <1>1, OneFades
  <2> QED
    BY <1>1, <2>1, FadesKeep
<1>5. Kin'
  BY <1>1, KinStep
<1>6. Quiet'
  BY <1>1, QuietStep
<1>7. Budgeted'
  BY <1>1, BudgetKept
<1>8. outdated' \subseteq Here'
  BY DEF MachineInv, Here
<1> QED
  BY <1>2, <1>3, <1>4, <1>5, <1>6, <1>7, <1>8 DEF MachineInv, RefusalsKept

-----------------------------------------------------------------------------
(***************************************************************************)
(* The steps, one by one.                                                  *)
(***************************************************************************)

LEMMA AskingIs ==
    ASSUME Types, Fits, NEW p \in Here, NEW pc
    PROVE  LET rec == Asking(p, pc)
           IN /\ rec.pc = pc /\ rec.token = Lookup(p, pc) /\ rec.found = proc[p].found
              /\ rec.ours = proc[p].ours /\ rec.admits = proc[p].admits /\ rec.bound = proc[p].bound
              /\ rec.serves = proc[p].serves /\ rec.holds = proc[p].holds /\ rec.guest = proc[p].guest
              /\ rec.told = proc[p].told /\ rec.owns = proc[p].owns
              /\ Fades(proc[p], rec)
<1>1. proc[p] \in Record
  BY DEF Fits, Fit
<1> QED
  BY <1>1 DEF Asking, Record, Fades

\* Without disturbance nobody else listens or holds anything.
LEMMA AloneBare ==
    ASSUME Types, Fits, Kin, NEW w \in Here, Undisturbed(w), NEW q \in Here, q # Child(w)
    PROVE  proc[q].bound = None /\ ~proc[q].holds
<1>1. Fit(q, proc[q]) /\ mix \in Mixes /\ Job[q].kind \in Kinds
  BY JobFacts DEF Fits, Types
<1>2. CASE Job[q].kind = "daemon"
  <2>1. proc[q].pc = "idle"
    BY <1>1, <1>2, Alone
  <2> QED
    BY <1>1, <1>2, <2>1 DEF Fit, Stack, DaemonStack
<1>3. CASE Job[q].kind \in {"up", "run"}
  <2>1. proc[q].pc = "idle"
    BY <1>1, <1>3, Alone
  <2>2. ~Listening(proc[q]) /\ ~Holding(proc[q])
    BY <2>1 DEF Listening, Holding, Registered, Complete
  <2> QED
    BY <1>1, <1>3, <2>2 DEF Fit, Stack, OwnStack
<1>4. CASE Job[q].kind \notin {"daemon", "up", "run"}
  <2>1. ~Listening(proc[q]) /\ ~Holding(proc[q])
    BY <1>1, <1>4 DEF Fit, Stack, PcsOf, StackPCs, Listening, Holding, Registered, Complete, Kinds
  <2> QED
    BY <1>1, <1>4, <2>1 DEF Fit, Stack, OwnStack
<1> QED
  BY <1>2, <1>3, <1>4

\* A process ends.
LEMMA EndStep ==
    ASSUME MachineInv, mix' = mix, file' = file, outdated' = outdated, Spending, RefusalsKept,
           NEW p \in Here, NEW told \in Tolds, Set(p, Ended(p, told)), Runs(p),
           \A w \in Here : Job[w].kind = "window" /\ Undisturbed(w) /\ Unspent => p # Child(w)
    PROVE  MachineInv'
<1> DEFINE rec == Ended(p, told)
<1>1. Fit(p, proc[p]) /\ mix \in Mixes
  BY DEF MachineInv, Fits, Types
<1>2. /\ Fit(p, rec) /\ rec.pc = "ended" /\ rec.bound = None /\ rec.ours = None
      /\ rec.admits = None /\ rec.holds = FALSE
  BY <1>1, EndedFits
<1> HIDE DEF rec
<1>3. Set(p, rec)
  BY DEF rec
<1>4. Fades(proc[p], rec)
  BY <1>2 DEF Fades
<1>5. KinNext(p, rec)
  BY <1>2 DEF KinNext, Runs
<1>6. QuietNext(p, rec)
  BY <1>2 DEF QuietNext, WindowQuiet
<1> QED
  BY <1>2, <1>3, <1>4, <1>5, <1>6, FadingStep DEF Runs

\* The daemons and the runs are nobody's children, the windows neither.
LEMMA ChildKind ==
    ASSUME mix \in Mixes, NEW w \in Here, Job[w].kind = "window"
    PROVE  Job[Child(w)].kind = "up" /\ Job[Child(w)].parent # None /\ Job[Child(w)].parent = w
  BY ChildFacts, JobFacts

LEMMA StartKeeps ==
    ASSUME MachineInv, mix' = mix, NEW p \in Here, Start(p)
    PROVE  MachineInv'
<1> DEFINE rec == Opening(p)
<1>1. /\ Types /\ Fits /\ Kin /\ Fit(p, proc[p]) /\ mix \in Mixes /\ proc[p] \in Record
      /\ Job[p].kind \in Kinds
  BY JobFacts DEF MachineInv, Fits, Types, Fit
<1>2. proc[p].pc = "idle" /\ Job[p].parent = None /\ Set(p, rec)
      /\ Unspent /\ file' = file /\ refused' = refused /\ outdated' = outdated
  BY DEF Start, Unspent
<1>3. ~Minted(proc[p]) /\ proc[p].found = "nothing" /\ Job[p].kind \notin {"tick", "watch"}
  BY <1>1, <1>2, Bare, JobFacts DEF Fit, Stack
<1>4. Fit(p, rec) /\ Fades(proc[p], rec) /\ rec.pc # "idle"
      /\ (Job[p].kind = "window" => rec.pc = "reach")
  <2>1. CASE Job[p].kind = "up"
    <3>1. Begun(p) = [proc[p] EXCEPT !.pc = "check"] /\ rec = Begun(p)
      BY <2>1 DEF Begun, Order, Opening
    <3>2. [proc[p] EXCEPT !.pc = "check"] \in Record
      BY <1>1 DEF Record, PCs
    <3>3. ~Minted([proc[p] EXCEPT !.pc = "check"])
      BY <1>1 DEF Minted, Booted, Listening, Holding, Registered, Complete, Record
    <3>4. Fit(p, [proc[p] EXCEPT !.pc = "check"])
      BY <1>1, <1>3, <2>1, <3>2, <3>3, BareMove DEF Record, PcsOf, StackPCs
    <3> QED
      BY <1>1, <2>1, <3>1, <3>4 DEF Fades, Record
  <2>2. CASE Job[p].kind = "daemon"
    <3>1. Begun(p) = [proc[p] EXCEPT !.pc = "bind"] /\ rec = Begun(p)
      BY <2>2 DEF Begun, Order, Opening
    <3>2. [proc[p] EXCEPT !.pc = "bind"] \in Record
      BY <1>1 DEF Record, PCs
    <3>3. DaemonStack(p, [proc[p] EXCEPT !.pc = "bind"])
      BY <1>1, <1>2, <2>2 DEF Fit, Stack, DaemonStack, Record
    <3>4. Fit(p, [proc[p] EXCEPT !.pc = "bind"])
      BY <1>1, <1>3, <2>2, <3>2, <3>3 DEF Fit, Stack, Handed, Record, PcsOf, StackPCs
    <3> QED
      BY <1>1, <2>2, <3>1, <3>4 DEF Fades, Record
  <2>3. CASE Job[p].kind = "run"
    <3>1. rec = Asking(p, "probe")
      BY <2>3 DEF Opening
    <3>2. Fit(p, Asking(p, "probe"))
      BY <1>1, <1>3, <2>3, AskingFits DEF PcsOf
    <3> QED
      BY <1>1, <2>3, <3>1, <3>2, AskingIs
  <2>4. CASE Job[p].kind = "window"
    <3>1. rec = Asking(p, "reach")
      BY <2>4 DEF Opening
    <3>2. Fit(p, Asking(p, "reach"))
      BY <1>1, <1>3, <2>4, AskingFits DEF PcsOf
    <3> QED
      BY <1>1, <2>4, <3>1, <3>2, AskingIs
  <2>5. CASE Job[p].kind = "client"
    <3>1. rec = Asking(p, "connect")
      BY <2>5 DEF Opening
    <3>2. Fit(p, Asking(p, "connect"))
      BY <1>1, <1>3, <2>5, AskingFits DEF PcsOf
    <3> QED
      BY <1>1, <2>5, <3>1, <3>2, AskingIs
  <2> QED
    BY <1>1, <1>3, <2>1, <2>2, <2>3, <2>4, <2>5 DEF Kinds
<1> HIDE DEF rec
<1>5. KinNext(p, rec)
  <2>1. ~Listening(proc[p])
    BY <1>3 DEF Minted, Booted
  <2>2. Job[p].kind = "window" => proc[Child(p)].pc = "idle"
    BY <1>1, <1>2 DEF Kin
  <2> QED
    BY <1>2, <1>3, <1>4, <2>1, <2>2 DEF KinNext
<1>6. QuietNext(p, rec)
  <2>1. \A w \in Here : Job[w].kind = "window" => p # Child(w)
    BY <1>1, <1>2, ChildKind
  <2> QED
    BY <1>4, <2>1 DEF QuietNext, WindowQuiet
<1>7. RefusalsKept
  BY <1>2, SameRefusals
<1> QED
  BY <1>2, <1>4, <1>5, <1>6, <1>7, FadingStep DEF Spending

LEMMA TickKeeps ==
    ASSUME MachineInv, mix' = mix, NEW p \in Here, Tick(p)
    PROVE  MachineInv'
<1> DEFINE rec == Asking(p, "connect")
<1>1. /\ Types /\ Fits /\ Kin /\ Fit(p, proc[p]) /\ mix \in Mixes
  BY DEF MachineInv, Fits, Types
<1>2. /\ proc[p].pc = "idle" /\ Job[p].kind = "tick" /\ Set(p, rec)
      /\ proc[Job[p].parent].pc \in {"hold", "guest", "ready", "up"}
      /\ Unspent /\ file' = file /\ refused' = refused /\ outdated' = outdated
  BY DEF Tick, Opening, Unspent
<1>3. ~Minted(proc[p]) /\ proc[p].found = "nothing"
  BY <1>1, <1>2, Bare DEF Fit, Stack
<1>4. Fit(p, rec) /\ Fades(proc[p], rec) /\ rec.pc = "connect"
  BY <1>1, <1>2, <1>3, AskingFits, AskingIs DEF PcsOf
<1> HIDE DEF rec
<1>5. KinNext(p, rec)
  <2>1. Listening(proc[Job[p].parent])
    BY <1>2 DEF Listening, Holding, Registered, Complete
  <2> QED
    BY <1>2, <2>1 DEF KinNext
<1>6. QuietNext(p, rec)
  <2>1. \A w \in Here : Job[w].kind = "window" => p # Child(w)
    BY <1>1, <1>2, ChildKind
  <2> QED
    BY <1>2, <2>1 DEF QuietNext
<1>7. RefusalsKept
  BY <1>2, SameRefusals
<1> QED
  BY <1>2, <1>4, <1>5, <1>6, <1>7, FadingStep DEF Spending

\* One process changes, and may get what nobody has.
LEMMA GainingStep ==
    ASSUME MachineInv, mix' = mix, Spending, RefusalsKept, outdated' \subseteq Here,
           file' \in [Homes -> Tokens],
           NEW p \in Here, NEW rec, Set(p, rec), Fit(p, rec),
           file' = file \/ (Job[p].kind \in {"up", "run"} /\ proc[p].pc # "idle"),
           proc[p].pc # "ended", rec.pc # "idle", KinNext(p, rec), QuietNext(p, rec),
           Apart', Filed'
    PROVE  MachineInv'
<1>1. Types /\ Fits /\ Kin /\ Quiet /\ Budgeted /\ mix \in Mixes /\ DOMAIN proc = Here
  BY DEF MachineInv, Types
<1>2. DOMAIN proc' = Here' /\ Fits'
  BY <1>1, OneFits
<1>3. Types'
  BY <1>1, <1>2 DEF Types
<1>4. Kin'
  BY <1>1, KinStep
<1>5. Quiet'
  BY <1>1, QuietStep
<1>6. Budgeted'
  BY <1>1, BudgetKept
<1>7. outdated' \subseteq Here'
  BY DEF Here
<1> QED
  BY <1>2, <1>3, <1>4, <1>5, <1>6, <1>7 DEF MachineInv, RefusalsKept

\* Nothing comes in the way of the computer an undisturbed window starts.
LEMMA ChildGoesOn ==
    ASSUME MachineInv, NEW w \in Here, Undisturbed(w)
    PROVE  LET c == Child(w)
           IN /\ c \in Here /\ Sound(c) /\ Job[c].home \notin mix.broken /\ ~Taken(c)
              /\ proc[c].bound = None => At(Address(c)) = {}
              /\ At(Address(c)) \subseteq {c}
              /\ proc[c].ours # None => file[Job[c].home] = c
              /\ Job[c].kind = "up" /\ Job[c].parent # None
<1>1. Types /\ Fits /\ Kin /\ Quiet /\ mix \in Mixes /\ Job[w].kind = "window"
  BY DEF MachineInv, Types, Undisturbed
<1>2. /\ Child(w) \in Here /\ Job[Child(w)].kind = "up" /\ Job[Child(w)].parent # None
      /\ Job[Child(w)].home = Job[w].home /\ Job[Child(w)].workspace = None
  BY <1>1, ChildFacts, JobFacts
<1>3. \A q \in Here \ {Child(w)} : proc[q].bound = None /\ ~proc[q].holds
  BY <1>1, AloneBare
<1>4. Address(Child(w)) # None
  BY <1>1, <1>2, AddressFacts
<1>5. At(Address(Child(w))) \subseteq {Child(w)}
  BY <1>3, <1>4 DEF At
<1>6. proc[Child(w)].bound = None => At(Address(Child(w))) = {}
  BY <1>4, <1>5 DEF At
<1>7. Sound(Child(w)) /\ ~Taken(Child(w))
  BY <1>2, <1>3 DEF Sound, Taken
<1>8. Job[Child(w)].home \notin mix.broken
  BY DEF Undisturbed
<1>9. proc[Child(w)].ours # None => file[Job[Child(w)].home] = Child(w)
  BY <1>1, <1>2 DEF Quiet
<1> QED
  BY <1>2, <1>5, <1>6, <1>7, <1>8, <1>9

\* A step of a start has no window in it, and the start of a computer is well under way.
LEMMA StackSteps ==
    ASSUME MachineInv, NEW p \in Here, proc[p].pc \in StackPCs \cup {"admission"}
    PROVE  /\ Types /\ Fits /\ Fit(p, proc[p]) /\ proc[p] \in Record /\ mix \in Mixes
           /\ Job[p].kind \in {"up", "run", "daemon"} /\ p \in Procs /\ p # None /\ p # Anyone
           /\ Runs(p) /\ proc[p].pc \notin {"idle", "ended", "up"}
           /\ Job[p].home \in Homes
<1>1. Types /\ Fits /\ Fit(p, proc[p]) /\ mix \in Mixes /\ proc[p] \in Record
  BY DEF MachineInv, Fits, Types, Fit
<1>2. Job[p].kind \in {"up", "run", "daemon"}
  BY <1>1, KindsOf DEF StackPCs
<1> QED
  BY <1>1, <1>2, JobFacts DEF StackPCs, Runs

LEMMA CheckKeeps ==
    ASSUME MachineInv, mix' = mix, NEW p \in Here, Check(p), UNCHANGED <<budget, refused>>
    PROVE  MachineInv'
<1>1. proc[p].pc = "check" /\ file' = file /\ outdated' = outdated /\ Unspent
      /\ Advance(p, Sound(p), proc[p])
  BY DEF Check, Unspent
<1>2. /\ Types /\ Fits /\ Fit(p, proc[p]) /\ proc[p] \in Record /\ mix \in Mixes
      /\ Job[p].kind \in {"up", "run", "daemon"} /\ Runs(p)
  BY <1>1, StackSteps DEF StackPCs
<1>3. RefusalsKept
  BY <1>1, SameRefusals
<1>4. CASE ~Sound(p)
  <2>1. Set(p, Ended(p, "failed"))
    BY <1>1, <1>4 DEF Advance
  <2>2. \A w \in Here : Job[w].kind = "window" /\ Undisturbed(w) => p # Child(w)
    BY <1>4, ChildGoesOn
  <2> QED
    BY <1>1, <1>2, <1>3, <2>1, <2>2, EndStep DEF Spending, Tolds
<1>5. CASE Sound(p)
  <2> DEFINE rec == [proc[p] EXCEPT !.pc = "token"]
  <2>1. Set(p, rec) /\ Fit(p, rec)
    BY <1>1, <1>2, <1>5, CheckedFits DEF Advance
  <2>2. /\ rec.pc = "token" /\ rec.ours = proc[p].ours /\ Fades(proc[p], rec)
        /\ ~Registered(proc[p]) /\ ~Listening(proc[p])
    BY <1>1, <1>2 DEF Record, Fades, Registered, Complete, Listening, Holding
  <2> HIDE DEF rec
  <2>3. KinNext(p, rec)
    BY <1>1, <1>2, <2>2 DEF KinNext
  <2>4. QuietNext(p, rec)
    BY <1>1, <1>2, <2>2, ChildGoesOn DEF QuietNext, ChildQuiet, WindowQuiet
  <2> QED
    BY <1>1, <1>3, <2>1, <2>2, <2>3, <2>4, FadingStep DEF Spending
<1> QED
  BY <1>4, <1>5

LEMMA WriteTokenKeeps ==
    ASSUME MachineInv, mix' = mix, NEW p \in Here, WriteToken(p), UNCHANGED <<budget, refused>>
    PROVE  MachineInv'
<1> DEFINE rec == [proc[p] EXCEPT !.ours = p, !.pc = "boot"]
<1>1. /\ proc[p].pc = "token" /\ Unspent
      /\ file' = [file EXCEPT ![Job[p].home] = p]
      /\ outdated' = outdated \cup {q \in Here \ {p} : Job[q].home = Job[p].home
                                                      /\ (proc[q].ours # None \/ proc[q].admits # None)}
      /\ Set(p, Onwards(p, [proc[p] EXCEPT !.ours = p]))
  BY DEF WriteToken, Unspent
<1>2. /\ Types /\ Fits /\ Fit(p, proc[p]) /\ proc[p] \in Record /\ mix \in Mixes
      /\ Job[p].kind \in {"up", "run"} /\ Runs(p) /\ Job[p].home \in Homes /\ p \in Procs
      /\ Apart /\ Filed
  BY <1>1, StackSteps, KindsOf DEF StackPCs, MachineInv
<1>3. RefusalsKept
  BY <1>1, SameRefusals
<1>4. Set(p, rec) /\ Fit(p, rec)
  BY <1>1, <1>2, MintedFits
<1>5. /\ rec.pc = "boot" /\ rec.ours = p /\ rec.bound = proc[p].bound /\ rec.holds = proc[p].holds
      /\ rec.admits = proc[p].admits
      /\ ~Registered(proc[p]) /\ ~Listening(proc[p]) /\ ~Booted(proc[p])
  BY <1>1, <1>2 DEF Record, Registered, Complete, Listening, Holding, Booted
<1>6. proc[p].admits = None
  BY <1>2, <1>5 DEF Fit, Stack, OwnStack
<1> HIDE DEF rec
<1>7. proc'[p] = rec /\ (\A q \in Here \ {p} : proc'[q] = proc[q]) /\ Here' = Here
  BY <1>2, <1>4 DEF Set, Types, Here
<1>8. KinNext(p, rec)
  BY <1>1, <1>2, <1>5 DEF KinNext
<1>9. QuietNext(p, rec)
  <2>1. file'[Job[p].home] = p
    BY <1>1, <1>2 DEF Types
  <2> QED
    BY <1>1, <1>2, <1>5, <2>1 DEF QuietNext, ChildQuiet, WindowQuiet
<1>10. Apart'
  <2> SUFFICES ASSUME NEW a \in Here, NEW b \in Here, a # b
               PROVE  /\ proc'[a].bound # None => proc'[a].bound # proc'[b].bound
                      /\ proc'[a].holds /\ proc'[b].holds => Place(a) # Place(b)
    BY <1>7 DEF Apart, Place
  <2>1. \A q \in Here : proc'[q].bound = proc[q].bound /\ proc'[q].holds = proc[q].holds
    BY <1>5, <1>7
  <2> QED
    BY <1>2, <2>1 DEF Apart
<1>11. Filed'
  <2> SUFFICES ASSUME NEW q \in Here, q \notin outdated'
               PROVE  /\ proc'[q].ours # None => file'[Job[q].home] = q
                      /\ proc'[q].admits \notin {None, Anyone} => file'[Job[q].home] = proc'[q].admits
    BY <1>7 DEF Filed
  <2>1. q \notin outdated
    BY <1>1
  <2>2. CASE q = p
    BY <1>1, <1>2, <1>5, <1>6, <1>7, <2>2 DEF Types
  <2>3. CASE q # p /\ Job[q].home # Job[p].home
    BY <1>1, <1>2, <1>7, <2>1, <2>3 DEF Types, Filed
  <2>4. CASE q # p /\ Job[q].home = Job[p].home
    BY <1>1, <1>7, <2>4
  <2> QED
    BY <2>2, <2>3, <2>4
<1>12. outdated' \subseteq Here /\ file' \in [Homes -> Tokens]
  BY <1>1, <1>2 DEF MachineInv, Types, Tokens
<1> QED
  BY <1>1, <1>2, <1>3, <1>4, <1>5, <1>8, <1>9, <1>10, <1>11, <1>12, GainingStep DEF Spending

\* A start that fails, and not because of a computer nobody disturbs.
LEMMA FailedStart ==
    ASSUME MachineInv, mix' = mix, NEW p \in Here, proc[p].pc \in StackPCs \cup {"admission"},
           Set(p, Ended(p, "failed")), Spending, RefusalsKept, file' = file, outdated' = outdated,
           \A w \in Here : Job[w].kind = "window" /\ Undisturbed(w) /\ Unspent => p # Child(w)
    PROVE  MachineInv'
  BY StackSteps, EndStep DEF Tolds

\* A step of a start that goes on, changing neither its address nor its place.
LEMMA StartStep ==
    ASSUME MachineInv, mix' = mix, NEW p \in Here, NEW rec,
           proc[p].pc \in StackPCs \cup {"admission"}, Set(p, rec), Fit(p, rec),
           Spending, RefusalsKept, file' = file, outdated' = outdated,
           rec.pc \notin {"idle", "ended"}, Job[p].kind \notin {"window"},
           Listening(proc[p]) => Listening(rec), Registered(proc[p]) => Registered(rec),
           rec.ours = proc[p].ours,
           Apart', Filed'
    PROVE  MachineInv'
<1>1. /\ Types /\ Runs(p) /\ proc[p].pc \notin {"idle", "ended", "up"} /\ mix \in Mixes
      /\ file' \in [Homes -> Tokens] /\ outdated' \subseteq Here
  BY StackSteps DEF MachineInv, Types
<1>2. KinNext(p, rec)
  BY <1>1 DEF KinNext
<1>3. QuietNext(p, rec)
  BY <1>1, ChildGoesOn DEF QuietNext, ChildQuiet
<1> QED
  BY <1>1, <1>2, <1>3, GainingStep

LEMMA BootKeeps ==
    ASSUME MachineInv, mix' = mix, NEW p \in Here, Boot(p), UNCHANGED <<budget, refused>>
    PROVE  MachineInv'
<1>1. /\ proc[p].pc = "boot" /\ file' = file /\ outdated' = outdated /\ Unspent
      /\ Advance(p, Job[p].home \notin mix.broken, [proc[p] EXCEPT !.admits = p])
  BY DEF Boot, Unspent
<1>2. /\ Types /\ Fits /\ Fit(p, proc[p]) /\ proc[p] \in Record /\ mix \in Mixes
      /\ Job[p].kind \in {"up", "run"} /\ p # None /\ Apart /\ Filed
  BY <1>1, StackSteps, KindsOf DEF StackPCs, MachineInv
<1>3. RefusalsKept
  BY <1>1, SameRefusals
<1>4. CASE Job[p].home \in mix.broken
  <2>1. Set(p, Ended(p, "failed"))
    BY <1>1, <1>4 DEF Advance
  <2>2. \A w \in Here : Job[w].kind = "window" /\ Undisturbed(w) => p # Child(w)
    BY <1>4, ChildGoesOn
  <2> QED
    BY <1>1, <1>3, <2>1, <2>2, FailedStart DEF Spending, StackPCs
<1>5. CASE Job[p].home \notin mix.broken
  <2> DEFINE rec == [proc[p] EXCEPT !.admits = p, !.pc = "bind"]
  <2>1. Set(p, rec) /\ Fit(p, rec)
    BY <1>1, <1>2, <1>5, BootedFits DEF Advance
  <2>2. /\ rec.pc = "bind" /\ rec.ours = proc[p].ours /\ rec.admits = p /\ rec.bound = proc[p].bound
        /\ rec.holds = proc[p].holds /\ ~Registered(proc[p]) /\ ~Listening(proc[p])
    BY <1>1, <1>2 DEF Record, Registered, Complete, Listening, Holding
  <2>3. proc[p].ours = p
    BY <1>1, <1>2 DEF Fit, Stack, OwnStack, Minted
  <2> HIDE DEF rec
  <2>4. proc'[p] = rec /\ (\A q \in Here \ {p} : proc'[q] = proc[q]) /\ Here' = Here
    BY <1>2, <2>1 DEF Set, Types, Here
  <2>5. Apart'
    <3> SUFFICES ASSUME NEW a \in Here, NEW b \in Here, a # b
                 PROVE  /\ proc'[a].bound # None => proc'[a].bound # proc'[b].bound
                        /\ proc'[a].holds /\ proc'[b].holds => Place(a) # Place(b)
      BY <2>4 DEF Apart, Place
    <3>1. \A q \in Here : proc'[q].bound = proc[q].bound /\ proc'[q].holds = proc[q].holds
      BY <2>2, <2>4
    <3> QED
      BY <1>2, <3>1 DEF Apart
  <2>6. Filed'
    <3> SUFFICES ASSUME NEW q \in Here, q \notin outdated
                 PROVE  /\ proc'[q].ours # None => file[Job[q].home] = q
                        /\ proc'[q].admits \notin {None, Anyone} => file[Job[q].home] = proc'[q].admits
      BY <1>1, <2>4 DEF Filed
    <3>1. CASE q = p
      BY <1>2, <2>2, <2>3, <2>4, <3>1 DEF Filed
    <3>2. CASE q # p
      BY <1>2, <2>4, <3>2 DEF Filed
    <3> QED
      BY <3>1, <3>2
  <2> QED
    BY <1>1, <1>2, <1>3, <2>1, <2>2, <2>5, <2>6, StartStep DEF Spending, StackPCs
<1> QED
  BY <1>4, <1>5

LEMMA BindKeeps ==
    ASSUME MachineInv, mix' = mix, NEW p \in Here, Bind(p), UNCHANGED <<budget, refused>>
    PROVE  MachineInv'
<1> DEFINE new == [proc[p] EXCEPT !.bound = Address(p), !.serves = Job[p].kind # "daemon"]
<1>1. /\ proc[p].pc = "bind" /\ file' = file /\ outdated' = outdated /\ Unspent
      /\ Advance(p, At(Address(p)) = {}, new)
  BY DEF Bind, Unspent
<1>2. /\ Types /\ Fits /\ Fit(p, proc[p]) /\ proc[p] \in Record /\ mix \in Mixes
      /\ Job[p].kind \in {"up", "run", "daemon"} /\ Apart /\ Filed
  BY <1>1, StackSteps DEF StackPCs, MachineInv
<1>3. RefusalsKept
  BY <1>1, SameRefusals
<1>4. CASE At(Address(p)) # {}
  <2>1. Set(p, Ended(p, "failed"))
    BY <1>1, <1>4 DEF Advance
  <2>2. proc[p].bound = None
    <3>1. CASE Job[p].kind = "daemon"
      BY <1>1, <1>2, <3>1 DEF Fit, Stack, DaemonStack
    <3>2. CASE Job[p].kind # "daemon"
      BY <1>1, <1>2, <3>2 DEF Fit, Stack, OwnStack, Listening, Holding, Registered, Complete
    <3> QED
      BY <3>1, <3>2
  <2>3. \A w \in Here : Job[w].kind = "window" /\ Undisturbed(w) => p # Child(w)
    BY <1>4, <2>2, ChildGoesOn
  <2> QED
    BY <1>1, <1>3, <2>1, <2>3, FailedStart DEF Spending, StackPCs
<1>5. CASE At(Address(p)) = {}
  <2> DEFINE rec == IF Job[p].kind = "daemon" THEN [new EXCEPT !.pc = "admission"] ELSE [new EXCEPT !.pc = "hold"]
  <2>1. Set(p, rec) /\ Fit(p, rec)
    BY <1>1, <1>2, <1>5, ListeningFits DEF Advance
  <2>2. /\ rec.pc \in {"admission", "hold"} /\ rec.ours = proc[p].ours /\ rec.admits = proc[p].admits
        /\ rec.bound = Address(p)
        /\ rec.holds = proc[p].holds /\ ~Registered(proc[p]) /\ ~Listening(proc[p])
    BY <1>1, <1>2 DEF Record, Registered, Complete, Listening, Holding
  <2> HIDE DEF rec
  <2>3. proc'[p] = rec /\ (\A q \in Here \ {p} : proc'[q] = proc[q]) /\ Here' = Here
    BY <1>2, <2>1 DEF Set, Types, Here
  <2>4. Apart'
    <3> SUFFICES ASSUME NEW a \in Here, NEW b \in Here, a # b
                 PROVE  /\ proc'[a].bound # None => proc'[a].bound # proc'[b].bound
                        /\ proc'[a].holds /\ proc'[b].holds => Place(a) # Place(b)
      BY <2>3 DEF Apart, Place
    <3>1. proc'[a].holds /\ proc'[b].holds => Place(a) # Place(b)
      BY <1>2, <2>2, <2>3 DEF Apart
    <3>2. \A q \in Here : proc[q].bound # Address(p)
      BY <1>5 DEF At
    <3>3. proc'[a].bound # None => proc'[a].bound # proc'[b].bound
      BY <1>2, <2>2, <2>3, <3>2 DEF Apart
    <3> QED
      BY <3>1, <3>3
  <2>5. Filed'
    <3>1. \A q \in Here : proc'[q].ours = proc[q].ours /\ proc'[q].admits = proc[q].admits
      BY <2>2, <2>3
    <3> QED
      BY <1>1, <1>2, <2>3, <3>1 DEF Filed
  <2> QED
    BY <1>1, <1>2, <1>3, <2>1, <2>2, <2>4, <2>5, StartStep DEF Spending, StackPCs
<1> QED
  BY <1>4, <1>5

LEMMA AdmissionKeeps ==
    ASSUME MachineInv, mix' = mix, NEW p \in Here, Admission(p), UNCHANGED <<budget, refused>>
    PROVE  MachineInv'
<1> DEFINE tok == IF file[Job[p].home] = None THEN Anyone ELSE file[Job[p].home]
<1>1. /\ proc[p].pc = "admission" /\ file' = file /\ outdated' = outdated /\ Unspent
      /\ Advance(p, Job[p].home \notin mix.broken, [proc[p] EXCEPT !.serves = TRUE, !.admits = tok])
  BY DEF Admission, Unspent
<1>2. /\ Types /\ Fits /\ Fit(p, proc[p]) /\ proc[p] \in Record /\ mix \in Mixes
      /\ Job[p].kind = "daemon" /\ Apart /\ Filed /\ Job[p].home \in Homes
  BY <1>1, StackSteps, KindsOf DEF StackPCs, MachineInv
<1>3. RefusalsKept
  BY <1>1, SameRefusals
<1>4. CASE Job[p].home \in mix.broken
  <2>1. Set(p, Ended(p, "failed"))
    BY <1>1, <1>4 DEF Advance
  <2>2. \A w \in Here : Job[w].kind = "window" /\ Undisturbed(w) => p # Child(w)
    BY <1>4, ChildGoesOn
  <2> QED
    BY <1>1, <1>3, <2>1, <2>2, FailedStart DEF Spending, StackPCs
<1>5. CASE Job[p].home \notin mix.broken
  <2> DEFINE rec == [proc[p] EXCEPT !.serves = TRUE, !.admits = tok, !.pc = "up"]
  <2>1. tok \in Procs \cup {Anyone}
    BY <1>2 DEF Types, Tokens
  <2>2. tok # Anyone => file[Job[p].home] = tok
    OBVIOUS
  <2> HIDE DEF tok
  <2>3. Set(p, rec) /\ Fit(p, rec)
    BY <1>1, <1>2, <1>5, <2>1, AdmissionFits DEF Advance
  <2>4. /\ rec.pc = "up" /\ rec.ours = proc[p].ours /\ rec.admits = tok /\ rec.bound = proc[p].bound
        /\ rec.holds = proc[p].holds /\ ~Registered(proc[p]) /\ ~Listening(proc[p])
    BY <1>1, <1>2 DEF Record, Registered, Complete, Listening, Holding
  <2> HIDE DEF rec
  <2>5. proc'[p] = rec /\ (\A q \in Here \ {p} : proc'[q] = proc[q]) /\ Here' = Here
    BY <1>2, <2>3 DEF Set, Types, Here
  <2>6. Apart'
    <3> SUFFICES ASSUME NEW a \in Here, NEW b \in Here, a # b
                 PROVE  /\ proc'[a].bound # None => proc'[a].bound # proc'[b].bound
                        /\ proc'[a].holds /\ proc'[b].holds => Place(a) # Place(b)
      BY <2>5 DEF Apart, Place
    <3>1. \A q \in Here : proc'[q].bound = proc[q].bound /\ proc'[q].holds = proc[q].holds
      BY <2>4, <2>5
    <3> QED
      BY <1>2, <3>1 DEF Apart
  <2>7. Filed'
    <3> SUFFICES ASSUME NEW q \in Here, q \notin outdated
                 PROVE  /\ proc'[q].ours # None => file[Job[q].home] = q
                        /\ proc'[q].admits \notin {None, Anyone} => file[Job[q].home] = proc'[q].admits
      BY <1>1, <2>5 DEF Filed
    <3>1. CASE q = p
      BY <1>2, <2>2, <2>4, <2>5, <3>1 DEF Filed
    <3>2. CASE q # p
      BY <1>2, <2>5, <3>2 DEF Filed
    <3> QED
      BY <3>1, <3>2
  <2> QED
    BY <1>1, <1>2, <1>3, <2>3, <2>4, <2>6, <2>7, StartStep DEF Spending, StackPCs
<1> QED
  BY <1>4, <1>5

LEMMA HoldKeeps ==
    ASSUME MachineInv, mix' = mix, NEW p \in Here, Hold(p), UNCHANGED <<budget, refused>>
    PROVE  MachineInv'
<1>1. /\ proc[p].pc = "hold" /\ file' = file /\ outdated' = outdated /\ Unspent
      /\ Advance(p, ~Taken(p), [proc[p] EXCEPT !.holds = TRUE])
  BY DEF Hold, Unspent
<1>2. /\ Types /\ Fits /\ Fit(p, proc[p]) /\ proc[p] \in Record /\ mix \in Mixes
      /\ Job[p].kind \in {"up", "run"} /\ Apart /\ Filed
  BY <1>1, StackSteps, KindsOf DEF StackPCs, MachineInv
<1>3. RefusalsKept
  BY <1>1, SameRefusals
<1>4. CASE Taken(p)
  <2>1. Set(p, Ended(p, "failed"))
    BY <1>1, <1>4 DEF Advance
  <2>2. \A w \in Here : Job[w].kind = "window" /\ Undisturbed(w) => p # Child(w)
    BY <1>4, ChildGoesOn
  <2> QED
    BY <1>1, <1>3, <2>1, <2>2, FailedStart DEF Spending, StackPCs
<1>5. CASE ~Taken(p)
  <2> DEFINE rec == [proc[p] EXCEPT !.holds = TRUE, !.pc = "guest"]
  <2>1. Set(p, rec) /\ Fit(p, rec)
    BY <1>1, <1>2, <1>5, HoldingFits DEF Advance
  <2>2. /\ rec.pc = "guest" /\ rec.ours = proc[p].ours /\ rec.admits = proc[p].admits
        /\ rec.bound = proc[p].bound /\ ~Registered(proc[p]) /\ Listening(rec)
    BY <1>1, <1>2 DEF Record, Registered, Complete, Listening, Holding
  <2> HIDE DEF rec
  <2>3. proc'[p] = rec /\ (\A q \in Here \ {p} : proc'[q] = proc[q]) /\ Here' = Here
    BY <1>2, <2>1 DEF Set, Types, Here
  <2>4. Apart'
    <3> SUFFICES ASSUME NEW a \in Here, NEW b \in Here, a # b
                 PROVE  /\ proc'[a].bound # None => proc'[a].bound # proc'[b].bound
                        /\ proc'[a].holds /\ proc'[b].holds => Place(a) # Place(b)
      BY <2>3 DEF Apart, Place
    <3>1. proc'[a].bound # None => proc'[a].bound # proc'[b].bound
      BY <1>2, <2>2, <2>3 DEF Apart
    <3>2. \A q \in Here \ {p} : proc[q].holds => Place(q) # Place(p)
      BY <1>5 DEF Taken
    <3>3. proc'[a].holds /\ proc'[b].holds => Place(a) # Place(b)
      BY <1>2, <2>3, <3>2 DEF Apart
    <3> QED
      BY <3>1, <3>3
  <2>5. Filed'
    <3>1. \A q \in Here : proc'[q].ours = proc[q].ours /\ proc'[q].admits = proc[q].admits
      BY <2>2, <2>3
    <3> QED
      BY <1>1, <1>2, <2>3, <3>1 DEF Filed
  <2> QED
    BY <1>1, <1>2, <1>3, <2>1, <2>2, <2>4, <2>5, StartStep DEF Spending, StackPCs
<1> QED
  BY <1>4, <1>5

\* A step of a start that adds nothing others could want too.
LEMMA FadingStart ==
    ASSUME MachineInv, mix' = mix, NEW p \in Here, NEW rec,
           proc[p].pc \in StackPCs \cup {"admission"}, Set(p, rec), Fit(p, rec), Fades(proc[p], rec),
           Spending, RefusalsKept, file' = file, outdated' = outdated,
           rec.pc \notin {"idle", "ended"}, Job[p].kind \notin {"window"},
           Listening(proc[p]) => Listening(rec), Registered(proc[p]) => Registered(rec),
           rec.ours = proc[p].ours
    PROVE  MachineInv'
<1>1. mix \in Mixes /\ Apart /\ Filed /\ DOMAIN proc = Here
  BY DEF MachineInv, Types
<1>2. \A q \in Here : Fades(proc[q], proc'[q])
  BY <1>1, OneFades
<1>3. Apart' /\ Filed'
  BY <1>1, <1>2, FadesKeep
<1> QED
  BY <1>3, StartStep

LEMMA RegistersKeeps ==
    ASSUME MachineInv, mix' = mix, NEW p \in Here, Registers(p), UNCHANGED <<budget, refused>>
    PROVE  MachineInv'
<1> DEFINE rec == [Asking(p, "ready") EXCEPT !.guest = TRUE]
<1>1. proc[p].pc = "guest" /\ file' = file /\ outdated' = outdated /\ Unspent /\ Set(p, rec)
  BY DEF Registers, Unspent
<1>2. /\ Types /\ Fits /\ proc[p] \in Record /\ Job[p].kind \in {"up", "run", "daemon"}
  BY <1>1, StackSteps DEF StackPCs
<1>3. RefusalsKept
  BY <1>1, SameRefusals
<1>4. Fit(p, rec)
  BY <1>1, <1>2, RegisteredFits
<1>5. rec.pc = "ready" /\ rec.ours = proc[p].ours /\ Fades(proc[p], rec)
  BY <1>2 DEF Asking, Record, Fades
<1> HIDE DEF rec
<1>6. Registered(rec) /\ Listening(rec)
  BY <1>5 DEF Registered, Listening, Holding
<1> QED
  BY <1>1, <1>2, <1>3, <1>4, <1>5, <1>6, FadingStart DEF Spending, StackPCs

\* The only answer there is for the computer of an undisturbed window, and for the window that asks it.
LEMMA AnswersAlone ==
    ASSUME MachineInv, NEW w \in Here, Undisturbed(w), NEW p \in Here, p \in {w, Child(w)},
           Registered(proc[Child(w)]), proc[p].token = Child(w)
    PROVE  Answers(p, FALSE) = {"ok"}
<1> DEFINE c == Child(w)
<1>1. /\ Types /\ Fits /\ Kin /\ mix \in Mixes /\ Job[w].kind = "window" /\ Job[w].port # "bare"
  BY DEF MachineInv, Types, Undisturbed
<1>2. c \in Here /\ Job[c].kind = "up" /\ Job[c].parent = w /\ c # w /\ w # None
  BY <1>1, ChildFacts, JobFacts
<1>3. OwnStack(c, proc[c]) /\ Listening(proc[c]) /\ Booted(proc[c])
  BY <1>1, <1>2 DEF Fits, Fit, Stack, Listening, Holding, Booted
<1>4. proc[c].bound = Address(c) /\ proc[c].serves /\ proc[c].guest /\ proc[c].admits = c
  BY <1>3 DEF OwnStack
<1>5. Address(c) = Job[w].port /\ Address(c) # None
  BY <1>1, <1>2, AddressFacts DEF Address, BindOf
<1>6. proc[w].bound = None
  BY <1>1, <1>2, AloneBare
<1>7. Target(p) = Address(c)
  BY <1>1, <1>4, <1>5, <1>6 DEF Target
<1>8. At(Target(p)) = {c}
  <2>1. At(Address(c)) \subseteq {c}
    BY ChildGoesOn
  <2> QED
    BY <1>2, <1>4, <1>7, <2>1 DEF At
<1> QED
  BY <1>4, <1>8 DEF Answers, Admits

LEMMA ReadyKeeps ==
    ASSUME MachineInv, mix' = mix, NEW p \in Here, Ready(p), UNCHANGED <<file, outdated>>
    PROVE  MachineInv'
<1>1. PICK answer \in {"ok", "refused", "slow"} : Asked(p, FALSE, answer) /\ Advance(p, answer = "ok", proc[p])
  BY DEF Ready
<1>2. proc[p].pc = "ready" /\ file' = file /\ outdated' = outdated
  BY DEF Ready
<1>3. /\ Types /\ Fits /\ Fit(p, proc[p]) /\ proc[p] \in Record /\ mix \in Mixes /\ p # None
      /\ Job[p].kind \in {"up", "run"}
  BY <1>2, StackSteps, KindsOf DEF StackPCs
<1>4. RefusalsKept /\ (\/ Unspent /\ answer \in Answers(p, FALSE)
                       \/ answer = "slow" /\ Spend("slow"))
  BY <1>1, <1>2, AskedKeeps DEF MachineInv, RefusalsKept, AskPCs
<1>5. Spending
  BY <1>4 DEF Spending
<1>6. CASE answer # "ok"
  <2>1. Set(p, Ended(p, "failed"))
    BY <1>1, <1>6 DEF Advance
  <2>2. ASSUME NEW w \in Here, Job[w].kind = "window", Undisturbed(w), Unspent, p = Child(w) PROVE FALSE
    <3>1. Registered(proc[p]) /\ proc[p].token = p
      BY <1>2, <1>3 DEF Registered, Fit, Handed
    <3>2. Answers(p, FALSE) = {"ok"}
      BY <2>2, <3>1, AnswersAlone
    <3>3. ~Spend("slow")
      <4>1. budget' = mix.budget
        BY <2>2 DEF Undisturbed, Unspent
      <4> QED
        BY <1>3, <4>1, Spent DEF MachineInv
    <3> QED
      BY <1>4, <1>6, <3>2, <3>3
  <2> QED
    BY <1>2, <1>4, <1>5, <2>1, <2>2, FailedStart DEF StackPCs
<1>7. CASE answer = "ok"
  <2> DEFINE rec == IF Job[p].kind = "run" THEN [proc[p] EXCEPT !.pc = "connect"]
                                           ELSE [proc[p] EXCEPT !.pc = "up"]
  <2>1. Set(p, rec) /\ Fit(p, rec)
    BY <1>1, <1>2, <1>3, <1>7, ReadyFits DEF Advance
  <2>2. rec.pc \in {"connect", "up"} /\ rec.ours = proc[p].ours /\ Fades(proc[p], rec)
        /\ rec.found = proc[p].found /\ (rec.pc = "connect" => Job[p].kind = "run")
    BY <1>3 DEF Record, Fades
  <2> HIDE DEF rec
  <2>3. rec.pc = "connect" => rec.found # "nothing"
    BY <1>2, <1>3, <2>2 DEF Fit, Stack, StackPCs
  <2>4. Registered(rec) /\ Listening(rec)
    BY <2>2, <2>3 DEF Registered, Complete, Listening, Holding
  <2> QED
    BY <1>2, <1>3, <1>4, <1>5, <2>1, <2>2, <2>4, FadingStart DEF StackPCs
<1> QED
  BY <1>6, <1>7

LEMMA StartingKeeps ==
    ASSUME MachineInv, mix' = mix, NEW p \in Here, Starting(p)
    PROVE  MachineInv'
  BY CheckKeeps, WriteTokenKeeps, BootKeeps, BindKeeps, AdmissionKeeps, HoldKeeps, RegistersKeeps, ReadyKeeps
     DEF Starting

-----------------------------------------------------------------------------
(***************************************************************************)
(* The commands.                                                           *)
(***************************************************************************)

\* A step of a command that is nobody's computer and no window.
LEMMA CommandStep ==
    ASSUME MachineInv, mix' = mix, file' = file, outdated' = outdated, Spending, RefusalsKept,
           NEW p \in Here, NEW rec, Set(p, rec), Fit(p, rec), Fades(proc[p], rec),
           Job[p].kind \in {"run", "watch", "client", "tick"}, Runs(p), rec.pc # "idle"
    PROVE  MachineInv'
<1>1. mix \in Mixes /\ proc[p].pc \notin {"idle", "ended"}
  BY DEF MachineInv, Types, Runs
<1>2. KinNext(p, rec)
  BY <1>1 DEF KinNext
<1>3. QuietNext(p, rec)
  BY <1>1, ChildKind DEF QuietNext
<1> QED
  BY <1>1, <1>2, <1>3, FadingStep

LEMMA CommandEnds ==
    ASSUME MachineInv, mix' = mix, file' = file, outdated' = outdated, Spending, RefusalsKept,
           NEW p \in Here, NEW told \in Tolds, Set(p, Ended(p, told)),
           Job[p].kind \in {"run", "watch", "client", "tick"}, Runs(p)
    PROVE  MachineInv'
<1>1. mix \in Mixes
  BY DEF MachineInv, Types
<1>2. \A w \in Here : Job[w].kind = "window" /\ Undisturbed(w) /\ Unspent => p # Child(w)
  BY <1>1, ChildKind
<1> QED
  BY <1>2, EndStep

\* What an ask leaves of the refusals and of the mishaps.
LEMMA AskStep ==
    ASSUME MachineInv, mix' = mix, outdated' = outdated, NEW p \in Here, proc[p].pc \in AskPCs,
           NEW probe, NEW answer, Asked(p, probe, answer)
    PROVE  /\ RefusalsKept /\ Spending /\ Runs(p)
           /\ Types /\ Fits /\ Fit(p, proc[p]) /\ proc[p] \in Record /\ mix \in Mixes
           /\ Unspent => answer \in Answers(p, probe) \/ ~(\E w \in Here : Undisturbed(w))
<1>1. RefusalsKept /\ (\/ Unspent /\ answer \in Answers(p, probe)
                       \/ answer = "slow" /\ Spend("slow"))
  BY AskedKeeps DEF MachineInv, RefusalsKept
<1>2. Types /\ Fits /\ Fit(p, proc[p]) /\ proc[p] \in Record /\ mix \in Mixes /\ Budgeted
  BY DEF MachineInv, Fits, Types, Fit
<1>3. ASSUME Unspent, Spend("slow"), NEW w \in Here, Undisturbed(w) PROVE FALSE
  <2>1. budget' = mix.budget
    BY <1>3 DEF Undisturbed, Unspent
  <2> QED
    BY <1>2, <1>3, <2>1, Spent
<1> QED
  BY <1>1, <1>2, <1>3 DEF Spending, Runs, AskPCs

LEMMA ProbeKeeps ==
    ASSUME MachineInv, mix' = mix, NEW p \in Here, Probe(p), UNCHANGED <<file, outdated>>
    PROVE  MachineInv'
<1>1. PICK answer \in Outcomes :
        /\ Asked(p, TRUE, answer)
        /\ Set(p, IF answer = "ok" THEN Asking(p, "connect")
                  ELSE IF StartsItsOwn(answer) THEN [Begun(p) EXCEPT !.found = answer]
                  ELSE Ended(p, answer))
  BY DEF Probe
<1>2. proc[p].pc = "probe" /\ file' = file /\ outdated' = outdated
  BY DEF Probe
<1>3. /\ RefusalsKept /\ Spending /\ Runs(p)
      /\ Types /\ Fits /\ Fit(p, proc[p]) /\ proc[p] \in Record /\ mix \in Mixes
  BY <1>1, <1>2, AskStep DEF AskPCs
<1>4. Job[p].kind = "run" /\ proc[p].found = "nothing" /\ ~Minted(proc[p])
  BY <1>2, <1>3, KindsOf, Bare DEF Fit, Stack
<1>5. CASE answer = "ok"
  <2>1. Set(p, Asking(p, "connect"))
    BY <1>1, <1>5
  <2>2. Fit(p, Asking(p, "connect"))
    BY <1>3, <1>4, AskingFits DEF PcsOf
  <2>3. Fades(proc[p], Asking(p, "connect")) /\ Asking(p, "connect").pc = "connect"
    BY <1>3, AskingIs
  <2> QED
    BY <1>2, <1>3, <1>4, <2>1, <2>2, <2>3, CommandStep
<1>6. CASE answer # "ok" /\ StartsItsOwn(answer)
  <2> DEFINE rec == [proc[p] EXCEPT !.pc = "check", !.found = answer]
  <2>1. Begun(p) = [proc[p] EXCEPT !.pc = "check"]
    BY <1>4 DEF Begun, Order
  <2>2. [Begun(p) EXCEPT !.found = answer] = rec
    BY <1>3, <2>1 DEF Record
  <2>3. Set(p, rec)
    BY <1>1, <1>6, <2>2
  <2>4. answer \in {"unreachable", "slow"}
    BY <1>6 DEF StartsItsOwn
  <2>5. rec \in Record
    BY <1>3, <2>4 DEF Record, PCs, Founds
  <2>6. /\ rec.pc = "check" /\ rec.found = answer
        /\ rec.ours = proc[p].ours /\ rec.admits = proc[p].admits /\ rec.bound = proc[p].bound
        /\ rec.serves = proc[p].serves /\ rec.holds = proc[p].holds /\ rec.guest = proc[p].guest
    BY <1>3 DEF Record
  <2> HIDE DEF rec
  <2>7. ~Minted(rec)
    BY <2>6 DEF Minted, Booted, Listening, Holding, Registered, Complete
  <2>8. Fit(p, rec)
    BY <1>3, <1>4, <2>4, <2>5, <2>6, <2>7, BareMove DEF PcsOf, StackPCs
  <2>9. Fades(proc[p], rec)
    BY <2>6 DEF Fades
  <2> QED
    BY <1>2, <1>3, <1>4, <2>3, <2>6, <2>8, <2>9, CommandStep
<1>7. CASE answer # "ok" /\ ~StartsItsOwn(answer)
  <2>1. Set(p, Ended(p, answer)) /\ answer \in Tolds
    BY <1>1, <1>7 DEF Tolds
  <2> QED
    BY <1>2, <1>3, <1>4, <2>1, CommandEnds
<1> QED
  BY <1>5, <1>6, <1>7

\* A section later, with what it had.
LEMMA SectionFits ==
    ASSUME MachineInv, NEW p \in Here, Job[p].kind \in {"run", "watch"}, proc[p].pc = "connect",
           NEW pc, pc = IF Job[p].kind = "run" THEN "works" ELSE "watches"
    PROVE  LET rec == [proc[p] EXCEPT !.pc = pc]
           IN  Fit(p, rec) /\ Fades(proc[p], rec) /\ rec.pc = pc
<1> DEFINE rec == [proc[p] EXCEPT !.pc = pc]
<1>1. Fit(p, proc[p]) /\ proc[p] \in Record
  BY DEF MachineInv, Fits, Fit
<1>2. rec \in Record
  BY <1>1 DEF Record, PCs
<1>3. OwnStack(p, rec)
  BY <1>1 DEF Fit, Stack, OwnStack, Minted, Booted, Listening, Holding, Registered, Complete, Record, PcsOf
<1>4. Stack(p, rec)
  BY <1>1, <1>3 DEF Fit, Stack, PcsOf, StackPCs, Record
<1>5. Handed(p, rec)
  BY <1>1 DEF Fit, Handed, Registered, Complete, Record
<1> QED
  BY <1>1, <1>2, <1>4, <1>5 DEF Fit, Fades, Record

LEMMA ConnectKeeps ==
    ASSUME MachineInv, mix' = mix, NEW p \in Here, Connect(p), UNCHANGED <<file, outdated>>
    PROVE  MachineInv'
<1>1. PICK answer \in Outcomes :
        /\ Asked(p, FALSE, answer)
        /\ Set(p, IF answer # "ok"              THEN Ended(p, answer)
                  ELSE IF Job[p].kind = "run"   THEN [proc[p] EXCEPT !.pc = "works"]
                  ELSE IF Job[p].kind = "watch" THEN [proc[p] EXCEPT !.pc = "watches"]
                  ELSE Ended(p, "done"))
  BY DEF Connect
<1>2. proc[p].pc = "connect" /\ file' = file /\ outdated' = outdated
  BY DEF Connect
<1>3. /\ RefusalsKept /\ Spending /\ Runs(p)
      /\ Fit(p, proc[p]) /\ mix \in Mixes
  BY <1>1, <1>2, AskStep DEF AskPCs
<1>4. Job[p].kind \in {"run", "watch", "client", "tick"}
  BY <1>2, <1>3, KindsOf
<1>5. CASE answer = "ok" /\ Job[p].kind \in {"run", "watch"}
  <2> DEFINE pc == IF Job[p].kind = "run" THEN "works" ELSE "watches"
  <2>1. Set(p, [proc[p] EXCEPT !.pc = pc]) /\ pc # "idle"
    BY <1>1, <1>5
  <2> HIDE DEF pc
  <2>2. /\ Fit(p, [proc[p] EXCEPT !.pc = pc]) /\ Fades(proc[p], [proc[p] EXCEPT !.pc = pc])
        /\ [proc[p] EXCEPT !.pc = pc].pc = pc
    BY <1>2, <1>5, SectionFits DEF pc
  <2> QED
    BY <1>2, <1>3, <1>4, <2>1, <2>2, CommandStep
<1>6. CASE ~(answer = "ok" /\ Job[p].kind \in {"run", "watch"})
  <2>1. \E told \in Tolds : Set(p, Ended(p, told))
    BY <1>1, <1>6 DEF Tolds
  <2> QED
    BY <1>2, <1>3, <1>4, <2>1, CommandEnds
<1> QED
  BY <1>5, <1>6

LEMMA WorksKeeps ==
    ASSUME MachineInv, mix' = mix, NEW p \in Here, Works(p), UNCHANGED <<file, outdated>>
    PROVE  MachineInv'
<1>1. proc[p].pc = "works" /\ Set(p, Ended(p, "done")) /\ Unspent /\ refused' = refused
  BY DEF Works, Unspent
<1>2. Fit(p, proc[p]) /\ mix \in Mixes
  BY DEF MachineInv, Fits, Types
<1>3. Job[p].kind = "run"
  BY <1>1, <1>2, KindsOf
<1>4. RefusalsKept
  BY <1>1, SameRefusals
<1> QED
  BY <1>1, <1>3, <1>4, CommandEnds DEF Runs, Spending, Tolds

LEMMA StopKeeps ==
    ASSUME MachineInv, mix' = mix, NEW p \in Here, Stop(p)
    PROVE  MachineInv'
<1>1. /\ proc[p].pc = "up" /\ Job[p].parent = None /\ Set(p, Ended(p, "stopped"))
      /\ Unspent /\ file' = file /\ refused' = refused /\ outdated' = outdated
  BY DEF Stop, Unspent
<1>2. mix \in Mixes
  BY DEF MachineInv, Types
<1>3. \A w \in Here : Job[w].kind = "window" => p # Child(w)
  BY <1>1, <1>2, ChildKind
<1>4. RefusalsKept
  BY <1>1, SameRefusals
<1> QED
  BY <1>1, <1>3, <1>4, EndStep DEF Runs, Spending, Tolds

LEMMA CrashKeeps ==
    ASSUME MachineInv, mix' = mix, NEW p \in Here, Crash(p)
    PROVE  MachineInv'
<1>1. /\ Runs(p) /\ Spend("crash") /\ Set(p, Ended(p, "crashed"))
      /\ file' = file /\ refused' = refused /\ outdated' = outdated
  BY DEF Crash
<1>2. mix \in Mixes /\ Budgeted
  BY DEF MachineInv, Types
<1>3. \A w \in Here : ~(Undisturbed(w) /\ Unspent)
  BY <1>1, <1>2, Spent DEF Undisturbed, Unspent
<1>4. RefusalsKept
  BY <1>1, SameRefusals
<1> QED
  BY <1>1, <1>3, <1>4, EndStep DEF Spending, Tolds

-----------------------------------------------------------------------------
(***************************************************************************)
(* The window.                                                             *)
(***************************************************************************)

WindowPCs == {"reach", "poll", "polls", "last", "open", "turn"}

LEMMA WindowFacts ==
    ASSUME MachineInv, NEW w \in Here, proc[w].pc \in WindowPCs
    PROVE  /\ Types /\ Fits /\ Kin /\ Fit(w, proc[w]) /\ proc[w] \in Record /\ mix \in Mixes /\ DOMAIN proc = Here
           /\ Job[w].kind = "window" /\ Job[w].parent = None /\ Runs(w) /\ ~Minted(proc[w])
           /\ Child(w) \in Here /\ Child(w) # w /\ Job[Child(w)].kind = "up" /\ Job[Child(w)].parent = w
           /\ Job[Child(w)].home = Job[w].home /\ Job[w].home \in Homes
           /\ \A x \in Here : Job[x].kind = "window" => w # Child(x)
           /\ \A x \in Here \ {w} : ~Undisturbed(x)
<1>1. /\ Types /\ Fits /\ Kin /\ Fit(w, proc[w]) /\ proc[w] \in Record /\ mix \in Mixes /\ DOMAIN proc = Here
  BY DEF MachineInv, Types, Fits, Fit
<1>2. Job[w].kind = "window"
  BY <1>1, KindsOf DEF WindowPCs
<1>3. /\ Child(w) \in Here /\ Child(w) # w /\ Job[Child(w)].kind = "up" /\ Job[Child(w)].parent = w
      /\ Job[Child(w)].home = Job[w].home /\ Job[w].home \in Homes /\ Job[w].parent = None
  BY <1>1, <1>2, ChildFacts, JobFacts
<1>4. ~Minted(proc[w])
  BY <1>1, Bare DEF WindowPCs
<1>5. \A x \in Here : Job[x].kind = "window" => w # Child(x)
  BY <1>1, <1>3, ChildKind
<1>6. \A x \in Here \ {w} : ~Undisturbed(x)
  BY <1>3 DEF Undisturbed, WindowPCs
<1> QED
  BY <1>1, <1>2, <1>3, <1>4, <1>5, <1>6 DEF Runs, WindowPCs

\* Its record with another section, token, finding or word.
Moved(w, pc, token, found, told, owns, turned) ==
    [proc[w] EXCEPT !.pc = pc, !.token = token, !.found = found, !.told = told,
                    !.owns = owns, !.turned = turned]

LEMMA WindowFits ==
    ASSUME MachineInv, NEW w \in Here, proc[w].pc \in WindowPCs,
           NEW pc \in WindowPCs \ {"reach"}, NEW token \in Tokens, NEW found \in Founds, NEW told \in Tolds,
           NEW owns \in BOOLEAN, NEW turned \in BOOLEAN
    PROVE  LET rec == Moved(w, pc, token, found, told, owns, turned)
           IN  /\ Fit(w, rec) /\ Fades(proc[w], rec)
               /\ rec.pc = pc /\ rec.token = token /\ rec.found = found /\ rec.told = told /\ rec.owns = owns
<1> DEFINE rec == Moved(w, pc, token, found, told, owns, turned)
<1>1. proc[w] \in Record /\ Job[w].kind = "window" /\ ~Minted(proc[w]) /\ Fits
  BY WindowFacts
<1>2. /\ rec.pc = pc /\ rec.token = token /\ rec.found = found /\ rec.told = told /\ rec.owns = owns
      /\ rec.turned = turned
      /\ rec.ours = proc[w].ours /\ rec.admits = proc[w].admits /\ rec.bound = proc[w].bound
      /\ rec.serves = proc[w].serves /\ rec.holds = proc[w].holds /\ rec.guest = proc[w].guest
  BY <1>1 DEF Record, Moved
<1>3. rec \in Record
  <2>1. pc \in PCs
    BY DEF PCs, WindowPCs
  <2> QED
    BY <1>1, <2>1 DEF Record, Moved
<1> HIDE DEF rec
<1>4. ~Minted(rec)
  BY <1>2 DEF WindowPCs, Minted, Booted, Listening, Holding, Registered, Complete
<1>5. Fit(w, rec)
  <2>1. rec.pc \in PcsOf(Job[w].kind) \ {"idle", "probe"} /\ Job[w].kind = "window"
    BY <1>1, <1>2 DEF PcsOf, WindowPCs
  <2> QED
    BY <1>1, <1>2, <1>3, <1>4, <2>1, BareMove
<1>6. Fades(proc[w], rec)
  BY <1>2 DEF Fades
<1> QED
  BY <1>2, <1>5, <1>6 DEF rec

LEMMA WindowStep ==
    ASSUME MachineInv, mix' = mix, file' = file, outdated' = outdated, Spending, RefusalsKept,
           NEW w \in Here, NEW rec, proc[w].pc \in WindowPCs, Set(w, rec), Fit(w, rec), Fades(proc[w], rec),
           rec.pc \in WindowPCs \ {"reach"},
           rec.pc \in {"last", "open", "turn"} /\ Runs(Child(w)) => rec.owns,
           Undisturbed(w) /\ Unspent => WindowQuiet(w, rec)
    PROVE  MachineInv'
<1>1. /\ Job[w].kind = "window" /\ Job[w].parent = None
      /\ \A x \in Here : Job[x].kind = "window" => w # Child(x)
  BY WindowFacts
<1>2. KinNext(w, rec)
  BY <1>1 DEF KinNext, WindowPCs
<1>3. QuietNext(w, rec)
  BY <1>1 DEF QuietNext
<1> QED
  BY <1>2, <1>3, FadingStep DEF WindowPCs

\* What answers the window, when nothing disturbs it.
LEMMA AloneAnswers ==
    ASSUME MachineInv, NEW w \in Here, proc[w].pc \in WindowPCs, Undisturbed(w)
    PROVE  /\ At(Target(w)) \subseteq {Child(w)}
           /\ proc[Child(w)].pc = "idle" => At(Target(w)) = {}
           /\ "ok" \in Answers(w, FALSE) =>
                Registered(proc[Child(w)]) /\ Runs(Child(w)) /\ file[Job[w].home] = Child(w)
<1> DEFINE c == Child(w)
<1>1. /\ Types /\ Fits /\ Kin /\ mix \in Mixes /\ c \in Here /\ Job[c].kind = "up" /\ Job[c].home = Job[w].home
      /\ Quiet
  BY WindowFacts DEF MachineInv
<1>2. At(Target(w)) \subseteq {c}
  <2>1. \A q \in Here \ {c} : proc[q].bound = None
    BY <1>1, AloneBare
  <2>2. Target(w) # None
    BY <1>1, TargetFacts
  <2> QED
    BY <2>1, <2>2 DEF At
<1>3. OwnStack(c, proc[c]) /\ c # None
  BY <1>1, JobFacts DEF Fits, Fit, Stack
<1>4. ASSUME proc[c].pc = "idle" PROVE At(Target(w)) = {}
  <2>1. ~Listening(proc[c])
    BY <1>4 DEF Listening, Holding, Registered, Complete
  <2>2. proc[c].bound = None /\ Target(w) # None
    BY <1>1, <1>3, <2>1, TargetFacts DEF OwnStack
  <2> QED
    BY <1>2, <2>2 DEF At
<1>5. ASSUME "ok" \in Answers(w, FALSE)
      PROVE  Registered(proc[c]) /\ Runs(c) /\ file[Job[w].home] = c
  <2>1. proc[c].guest
    BY <1>2, <1>5 DEF Answers
  <2>2. Registered(proc[c]) /\ Minted(proc[c])
    BY <1>3, <2>1 DEF OwnStack, Minted, Booted, Listening, Holding
  <2>3. proc[c].ours = c
    BY <1>3, <2>2 DEF OwnStack
  <2>4. file[Job[w].home] = c
    BY <1>1, <1>3, <2>3 DEF Quiet
  <2> QED
    BY <2>2, <2>4 DEF Runs, Registered, Complete
<1> QED
  BY <1>2, <1>4, <1>5

\* It looks for the token in the home, unless it is the agent that asks.
LEMMA WindowLooks ==
    ASSUME MachineInv, NEW w \in Here, proc[w].pc \in WindowPCs, NEW pc
    PROVE  /\ Lookup(w, pc) \in Tokens
           /\ pc # "turn" /\ file[Job[w].home] # None => Lookup(w, pc) = file[Job[w].home]
           /\ Asking(w, pc) = [proc[w] EXCEPT !.pc = pc, !.token = Lookup(w, pc)]
<1>1. Types /\ Fits /\ Job[w].kind = "window"
  BY WindowFacts
<1>2. Lookup(w, pc) \in Tokens
  BY <1>1, LookupFacts
<1> QED
  BY <1>1, <1>2 DEF Lookup, TokenAt, Asking

LEMMA TurnKeeps ==
    ASSUME MachineInv, mix' = mix, NEW w \in Here, Turn(w)
    PROVE  MachineInv'
<1>1. /\ proc[w].pc = "open" /\ Set(w, [Asking(w, "turn") EXCEPT !.turned = TRUE])
      /\ Unspent /\ file' = file /\ refused' = refused /\ outdated' = outdated
  BY DEF Turn, Unspent
<1>2. /\ Kin /\ Quiet /\ proc[w] \in Record /\ Job[w].kind = "window"
  BY <1>1, WindowFacts DEF WindowPCs, MachineInv
<1>3. Lookup(w, "turn") \in Tokens
        /\ Asking(w, "turn") = [proc[w] EXCEPT !.pc = "turn", !.token = Lookup(w, "turn")]
  BY <1>1, WindowLooks DEF WindowPCs
<1> DEFINE rec == Moved(w, "turn", Lookup(w, "turn"), proc[w].found, proc[w].told, proc[w].owns, TRUE)
<1>4. [Asking(w, "turn") EXCEPT !.turned = TRUE] = rec
  BY <1>2, <1>3 DEF Record, Moved
<1>5. Set(w, rec)
  BY <1>1, <1>4
<1>6. /\ proc[w].found \in Founds /\ proc[w].told \in Tolds /\ proc[w].owns \in BOOLEAN
  BY <1>2 DEF Record
<1>7. /\ Fit(w, rec) /\ Fades(proc[w], rec)
      /\ rec.pc = "turn" /\ rec.told = proc[w].told /\ rec.owns = proc[w].owns
  <2>1. proc[w].pc \in WindowPCs /\ "turn" \in WindowPCs \ {"reach"}
    BY <1>1 DEF WindowPCs
  <2>2. PICK yes \in BOOLEAN : yes = TRUE
    OBVIOUS
  <2>3. LET new == Moved(w, "turn", Lookup(w, "turn"), proc[w].found, proc[w].told, proc[w].owns, yes)
        IN  /\ Fit(w, new) /\ Fades(proc[w], new)
            /\ new.pc = "turn" /\ new.told = proc[w].told /\ new.owns = proc[w].owns
    BY <1>3, <1>6, <2>1, WindowFits
  <2> QED
    BY <2>2, <2>3
<1> HIDE DEF rec
<1>8. Runs(Child(w)) => rec.owns
  BY <1>1, <1>2, <1>7 DEF Kin
<1>9. Undisturbed(w) => WindowQuiet(w, rec)
  BY <1>1, <1>2, <1>7 DEF Quiet, WindowQuiet
<1>10. RefusalsKept
  BY <1>1, SameRefusals
<1> QED
  BY <1>1, <1>5, <1>7, <1>8, <1>9, <1>10, WindowStep DEF WindowPCs, Spending

LEMMA TurnedKeeps ==
    ASSUME MachineInv, mix' = mix, NEW w \in Here, Turned(w), UNCHANGED <<file, outdated>>
    PROVE  MachineInv'
<1>1. PICK answer \in Outcomes : Asked(w, FALSE, answer) /\ Set(w, [proc[w] EXCEPT !.pc = "open"])
  BY DEF Turned
<1>2. proc[w].pc = "turn" /\ file' = file /\ outdated' = outdated
  BY DEF Turned
<1>3. RefusalsKept /\ Spending
  BY <1>1, <1>2, AskStep DEF AskPCs
<1>4. /\ Kin /\ Quiet /\ proc[w] \in Record /\ Job[w].kind = "window"
  BY <1>2, WindowFacts DEF WindowPCs, MachineInv
<1> DEFINE rec == Moved(w, "open", proc[w].token, proc[w].found, proc[w].told, proc[w].owns, proc[w].turned)
<1>5. Set(w, rec)
  BY <1>1, <1>4 DEF Record, Moved
<1>6. /\ proc[w].found \in Founds /\ proc[w].told \in Tolds /\ proc[w].owns \in BOOLEAN
      /\ proc[w].turned \in BOOLEAN /\ proc[w].token \in Tokens
  BY <1>4 DEF Record
<1>7. /\ Fit(w, rec) /\ Fades(proc[w], rec)
      /\ rec.pc = "open" /\ rec.told = proc[w].told /\ rec.owns = proc[w].owns
  <2>1. proc[w].pc \in WindowPCs /\ "open" \in WindowPCs \ {"reach"}
    BY <1>2 DEF WindowPCs
  <2> QED
    BY <1>6, <2>1, WindowFits
<1> HIDE DEF rec
<1>8. Runs(Child(w)) => rec.owns
  BY <1>2, <1>4, <1>7 DEF Kin
<1>9. Undisturbed(w) => WindowQuiet(w, rec)
  BY <1>2, <1>4, <1>7 DEF Quiet, WindowQuiet
<1> QED
  BY <1>2, <1>3, <1>5, <1>7, <1>8, <1>9, WindowStep DEF WindowPCs

\* What the person is told.
LEMMA ToldFits ==
    ASSUME MachineInv, NEW w \in Here, proc[w].pc \in WindowPCs, NEW told \in Tolds
    PROVE  LET rec == Told(w, told)
           IN  /\ Fit(w, rec) /\ Fades(proc[w], rec)
               /\ rec.pc = "open" /\ rec.told = told /\ rec.owns = proc[w].owns
<1>1. proc[w] \in Record
  BY WindowFacts
<1> DEFINE rec == Moved(w, "open", proc[w].token, proc[w].found, told, proc[w].owns, proc[w].turned)
<1>2. Told(w, told) = rec
  BY <1>1 DEF Told, Record, Moved
<1>3. /\ proc[w].found \in Founds /\ proc[w].owns \in BOOLEAN
      /\ proc[w].turned \in BOOLEAN /\ proc[w].token \in Tokens
  BY <1>1 DEF Record
<1>4. /\ Fit(w, rec) /\ Fades(proc[w], rec)
      /\ rec.pc = "open" /\ rec.told = told /\ rec.owns = proc[w].owns
  <2>1. "open" \in WindowPCs \ {"reach"}
    BY DEF WindowPCs
  <2> QED
    BY <1>3, <2>1, WindowFits
<1> QED
  BY <1>2, <1>4

LEMMA OpenComputerKeeps ==
    ASSUME MachineInv, mix' = mix, NEW w \in Here, NEW v \in Here, OpenComputer(w, v)
    PROVE  MachineInv'
<1> DEFINE rec == Asking(v, "connect")
<1>1. /\ proc[w].pc = "open" /\ Job[v].kind = "watch" /\ Job[v].parent = w /\ proc[v].pc = "idle"
      /\ Set(v, rec)
      /\ Unspent /\ file' = file /\ refused' = refused /\ outdated' = outdated
  BY DEF OpenComputer, Opening, Unspent
<1>2. Types /\ Fits /\ Fit(v, proc[v]) /\ mix \in Mixes
  BY DEF MachineInv, Fits, Types
<1>3. ~Minted(proc[v]) /\ proc[v].found = "nothing"
  BY <1>1, <1>2, Bare DEF Fit, Stack
<1>4. Fit(v, rec) /\ Fades(proc[v], rec) /\ rec.pc = "connect"
  BY <1>1, <1>2, <1>3, AskingFits, AskingIs DEF PcsOf
<1> HIDE DEF rec
<1>5. KinNext(v, rec)
  BY <1>1 DEF KinNext
<1>6. QuietNext(v, rec)
  BY <1>1, <1>2, ChildKind DEF QuietNext
<1>7. RefusalsKept
  BY <1>1, SameRefusals
<1> QED
  BY <1>1, <1>4, <1>5, <1>6, <1>7, FadingStep DEF Spending

LEMMA PollKeeps ==
    ASSUME MachineInv, mix' = mix, NEW w \in Here, Poll(w), UNCHANGED <<file, outdated>>
    PROVE  MachineInv'
<1> DEFINE found == IF proc[Child(w)].pc = "up" THEN "complete" ELSE "starting"
<1>1. /\ proc[w].pc = "poll" /\ proc[w].pc \in WindowPCs /\ Unspent /\ Spending
      /\ file' = file /\ refused' = refused /\ outdated' = outdated
      /\ Set(w, IF ~Runs(Child(w)) THEN Told(w, "failed")
                ELSE [Asking(w, "polls") EXCEPT !.found = found])
  BY DEF Poll, WindowPCs, Unspent, Spending
<1>2. /\ Types /\ Fits /\ Kin /\ proc[w] \in Record /\ Job[w].kind = "window" /\ Quiet /\ mix \in Mixes
      /\ Child(w) \in Here /\ Job[Child(w)].kind = "up" /\ Job[Child(w)].home = Job[w].home
  BY <1>1, WindowFacts DEF MachineInv
<1>3. RefusalsKept
  BY <1>1, SameRefusals
<1>4. CASE ~Runs(Child(w))
  <2>1. Set(w, Told(w, "failed")) /\ "failed" \in Tolds
    BY <1>1, <1>4 DEF Tolds
  <2>2. /\ Fit(w, Told(w, "failed")) /\ Fades(proc[w], Told(w, "failed"))
        /\ Told(w, "failed").pc = "open" /\ "open" \in WindowPCs \ {"reach"}
    BY <1>1, <2>1, ToldFits DEF WindowPCs
  <2>3. ~Undisturbed(w)
    BY <1>1, <1>2, <1>4 DEF Quiet
  <2> QED
    BY <1>1, <1>3, <1>4, <2>1, <2>2, <2>3, WindowStep
<1>5. CASE Runs(Child(w))
  <2> DEFINE rec == Moved(w, "polls", Lookup(w, "polls"), found, proc[w].told, proc[w].owns, proc[w].turned)
  <2>1. /\ Lookup(w, "polls") \in Tokens
        /\ file[Job[w].home] # None => Lookup(w, "polls") = file[Job[w].home]
        /\ Asking(w, "polls") = [proc[w] EXCEPT !.pc = "polls", !.token = Lookup(w, "polls")]
    BY <1>1, WindowLooks
  <2>2. Set(w, rec)
    <3>1. [Asking(w, "polls") EXCEPT !.found = found] = rec
      BY <1>2, <2>1 DEF Record, Moved
    <3> QED
      BY <1>1, <1>5, <3>1
  <2>3. /\ found \in Founds /\ proc[w].told \in Tolds /\ proc[w].owns \in BOOLEAN /\ proc[w].turned \in BOOLEAN
        /\ (found = "complete" => proc[Child(w)].pc = "up") /\ "polls" \in WindowPCs \ {"reach"}
    BY <1>2 DEF Record, Founds, WindowPCs
  <2> HIDE DEF found
  <2>4. /\ Fit(w, rec) /\ Fades(proc[w], rec)
        /\ rec.pc = "polls" /\ rec.token = Lookup(w, "polls") /\ rec.found = found
    BY <1>1, <2>1, <2>3, WindowFits
  <2> HIDE DEF rec
  <2>5. ASSUME Undisturbed(w) PROVE WindowQuiet(w, rec)
    <3>1. ASSUME found = "complete" PROVE rec.token = Child(w)
      <4>1. proc[Child(w)].pc = "up" /\ OwnStack(Child(w), proc[Child(w)]) /\ Child(w) # None
        BY <1>2, <2>3, <3>1, JobFacts DEF Fits, Fit, Stack
      <4>2. proc[Child(w)].ours = Child(w)
        BY <4>1 DEF OwnStack, Minted, Booted, Listening, Holding, Registered, Complete
      <4>3. file[Job[w].home] = Child(w)
        BY <1>2, <2>5, <4>1, <4>2 DEF Quiet
      <4> QED
        BY <2>1, <2>4, <4>1, <4>3
    <3> QED
      BY <1>5, <2>3, <2>4, <3>1 DEF WindowQuiet
  <2> QED
    BY <1>1, <1>3, <2>2, <2>3, <2>4, <2>5, WindowStep
<1> QED
  BY <1>4, <1>5

LEMMA LastAskKeeps ==
    ASSUME MachineInv, mix' = mix, NEW w \in Here, LastAsk(w), UNCHANGED <<file, outdated>>
    PROVE  MachineInv'
<1>1. PICK answer \in Outcomes :
        Asked(w, FALSE, answer) /\ Set(w, Told(w, IF answer = "ok" THEN "serving" ELSE answer))
  BY DEF LastAsk
<1> DEFINE told == IF answer = "ok" THEN "serving" ELSE answer
<1>2. /\ proc[w].pc = "last" /\ proc[w].pc \in WindowPCs /\ proc[w].pc \in AskPCs
      /\ file' = file /\ outdated' = outdated /\ Set(w, Told(w, told)) /\ told \in Tolds
  BY <1>1 DEF LastAsk, WindowPCs, AskPCs, Tolds
<1>3. RefusalsKept /\ Spending /\ (Unspent => answer \in Answers(w, FALSE) \/ ~(\E x \in Here : Undisturbed(x)))
  BY <1>1, <1>2, AskStep
<1>4. Kin /\ Quiet /\ Job[w].kind = "window"
  BY <1>2, WindowFacts DEF MachineInv
<1> HIDE DEF told
<1>5. /\ Fit(w, Told(w, told)) /\ Fades(proc[w], Told(w, told)) /\ Told(w, told).pc = "open"
      /\ Told(w, told).told = told /\ Told(w, told).owns = proc[w].owns
      /\ Told(w, told).pc \in WindowPCs \ {"reach"}
  BY <1>2, ToldFits DEF WindowPCs
<1>6. Runs(Child(w)) => Told(w, told).owns
  BY <1>2, <1>4, <1>5 DEF Kin
<1>7. ASSUME Undisturbed(w), Unspent PROVE WindowQuiet(w, Told(w, told))
  <2>1. Registered(proc[Child(w)]) /\ proc[w].token = Child(w)
    BY <1>2, <1>4, <1>7 DEF Quiet
  <2>2. Answers(w, FALSE) = {"ok"}
    BY <1>7, <2>1, AnswersAlone
  <2>3. told = "serving"
    BY <1>3, <1>7, <2>2 DEF told
  <2> QED
    BY <1>5, <2>3 DEF WindowQuiet
<1> QED
  BY <1>2, <1>3, <1>5, <1>6, <1>7, WindowStep

\* The computer it started answers.
LEMMA PolledKeeps ==
    ASSUME MachineInv, mix' = mix, NEW w \in Here, proc[w].pc = "polls", UNCHANGED <<file, outdated>>,
           Asked(w, FALSE, "ok"), Set(w, [Asking(w, "last") EXCEPT !.owns = TRUE])
    PROVE  MachineInv'
<1>1. /\ proc[w].pc \in WindowPCs /\ proc[w].pc \in AskPCs /\ file' = file /\ outdated' = outdated
      /\ "last" \in WindowPCs \ {"reach"}
  BY DEF WindowPCs, AskPCs
<1>2. RefusalsKept /\ Spending /\ (Unspent => "ok" \in Answers(w, FALSE) \/ ~(\E x \in Here : Undisturbed(x)))
  BY <1>1, AskStep
<1>3. proc[w] \in Record /\ mix \in Mixes /\ Child(w) \in Here
  BY <1>1, WindowFacts DEF MachineInv
<1>4. PICK yes \in BOOLEAN : yes = TRUE
  OBVIOUS
<1> DEFINE rec == Moved(w, "last", Lookup(w, "last"), proc[w].found, proc[w].told, yes, proc[w].turned)
<1>5. /\ Lookup(w, "last") \in Tokens
      /\ file[Job[w].home] # None => Lookup(w, "last") = file[Job[w].home]
      /\ Asking(w, "last") = [proc[w] EXCEPT !.pc = "last", !.token = Lookup(w, "last")]
  BY <1>1, WindowLooks
<1>6. Set(w, rec)
  <2>1. [Asking(w, "last") EXCEPT !.owns = TRUE] = rec
    BY <1>3, <1>4, <1>5 DEF Record, Moved
  <2> QED
    BY <2>1
<1>7. proc[w].found \in Founds /\ proc[w].told \in Tolds /\ proc[w].turned \in BOOLEAN
  BY <1>3 DEF Record
<1>8. /\ Fit(w, rec) /\ Fades(proc[w], rec)
      /\ rec.pc = "last" /\ rec.token = Lookup(w, "last") /\ rec.owns = yes
  BY <1>1, <1>5, <1>7, WindowFits
<1> HIDE DEF rec
<1>9. ASSUME Undisturbed(w), Unspent PROVE WindowQuiet(w, rec)
  <2>1. Registered(proc[Child(w)]) /\ file[Job[w].home] = Child(w)
    BY <1>1, <1>2, <1>9, AloneAnswers
  <2>2. Child(w) # None
    BY <1>3, JobFacts
  <2> QED
    BY <1>5, <1>8, <2>1, <2>2 DEF WindowQuiet
<1> QED
  BY <1>1, <1>2, <1>4, <1>6, <1>8, <1>9, WindowStep

\* It does not, yet.
LEMMA PollAgainKeeps ==
    ASSUME MachineInv, mix' = mix, NEW w \in Here, proc[w].pc = "polls", UNCHANGED <<file, outdated>>,
           NEW answer, Asked(w, FALSE, answer), Set(w, [proc[w] EXCEPT !.pc = "poll"])
    PROVE  MachineInv'
<1>1. /\ proc[w].pc \in WindowPCs /\ proc[w].pc \in AskPCs /\ file' = file /\ outdated' = outdated
      /\ "poll" \in WindowPCs \ {"reach"}
  BY DEF WindowPCs, AskPCs
<1>2. RefusalsKept /\ Spending
  BY <1>1, AskStep
<1>3. proc[w] \in Record /\ Quiet
  BY <1>1, WindowFacts DEF MachineInv
<1> DEFINE rec == Moved(w, "poll", proc[w].token, proc[w].found, proc[w].told, proc[w].owns, proc[w].turned)
<1>4. Set(w, rec)
  BY <1>3 DEF Record, Moved
<1>5. /\ proc[w].found \in Founds /\ proc[w].told \in Tolds /\ proc[w].owns \in BOOLEAN
      /\ proc[w].turned \in BOOLEAN /\ proc[w].token \in Tokens
  BY <1>3 DEF Record
<1>6. Fit(w, rec) /\ Fades(proc[w], rec) /\ rec.pc = "poll"
  BY <1>1, <1>5, WindowFits
<1> HIDE DEF rec
<1>7. Undisturbed(w) => WindowQuiet(w, rec)
  BY <1>3, <1>6 DEF Quiet, WindowQuiet
<1> QED
  BY <1>1, <1>2, <1>4, <1>6, <1>7, WindowStep

\* Several processes change, and what each has it had before.
LEMMA FadingSteps ==
    ASSUME MachineInv, mix' = mix, file' = file, outdated' = outdated, Spending, RefusalsKept,
           DOMAIN proc' = Here, \A q \in Here : Fit(q, proc'[q]) /\ Fades(proc[q], proc'[q]),
           Kin', Quiet'
    PROVE  MachineInv'
<1>1. Types /\ Apart /\ Filed /\ Budgeted /\ mix \in Mixes /\ Here' = Here
  BY DEF MachineInv, Types, Here
<1>2. Fits'
  BY <1>1 DEF Fits, Fit, Stack, Handed, OwnStack, DaemonStack, Address
<1>3. Types'
  BY <1>1 DEF Types
<1>4. Apart' /\ Filed'
  BY <1>1, FadesKeep
<1>5. Budgeted'
  BY <1>1, BudgetKept
<1>6. outdated' \subseteq Here'
  BY <1>1 DEF MachineInv
<1> QED
  BY <1>2, <1>3, <1>4, <1>5, <1>6 DEF MachineInv, RefusalsKept

\* Kin and Quiet of the next state, spelt out.
LEMMA KinAgain ==
    ASSUME mix' = mix,
           \A q \in Here :
               /\ Job[q].parent # None /\ proc'[q].pc # "idle" => proc'[Job[q].parent].pc # "idle"
               /\ Job[q].kind = "tick" /\ proc'[q].pc # "idle" /\ proc'[Job[q].parent].pc \notin {"idle", "ended"} =>
                    Listening(proc'[Job[q].parent])
               /\ Job[q].kind = "window" =>
                    /\ proc'[q].pc \in {"idle", "reach"} => proc'[Child(q)].pc = "idle"
                    /\ proc'[q].pc \in {"last", "open", "turn"} /\ proc'[Child(q)].pc \notin {"idle", "ended"} => proc'[q].owns
    PROVE  Kin'
  BY DEF Kin, Runs, Listening, Holding, Registered, Complete, Child, Here

LEMMA QuietAgain ==
    ASSUME mix' = mix,
           \A x \in Here : Undisturbed(x)' =>
               /\ proc'[x].pc \in {"poll", "polls"} => proc'[Child(x)].pc \notin {"idle", "ended"}
               /\ proc'[x].pc = "polls" /\ proc'[x].found = "complete" =>
                    proc'[Child(x)].pc = "up" /\ proc'[x].token = Child(x)
               /\ proc'[x].pc = "last" => Registered(proc'[Child(x)]) /\ proc'[x].token = Child(x)
               /\ proc'[x].pc \in {"open", "turn"} => proc'[x].told = "serving"
               /\ proc'[Child(x)].ours # None => file'[Job[x].home] = Child(x)
    PROVE  Quiet'
  BY DEF Quiet, Runs, Registered, Complete, Child, Here

\* A window and the computer it started change together.
LEMMA PairStep ==
    ASSUME MachineInv, mix' = mix, file' = file, outdated' = outdated, Spending, RefusalsKept,
           NEW w \in Here, proc[w].pc \in WindowPCs,
           NEW rec, NEW crec, proc' = [proc EXCEPT ![w] = rec, ![Child(w)] = crec],
           Fit(w, rec), Fades(proc[w], rec), Fit(Child(w), crec), Fades(proc[Child(w)], crec),
           rec.pc \in WindowPCs \ {"reach"}, crec.pc # "idle",
           rec.pc \in {"last", "open", "turn"} => crec.pc = "ended",
           proc[Child(w)].pc = "ended" => crec.pc = "ended",
           Listening(proc[Child(w)]) => Listening(crec) \/ crec.pc = "ended",
           Undisturbed(w) /\ Unspent => rec.pc = "poll" /\ crec.pc # "ended" /\ crec.ours = None
    PROVE  MachineInv'
<1> DEFINE c == Child(w)
<1>1. /\ Types /\ Fits /\ Kin /\ mix \in Mixes /\ DOMAIN proc = Here /\ Budgeted
      /\ Job[w].kind = "window" /\ Job[w].parent = None
      /\ c \in Here /\ c # w /\ Job[c].kind = "up" /\ Job[c].parent = w
      /\ \A x \in Here \ {w} : ~Undisturbed(x)
  BY WindowFacts DEF MachineInv
<1>2. Here' = Here
  BY DEF Here
<1>3. /\ proc'[w] = rec /\ proc'[c] = crec /\ (\A q \in Here \ {w, c} : proc'[q] = proc[q])
      /\ DOMAIN proc' = Here
  BY <1>1
<1> HIDE DEF c
<1>4. \A q \in Here : Fit(q, proc'[q]) /\ Fades(proc[q], proc'[q])
  <2> SUFFICES ASSUME NEW q \in Here PROVE Fit(q, proc'[q]) /\ Fades(proc[q], proc'[q])
    OBVIOUS
  <2>1. CASE q = w
    BY <1>3, <2>1
  <2>2. CASE q = c
    BY <1>3, <2>2 DEF c
  <2>3. CASE q \notin {w, c}
    BY <1>1, <1>3, <2>3 DEF Fits, Fades
  <2> QED
    BY <2>1, <2>2, <2>3
<1>5. \A q \in Here : proc[q].pc # "idle" => proc'[q].pc # "idle"
  BY <1>3 DEF WindowPCs, c
<1>6. Kin'
  <2> SUFFICES ASSUME NEW q \in Here
               PROVE  /\ Job[q].parent # None /\ proc'[q].pc # "idle" => proc'[Job[q].parent].pc # "idle"
                      /\ Job[q].kind = "tick" /\ proc'[q].pc # "idle" /\ proc'[Job[q].parent].pc \notin {"idle", "ended"} =>
                           Listening(proc'[Job[q].parent])
                      /\ Job[q].kind = "window" =>
                           /\ proc'[q].pc \in {"idle", "reach"} => proc'[Child(q)].pc = "idle"
                           /\ proc'[q].pc \in {"last", "open", "turn"} /\ proc'[Child(q)].pc \notin {"idle", "ended"} => proc'[q].owns
    BY KinAgain
  <2>1. Job[q].parent # None /\ proc'[q].pc # "idle" => proc'[Job[q].parent].pc # "idle"
    <3>1. SUFFICES ASSUME Job[q].parent # None, proc'[q].pc # "idle" PROVE proc'[Job[q].parent].pc # "idle"
      OBVIOUS
    <3>2. Job[q].parent \in Here
      BY <1>1, <3>1, JobFacts
    <3>3. CASE q = c
      BY <1>1, <1>3, <3>3 DEF WindowPCs
    <3>4. CASE q # c
      BY <1>1, <1>3, <1>5, <3>1, <3>2, <3>4 DEF Kin
    <3> QED
      BY <3>3, <3>4
  <2>2. ASSUME Job[q].kind = "tick", proc'[q].pc # "idle", proc'[Job[q].parent].pc \notin {"idle", "ended"}
        PROVE  Listening(proc'[Job[q].parent])
    <3>1. Job[q].parent \in Here /\ Job[Job[q].parent].kind = "up" /\ q \notin {w, c}
      BY <1>1, <2>2, JobFacts
    <3>2. proc[q].pc # "idle" /\ Job[q].parent # w
      BY <1>1, <1>3, <2>2, <3>1
    <3>3. Job[q].parent # None
      BY <1>1, <2>2, JobFacts
    <3>4. CASE Job[q].parent = c
      <4>1. proc[c].pc \notin {"idle"}
        BY <1>1, <3>2, <3>3, <3>4 DEF Kin
      <4>2. CASE proc[c].pc = "ended"
        BY <1>3, <2>2, <3>4, <4>2 DEF c
      <4>3. CASE proc[c].pc # "ended"
        <5>1. Listening(proc[c])
          BY <1>1, <2>2, <3>2, <3>4, <4>1, <4>3 DEF Kin, Runs
        <5> QED
          BY <1>3, <2>2, <3>4, <5>1 DEF c
      <4> QED
        BY <4>2, <4>3
    <3>5. CASE Job[q].parent # c
      BY <1>1, <1>3, <2>2, <3>1, <3>2, <3>5 DEF Kin, Runs
    <3> QED
      BY <3>4, <3>5
  <2>3. ASSUME Job[q].kind = "window"
        PROVE  /\ proc'[q].pc \in {"idle", "reach"} => proc'[Child(q)].pc = "idle"
               /\ proc'[q].pc \in {"last", "open", "turn"} /\ proc'[Child(q)].pc \notin {"idle", "ended"} => proc'[q].owns
    <3>1. CASE q = w
      BY <1>3, <3>1 DEF WindowPCs, c
    <3>2. CASE q # w
      <4>1. Child(q) \in Here /\ Job[Child(q)].parent = q /\ Job[Child(q)].kind = "up"
        BY <1>1, <2>3, ChildFacts
      <4>2. q # c /\ Child(q) # c /\ Child(q) # w
        BY <1>1, <2>3, <3>2, <4>1
      <4> QED
        BY <1>1, <1>3, <2>3, <3>2, <4>1, <4>2 DEF Kin, Runs
    <3> QED
      BY <3>1, <3>2
  <2> QED
    BY <2>1, <2>2, <2>3
<1>7. Quiet'
  <2> SUFFICES ASSUME NEW x \in Here, Undisturbed(x)'
               PROVE  /\ proc'[x].pc \in {"poll", "polls"} => proc'[Child(x)].pc \notin {"idle", "ended"}
                      /\ proc'[x].pc = "polls" /\ proc'[x].found = "complete" =>
                           proc'[Child(x)].pc = "up" /\ proc'[x].token = Child(x)
                      /\ proc'[x].pc = "last" => Registered(proc'[Child(x)]) /\ proc'[x].token = Child(x)
                      /\ proc'[x].pc \in {"open", "turn"} => proc'[x].told = "serving"
                      /\ proc'[Child(x)].ours # None => file'[Job[x].home] = Child(x)
    BY QuietAgain
  <2>1. Undisturbed(x) /\ Unspent
    BY <1>1, <1>5, UndisturbedBefore
  <2>2. x = w
    BY <1>1, <2>1
  <2>3. rec.pc = "poll" /\ crec.pc \notin {"idle", "ended"} /\ crec.ours = None
    BY <2>1, <2>2
  <2> QED
    BY <1>3, <2>2, <2>3 DEF c
<1> QED
  BY <1>3, <1>4, <1>6, <1>7, FadingSteps

LEMMA ReachKeeps ==
    ASSUME MachineInv, mix' = mix, NEW w \in Here, Reach(w), UNCHANGED <<file, outdated>>
    PROVE  MachineInv'
<1>1. PICK answer \in Outcomes :
        /\ Asked(w, FALSE, answer)
        /\ IF answer \in {"ok", "refused"} THEN Set(w, Told(w, IF answer = "ok" THEN "serving" ELSE "refused"))
           ELSE proc' = [proc EXCEPT ![w].pc = "poll", ![Child(w)] = Begun(Child(w))]
  BY DEF Reach
<1>2. /\ proc[w].pc = "reach" /\ proc[w].pc \in WindowPCs /\ proc[w].pc \in AskPCs
      /\ file' = file /\ outdated' = outdated
      /\ "open" \in WindowPCs \ {"reach"} /\ "poll" \in WindowPCs \ {"reach"}
  BY DEF Reach, WindowPCs, AskPCs
<1>3. RefusalsKept /\ Spending /\ (Unspent => answer \in Answers(w, FALSE) \/ ~(\E x \in Here : Undisturbed(x)))
  BY <1>1, <1>2, AskStep
<1>4. /\ Types /\ Fits /\ Kin /\ mix \in Mixes /\ DOMAIN proc = Here /\ Job[w].kind = "window" /\ proc[w] \in Record
      /\ Child(w) \in Here /\ Child(w) # w /\ Job[Child(w)].kind = "up"
  BY <1>2, WindowFacts
<1>5. proc[Child(w)].pc = "idle"
  BY <1>2, <1>4 DEF Kin
<1>6. ASSUME Undisturbed(w), Unspent PROVE answer = "unreachable"
  <2>1. At(Target(w)) = {}
    BY <1>2, <1>5, <1>6, AloneAnswers
  <2> QED
    BY <1>3, <1>6, <2>1 DEF Answers
<1>7. CASE answer \in {"ok", "refused"}
  <2> DEFINE told == IF answer = "ok" THEN "serving" ELSE "refused"
  <2>1. Set(w, Told(w, told)) /\ told \in Tolds
    BY <1>1, <1>7 DEF Tolds, Outcomes
  <2> HIDE DEF told
  <2>2. Fit(w, Told(w, told)) /\ Fades(proc[w], Told(w, told)) /\ Told(w, told).pc = "open"
    BY <1>2, <2>1, ToldFits
  <2>3. ~Runs(Child(w)) /\ ~(Undisturbed(w) /\ Unspent)
    BY <1>5, <1>6, <1>7 DEF Runs
  <2> QED
    BY <1>2, <1>3, <2>1, <2>2, <2>3, WindowStep
<1>8. CASE answer \notin {"ok", "refused"}
  <2> DEFINE rec  == Moved(w, "poll", proc[w].token, proc[w].found, proc[w].told, proc[w].owns, proc[w].turned)
             crec == [proc[Child(w)] EXCEPT !.pc = "check"]
  <2>1. /\ proc[w].found \in Founds /\ proc[w].told \in Tolds /\ proc[w].owns \in BOOLEAN
        /\ proc[w].turned \in BOOLEAN /\ proc[w].token \in Tokens
    BY <1>4 DEF Record
  <2>2. Fit(w, rec) /\ Fades(proc[w], rec) /\ rec.pc = "poll"
    BY <1>2, <2>1, WindowFits
  <2>3. Begun(Child(w)) = crec
    BY <1>4 DEF Begun, Order
  <2>4. rec = [proc[w] EXCEPT !.pc = "poll"]
    BY <1>4 DEF Record, Moved
  <2>5. proc' = [proc EXCEPT ![w] = rec, ![Child(w)] = crec]
    BY <1>1, <1>8, <2>3, <2>4
  <2>6. Fit(Child(w), proc[Child(w)]) /\ proc[Child(w)] \in Record
    BY <1>4 DEF Fits, Fit
  <2>7. ~Minted(proc[Child(w)]) /\ ~Listening(proc[Child(w)]) /\ proc[Child(w)].ours = None
    BY <1>4, <1>5, <2>6 DEF Fit, Stack, OwnStack, Minted, Booted, Listening, Holding, Registered, Complete
  <2>8. Fit(Child(w), crec) /\ Fades(proc[Child(w)], crec) /\ crec.pc = "check" /\ crec.ours = None
    <3>1. /\ crec.pc = "check" /\ crec.found = proc[Child(w)].found
          /\ crec.ours = proc[Child(w)].ours /\ crec.admits = proc[Child(w)].admits
          /\ crec.bound = proc[Child(w)].bound /\ crec.serves = proc[Child(w)].serves
          /\ crec.holds = proc[Child(w)].holds /\ crec.guest = proc[Child(w)].guest
      BY <2>6 DEF Record
    <3>2. crec \in Record
      BY <2>6 DEF Record, PCs
    <3> HIDE DEF crec
    <3>3. ~Minted(crec) /\ crec.pc \in PcsOf(Job[Child(w)].kind) \ {"idle", "probe"}
          /\ (crec.found # "nothing" => Job[Child(w)].kind \in {"run", "window"})
      BY <1>4, <2>6, <3>1
         DEF Minted, Booted, Listening, Holding, Registered, Complete, PcsOf, StackPCs, Fit, Stack
    <3>4. Fit(Child(w), crec)
      BY <1>4, <2>7, <3>1, <3>2, <3>3, BareMove
    <3> QED
      BY <2>7, <3>1, <3>4 DEF Fades
  <2> HIDE DEF rec, crec
  <2>9. proc[Child(w)].pc # "ended"
    BY <1>5
  <2> QED
    BY <1>2, <1>3, <2>2, <2>5, <2>7, <2>8, <2>9, PairStep
<1> QED
  BY <1>7, <1>8

\* It gives up, and ends what it started: not while nothing disturbs it.
LEMMA GivenUpKeeps ==
    ASSUME MachineInv, mix' = mix, NEW w \in Here, proc[w].pc \in WindowPCs, GivenUp(w),
           file' = file, outdated' = outdated, Spending, RefusalsKept, ~(Undisturbed(w) /\ Unspent)
    PROVE  MachineInv'
<1>1. Types /\ Fits /\ mix \in Mixes /\ Child(w) \in Here
  BY WindowFacts
<1> DEFINE rec  == Told(w, "failed")
           crec == Ended(Child(w), "killed")
<1>2. Fit(w, rec) /\ Fades(proc[w], rec) /\ rec.pc = "open"
  <2>1. "failed" \in Tolds
    BY DEF Tolds
  <2> QED
    BY <2>1, ToldFits
<1>3. /\ Fit(Child(w), crec) /\ crec.pc = "ended" /\ crec.bound = None /\ crec.ours = None
      /\ crec.admits = None /\ crec.holds = FALSE
  <2>1. "killed" \in Tolds /\ Fit(Child(w), proc[Child(w)])
    BY <1>1 DEF Tolds, Fits
  <2> QED
    BY <1>1, <2>1, EndedFits
<1>4. proc' = [proc EXCEPT ![w] = rec, ![Child(w)] = crec]
  BY DEF GivenUp
<1> HIDE DEF rec, crec
<1>5. Fades(proc[Child(w)], crec)
  BY <1>3 DEF Fades
<1>6. rec.pc \in WindowPCs \ {"reach"}
  BY <1>2 DEF WindowPCs
<1> QED
  BY <1>2, <1>3, <1>4, <1>5, <1>6, PairStep

LEMMA PollsKeeps ==
    ASSUME MachineInv, mix' = mix, NEW w \in Here, Polls(w), UNCHANGED <<file, outdated>>
    PROVE  MachineInv'
<1>1. proc[w].pc = "polls" /\ proc[w].pc \in WindowPCs /\ proc[w].pc \in AskPCs
      /\ file' = file /\ outdated' = outdated
  BY DEF Polls, WindowPCs, AskPCs
<1>2. CASE Asked(w, FALSE, "ok") /\ Set(w, [Asking(w, "last") EXCEPT !.owns = TRUE])
  BY <1>1, <1>2, PolledKeeps
<1>3. ASSUME NEW answer \in Outcomes \ {"ok"}, Asked(w, FALSE, answer),
             IF Deadline(w, answer) THEN GivenUp(w) ELSE Set(w, [proc[w] EXCEPT !.pc = "poll"])
      PROVE  MachineInv'
  <2>1. RefusalsKept /\ Spending /\ (Unspent => answer \in Answers(w, FALSE) \/ ~(\E x \in Here : Undisturbed(x)))
    BY <1>1, <1>3, AskStep
  <2>2. CASE ~Deadline(w, answer)
    BY <1>1, <1>3, <2>2, PollAgainKeeps
  <2>3. CASE Deadline(w, answer)
    <3>1. ASSUME Undisturbed(w), Unspent PROVE FALSE
      <4>1. proc[Child(w)].pc = "up" /\ proc[w].token = Child(w)
        BY <1>1, <2>3, <3>1 DEF MachineInv, Quiet, Deadline
      <4>2. Answers(w, FALSE) = {"ok"}
        <5>1. Registered(proc[Child(w)])
          BY <4>1 DEF Registered, Complete
        <5> QED
          BY <3>1, <4>1, <5>1, AnswersAlone
      <4> QED
        BY <1>3, <2>1, <3>1, <4>2
    <3> QED
      BY <1>1, <1>3, <2>1, <2>3, <3>1, GivenUpKeeps
  <2> QED
    BY <2>2, <2>3
<1> QED
  BY <1>2, <1>3 DEF Polls

LEMMA ImpatientKeeps ==
    ASSUME MachineInv, mix' = mix, NEW w \in Here, Impatient(w), UNCHANGED <<file, outdated>>
    PROVE  MachineInv'
<1>1. /\ proc[w].pc \in WindowPCs /\ Spend("patience") /\ GivenUp(w) /\ refused' = refused
      /\ file' = file /\ outdated' = outdated
  BY DEF Impatient, WindowPCs
<1>2. mix \in Mixes /\ Budgeted
  BY DEF MachineInv, Types
<1>3. ~(Undisturbed(w) /\ Unspent)
  BY <1>1, <1>2, Spent DEF Undisturbed, Unspent
<1>4. RefusalsKept /\ Spending
  BY <1>1, SameRefusals DEF Spending
<1> QED
  BY <1>1, <1>3, <1>4, GivenUpKeeps

LEMMA DisconnectKeeps ==
    ASSUME MachineInv, mix' = mix, NEW w \in Here, Disconnect(w)
    PROVE  MachineInv'
<1> DEFINE gone == Family(w)
<1>1. /\ proc[w].pc = "open" /\ proc[w].pc \in WindowPCs /\ Unspent /\ Spending
      /\ file' = file /\ refused' = refused /\ outdated' = outdated
      /\ proc' = [p \in Here |-> IF p = w THEN Ended(w, "left")
                                 ELSE IF p \in gone /\ Runs(p) THEN Ended(p, "killed") ELSE proc[p]]
  BY DEF Disconnect, GoesWith, Unspent, Spending, WindowPCs
<1>2. /\ Types /\ Fits /\ Kin /\ mix \in Mixes /\ DOMAIN proc = Here /\ Budgeted
      /\ Job[w].kind = "window" /\ Job[w].parent = None
      /\ \A x \in Here \ {w} : ~Undisturbed(x)
  BY <1>1, WindowFacts DEF MachineInv
<1>3. \A q \in gone : Job[q].parent = w
  BY DEF Family
<1> HIDE DEF gone
<1>4. ASSUME NEW q \in Here
      PROVE  /\ Fit(q, proc'[q]) /\ Fades(proc[q], proc'[q])
             /\ proc'[q].pc = "idle" <=> proc[q].pc = "idle"
             /\ proc'[q] # proc[q] => proc'[q].pc = "ended" /\ (q = w \/ Job[q].parent = w)
  <2>1. \A told \in Tolds : /\ Fit(q, Ended(q, told)) /\ Ended(q, told).pc = "ended"
                            /\ Fades(proc[q], Ended(q, told))
    <3>1. Fit(q, proc[q])
      BY <1>2 DEF Fits
    <3> QED
      BY <1>2, <3>1, EndedFits DEF Fades
  <2>2. CASE proc'[q] = proc[q]
    BY <1>2, <2>2 DEF Fits, Fades
  <2>3. CASE proc'[q] # proc[q]
    <3>1. Runs(q) /\ \E told \in Tolds : proc'[q] = Ended(q, told)
      BY <1>1, <2>3 DEF Tolds, Runs
    <3>2. q = w \/ Job[q].parent = w
      BY <1>1, <1>3, <2>3
    <3> QED
      BY <2>1, <3>1, <3>2 DEF Runs
  <2> QED
    BY <2>2, <2>3
<1>5. Kin'
  <2> SUFFICES ASSUME NEW q \in Here
               PROVE  /\ Job[q].parent # None /\ proc'[q].pc # "idle" => proc'[Job[q].parent].pc # "idle"
                      /\ Job[q].kind = "tick" /\ proc'[q].pc # "idle" /\ proc'[Job[q].parent].pc \notin {"idle", "ended"} =>
                           Listening(proc'[Job[q].parent])
                      /\ Job[q].kind = "window" =>
                           /\ proc'[q].pc \in {"idle", "reach"} => proc'[Child(q)].pc = "idle"
                           /\ proc'[q].pc \in {"last", "open", "turn"} /\ proc'[Child(q)].pc \notin {"idle", "ended"} => proc'[q].owns
    BY KinAgain
  <2>1. Job[q].parent # None => Job[q].parent \in Here
    BY <1>2, JobFacts
  <2>2. Job[q].kind = "window" => Child(q) \in Here
    BY <1>2, ChildFacts
  <2>3. Job[q].parent # None /\ proc'[q].pc # "idle" => proc'[Job[q].parent].pc # "idle"
    BY <1>2, <1>4, <2>1 DEF Kin
  <2>4. ASSUME Job[q].kind = "tick", proc'[q].pc # "idle", proc'[Job[q].parent].pc \notin {"idle", "ended"}
        PROVE  Listening(proc'[Job[q].parent])
    <3>1. Job[q].parent \in Here
      BY <1>2, <2>1, <2>4, JobFacts
    <3>2. proc'[Job[q].parent] = proc[Job[q].parent] /\ proc[q].pc # "idle"
      BY <1>4, <2>4, <3>1
    <3> QED
      BY <1>2, <2>4, <3>2 DEF Kin, Runs
  <2>5. ASSUME Job[q].kind = "window"
        PROVE  /\ proc'[q].pc \in {"idle", "reach"} => proc'[Child(q)].pc = "idle"
               /\ proc'[q].pc \in {"last", "open", "turn"} /\ proc'[Child(q)].pc \notin {"idle", "ended"} => proc'[q].owns
    <3>1. proc'[q].pc \in {"idle", "reach", "last", "open", "turn"} => proc'[q] = proc[q]
      BY <1>4
    <3>2. proc'[Child(q)].pc = "idle" <=> proc[Child(q)].pc = "idle"
      BY <1>4, <2>2, <2>5
    <3>3. proc'[Child(q)].pc # "ended" => proc'[Child(q)] = proc[Child(q)]
      BY <1>4, <2>2, <2>5
    <3> QED
      BY <1>2, <2>5, <3>1, <3>2, <3>3 DEF Kin, Runs
  <2> QED
    BY <2>3, <2>4, <2>5
<1>6. Quiet'
  <2> SUFFICES ASSUME NEW x \in Here, Undisturbed(x)'
               PROVE  /\ proc'[x].pc \in {"poll", "polls"} => proc'[Child(x)].pc \notin {"idle", "ended"}
                      /\ proc'[x].pc = "polls" /\ proc'[x].found = "complete" =>
                           proc'[Child(x)].pc = "up" /\ proc'[x].token = Child(x)
                      /\ proc'[x].pc = "last" => Registered(proc'[Child(x)]) /\ proc'[x].token = Child(x)
                      /\ proc'[x].pc \in {"open", "turn"} => proc'[x].told = "serving"
                      /\ proc'[Child(x)].ours # None => file'[Job[x].home] = Child(x)
    BY QuietAgain
  <2>1. Undisturbed(x)
    BY <1>1, <1>2, <1>4, UndisturbedBefore
  <2>2. x = w
    BY <1>2, <2>1
  <2>3. proc'[w].pc = "ended"
    <3>1. "left" \in Tolds /\ Fit(w, proc[w])
      BY <1>2 DEF Tolds, Fits
    <3>2. proc'[w] = Ended(w, "left")
      BY <1>1
    <3> QED
      BY <3>2 DEF Ended, Idle
  <2>4. proc'[Child(w)].ours # None => file'[Job[w].home] = Child(w)
    <3>1. Child(w) \in Here
      BY <1>2, ChildFacts
    <3>2. Fades(proc[Child(w)], proc'[Child(w)])
      BY <1>4, <3>1
    <3> QED
      BY <1>1, <2>1, <2>2, <3>2 DEF Fades, MachineInv, Quiet
  <2> QED
    BY <2>2, <2>3, <2>4
<1>7. RefusalsKept
  BY <1>1, SameRefusals
<1>8. DOMAIN proc' = Here
  BY <1>1
<1> QED
  BY <1>1, <1>4, <1>5, <1>6, <1>7, <1>8, FadingSteps

-----------------------------------------------------------------------------
(***************************************************************************)
(* The machine.                                                            *)
(***************************************************************************)

LEMMA MachineStays ==
    ASSUME MachineInv, Spending, UNCHANGED <<mix, file, proc, refused, outdated>>
    PROVE  MachineInv'
<1>1. /\ Types /\ Fits /\ Kin /\ Quiet /\ Budgeted /\ mix \in Mixes /\ Here' = Here /\ DOMAIN proc = Here
  BY DEF MachineInv, Types, Here
<1>2. RefusalsKept
  BY SameRefusals
<1>3. \A q \in Here : Fit(q, proc'[q]) /\ Fades(proc[q], proc'[q])
  BY <1>1 DEF Fits, Fades
<1>4. Kin'
  BY <1>1 DEF Kin, Runs, Listening, Holding, Registered, Complete, Child, Here
<1>5. Quiet'
  <2>1. ASSUME NEW x \in Here, Undisturbed(x)' PROVE Undisturbed(x)
    BY <1>1, <2>1, UndisturbedBefore
  <2> QED
    BY <1>1, <2>1 DEF Quiet, Runs, Registered, Complete, Child, Here
<1> QED
  BY <1>1, <1>2, <1>3, <1>4, <1>5, FadingSteps

LEMMA MachineSteps ==
    ASSUME MachineInv, mix' = mix, NEW p \in Here,
           \/ Start(p) \/ Tick(p) \/ Step(p) \/ Stop(p) \/ Crash(p)
           \/ Impatient(p) /\ UNCHANGED <<file, outdated>>
           \/ Turn(p) \/ Disconnect(p) \/ \E v \in Here : OpenComputer(p, v)
    PROVE  MachineInv'
<1>1. CASE Starting(p)
  BY <1>1, StartingKeeps
<1>2. CASE Asks2(p)
  BY <1>2, ProbeKeeps, ConnectKeeps, WorksKeeps, ReachKeeps, PollKeeps, PollsKeeps, LastAskKeeps, TurnedKeeps
     DEF Asks2
<1> QED
  BY <1>1, <1>2, StartKeeps, TickKeeps, StopKeeps, CrashKeeps, ImpatientKeeps, TurnKeeps, DisconnectKeeps,
     OpenComputerKeeps DEF Step

LEMMA MachineInit ==
    ASSUME Init
    PROVE  MachineInv
<1>1. /\ mix \in Mixes /\ budget = mix.budget /\ file = [h \in Homes |-> None]
      /\ proc = [p \in Here |-> Idle] /\ refused = {} /\ outdated = {}
  BY DEF Init
<1>2. Types
  BY <1>1 DEF Types, Tokens
<1>3. ASSUME NEW p \in Here PROVE Fit(p, Idle)
  <2>1. Job[p].kind \in Kinds
    BY <1>1, JobFacts
  <2>2. Idle \in Record
    BY DEF Idle, Record, PCs, Tokens, Tolds, Founds
  <2>3. /\ Idle.pc = "idle" /\ Idle.ours = None /\ Idle.found = "nothing" /\ Idle.bound = None
        /\ Idle.admits = None /\ Idle.serves = FALSE /\ Idle.holds = FALSE /\ Idle.guest = FALSE
    BY DEF Idle
  <2>4. ~Minted(Idle) /\ ~Booted(Idle) /\ ~Listening(Idle) /\ ~Holding(Idle) /\ ~Registered(Idle)
    BY <2>3 DEF Minted, Booted, Listening, Holding, Registered, Complete
  <2>5. OwnStack(p, Idle) /\ DaemonStack(p, Idle)
    BY <2>3, <2>4 DEF OwnStack, DaemonStack
  <2>6. Stack(p, Idle)
    BY <2>1, <2>3, <2>5 DEF Stack, PcsOf, StackPCs, Kinds
  <2>7. Handed(p, Idle)
    BY <2>3, <2>4 DEF Handed
  <2> QED
    BY <2>2, <2>6, <2>7 DEF Fit
<1>4. Fits
  BY <1>1, <1>3 DEF Fits
<1>5. Apart /\ Filed
  BY <1>1 DEF Apart, Filed, Idle
<1>6. ASSUME NEW p \in Here, Job[p].kind = "window" PROVE Child(p) \in Here
  BY <1>1, <1>6, ChildFacts
<1>7. Kin
  BY <1>1, <1>6 DEF Kin, Idle
<1>8. Quiet
  BY <1>1, <1>6 DEF Quiet, Idle, Undisturbed
<1>9. Budgeted
  <2>1. mix.budget \in [DOMAIN mix.budget -> Nat]
    BY <1>1, ComputerAssumption
  <2> QED
    BY <1>1, <2>1 DEF Budgeted
<1>10. OwnHubAdmits /\ RefusalsHaveAReason
  BY <1>1 DEF OwnHubAdmits, RefusalsHaveAReason
<1> QED
  BY <1>1, <1>2, <1>4, <1>5, <1>7, <1>8, <1>9, <1>10 DEF MachineInv

-----------------------------------------------------------------------------
(***************************************************************************)
(* The viewer.                                                             *)
(***************************************************************************)

LEMMA ViewInits ==
    ASSUME ViewInit
    PROVE  ViewInv
<1>1. ViewTypeOK
  BY DEF ViewInit, ViewTypeOK, Stages
<1>2. Hand
  BY DEF ViewInit, Hand, Under
<1> QED
  BY <1>1, <1>2 DEF ViewInv

LEMMA GoFacts ==
    ASSUME ViewTypeOK, NEW r \in Requests, NEW stage \in Stages, Go(r, stage)
    PROVE  /\ ask' \in [Requests -> Stages] /\ ask'[r] = stage
           /\ \A x \in Requests \ {r} : ask'[x] = ask[x]
  BY DEF ViewTypeOK, Go

\* Once the kinds are right, a request on its way is of use to the person as long as nothing crossed.
LEMMA SendHolds ==
    ASSUME ViewInv, NEW r \in Requests, Send(r)
    PROVE  ViewInv'
<1>1. ViewTypeOK /\ Hand /\ "sent" \in Stages
  BY DEF ViewInv, Stages
<1>2. /\ ask[r] = "unsent" /\ Go(r, "sent") /\ UNCHANGED <<driving, holder, locked>>
      /\ crossed' = (crossed \/ (Asks[r].kind = "takeover" /\ Under("release") # {})
                             \/ (Asks[r].kind = "release" /\ Under("takeover") # {}))
  BY DEF Send
<1>3. ask' \in [Requests -> Stages] /\ ask'[r] = "sent" /\ \A x \in Requests \ {r} : ask'[x] = ask[x]
  BY <1>1, <1>2, GoFacts
<1>4. ViewTypeOK'
  <2>1. crossed' \in BOOLEAN
    BY <1>2
  <2> QED
    BY <1>1, <1>2, <1>3, <2>1 DEF ViewTypeOK
<1>5. Hand'
  <2>1. \A x \in Requests : ask'[x] \notin {"unsent", "sent", "answered", "refused"} => ask[x] = ask'[x]
    BY <1>3
  <2>2. ASSUME ~crossed' PROVE Under("takeover")' = {} \/ Under("release")' = {}
    <3>1. ~crossed /\ (Under("takeover") = {} \/ Under("release") = {})
      BY <1>1, <1>2, <2>2 DEF Hand
    <3>2. CASE Asks[r].kind = "takeover"
      <4>1. Under("release") = {}
        BY <1>2, <2>2, <3>2
      <4>2. Under("release")' = {}
        BY <1>3, <3>2, <4>1 DEF Under
      <4> QED
        BY <4>2
    <3>3. CASE Asks[r].kind = "release"
      <4>1. Under("takeover") = {}
        BY <1>2, <2>2, <3>3
      <4>2. Under("takeover")' = {}
        BY <1>3, <3>3, <4>1 DEF Under
      <4> QED
        BY <4>2
    <3>4. CASE Asks[r].kind \notin {"takeover", "release"}
      BY <1>3, <3>1, <3>4 DEF Under
    <3> QED
      BY <3>2, <3>3, <3>4
  <2>3. ~crossed' => ~crossed
    BY <1>2
  <2> QED
    BY <1>1, <1>2, <1>3, <2>1, <2>2, <2>3 DEF Hand
<1> QED
  BY <1>4, <1>5 DEF ViewInv

\* What must be so of a request that goes on.
LEMMA HandStep ==
    ASSUME ViewInv, NEW r \in Requests, NEW stage \in Stages \ {"unsent", "sent"}, Go(r, stage), crossed' = crossed,
           ask[r] \notin {"unsent", "answered", "refused"},
           stage \in {"claims", "claimed"} => Asks[r].kind = "takeover",
           stage = "returns" => Asks[r].kind = "release",
           stage \in {"waits", "calls", "allowed", "acts"} => Asks[r].kind \in {"input", "frame"},
           driving' \in BOOLEAN, holder' \in {Nobody, "viewer", "other"}, locked' \in Requests \cup {Nobody},
           ~crossed => /\ \A x \in Requests : ask'[x] = "claimed" => holder' = "viewer"
                       /\ driving' => holder' = "viewer" /\ \A x \in Requests : ask'[x] # "returns"
    PROVE  ViewInv'
<1>1. ViewTypeOK /\ Hand
  BY DEF ViewInv
<1>2. ask' \in [Requests -> Stages] /\ ask'[r] = stage /\ \A x \in Requests \ {r} : ask'[x] = ask[x]
  BY <1>1, GoFacts
<1>3. ViewTypeOK'
  BY <1>1, <1>2 DEF ViewTypeOK
<1>4. Under("takeover")' \subseteq Under("takeover") /\ Under("release")' \subseteq Under("release")
  BY <1>2 DEF Under
<1>5. Hand'
  BY <1>1, <1>2, <1>4 DEF Hand
<1> QED
  BY <1>3, <1>5 DEF ViewInv

LEMMA RoutedHolds ==
    ASSUME ViewInv, NEW r \in Requests, Routed(r)
    PROVE  ViewInv'
<1>1. ViewTypeOK /\ Hand
  BY DEF ViewInv
<1>2. ask[r] = "sent" /\ UNCHANGED <<holder, locked, crossed>>
  BY DEF Routed
<1>3. Asks[r].kind \in {"takeover", "release", "input", "frame"}
  BY ViewerAssumption
<1>4. CASE Go(r, "refused") /\ UNCHANGED driving
  <2>1. "refused" \in Stages \ {"unsent", "sent"}
    BY DEF Stages
  <2>2. ask'[r] = "refused" /\ \A x \in Requests \ {r} : ask'[x] = ask[x]
    BY <1>1, <1>4, <2>1, GoFacts
  <2> QED
    BY <1>1, <1>2, <1>4, <2>1, <2>2, HandStep DEF Hand, ViewTypeOK
<1>5. ASSUME NEW stage, Go(r, stage), driving' = (driving /\ Asks[r].kind # "release"),
             \/ Asks[r].kind = "takeover" /\ stage = "claims"
             \/ Asks[r].kind = "release" /\ stage = "returns"
             \/ Asks[r].kind \in {"input", "frame"} /\ stage = "waits"
      PROVE  ViewInv'
  <2>1. stage \in Stages \ {"unsent", "sent"} /\ stage # "claimed"
    BY <1>5 DEF Stages
  <2>2. ask'[r] = stage /\ \A x \in Requests \ {r} : ask'[x] = ask[x]
    BY <1>1, <1>5, <2>1, GoFacts
  <2>3. driving' \in BOOLEAN
    BY <1>5
  <2>4. ASSUME ~crossed
        PROVE  /\ \A x \in Requests : ask'[x] = "claimed" => holder' = "viewer"
               /\ driving' => holder' = "viewer" /\ \A x \in Requests : ask'[x] # "returns"
    BY <1>1, <1>2, <1>5, <2>1, <2>2, <2>4 DEF Hand
  <2> QED
    BY <1>1, <1>2, <1>5, <2>1, <2>3, <2>4, HandStep DEF ViewTypeOK
<1>6. \/ Go(r, "refused") /\ UNCHANGED driving
      \/ \E stage : /\ Go(r, stage) /\ driving' = (driving /\ Asks[r].kind # "release")
                    /\ \/ Asks[r].kind = "takeover" /\ stage = "claims"
                       \/ Asks[r].kind = "release" /\ stage = "returns"
                       \/ Asks[r].kind \in {"input", "frame"} /\ stage = "waits"
  <2> DEFINE table == [takeover |-> "claims", release |-> "returns", input |-> "waits", frame |-> "waits"]
  <2>1. \/ Go(r, "refused") /\ UNCHANGED driving
        \/ Go(r, table[Asks[r].kind]) /\ driving' = (driving /\ Asks[r].kind # "release")
    BY DEF Routed
  <2>2. \/ Asks[r].kind = "takeover" /\ table[Asks[r].kind] = "claims"
        \/ Asks[r].kind = "release" /\ table[Asks[r].kind] = "returns"
        \/ Asks[r].kind \in {"input", "frame"} /\ table[Asks[r].kind] = "waits"
    BY <1>3
  <2> QED
    BY <2>1, <2>2
<1> QED
  BY <1>4, <1>5, <1>6

LEMMA ViewStepHolds ==
    ASSUME ViewInv, NEW r \in Requests, ViewStep(r)
    PROVE  ViewInv'
<1>1. ViewTypeOK /\ Hand
  BY DEF ViewInv
<1>2. CASE Routed(r)
  BY <1>2, RoutedHolds
<1>3. CASE Claims(r)
  <2>1. ask[r] = "claims" /\ UNCHANGED <<driving, locked, crossed>> /\ Asks[r].kind = "takeover"
    BY <1>1, <1>3 DEF Claims, Hand
  <2>2. CASE holder = "other"
    <3>1. Go(r, "refused") /\ UNCHANGED holder /\ "refused" \in Stages \ {"unsent", "sent"}
      BY <1>3, <2>2 DEF Claims, Stages
    <3>2. ask'[r] = "refused" /\ \A x \in Requests \ {r} : ask'[x] = ask[x]
      BY <1>1, <3>1, GoFacts
    <3> QED
      BY <1>1, <2>1, <3>1, <3>2, HandStep DEF Hand, ViewTypeOK
  <2>3. CASE holder # "other"
    <3>1. Go(r, "claimed") /\ holder' = "viewer" /\ "claimed" \in Stages \ {"unsent", "sent"}
      BY <1>3, <2>3 DEF Claims, Stages
    <3>2. ask'[r] = "claimed" /\ \A x \in Requests \ {r} : ask'[x] = ask[x]
      BY <1>1, <3>1, GoFacts
    <3> QED
      BY <1>1, <2>1, <3>1, <3>2, HandStep DEF Hand, ViewTypeOK
  <2> QED
    BY <2>2, <2>3
<1>4. CASE Claimed(r)
  <2>1. /\ ask[r] = "claimed" /\ driving' = TRUE /\ UNCHANGED <<holder, locked, crossed>>
        /\ Go(r, "answered") /\ "answered" \in Stages \ {"unsent", "sent"} /\ Asks[r].kind = "takeover"
    BY <1>1, <1>4 DEF Claimed, Stages, Hand
  <2>2. ask'[r] = "answered" /\ \A x \in Requests \ {r} : ask'[x] = ask[x]
    BY <1>1, <2>1, GoFacts
  <2>3. ASSUME ~crossed PROVE holder = "viewer" /\ \A x \in Requests : ask[x] # "returns"
    <3>1. Under("release") = {}
      BY <1>1, <2>1, <2>3 DEF Hand, Under
    <3> QED
      BY <1>1, <2>1, <2>3, <3>1 DEF Hand, Under
  <2> QED
    BY <1>1, <2>1, <2>2, <2>3, HandStep DEF ViewTypeOK
<1>5. CASE Returns(r)
  <2>1. /\ ask[r] = "returns" /\ holder' = (IF holder = "viewer" THEN Nobody ELSE holder)
        /\ UNCHANGED <<driving, locked, crossed>>
        /\ Go(r, "answered") /\ "answered" \in Stages \ {"unsent", "sent"} /\ Asks[r].kind = "release"
    BY <1>1, <1>5 DEF Returns, Stages, Hand
  <2>2. ask'[r] = "answered" /\ \A x \in Requests \ {r} : ask'[x] = ask[x]
    BY <1>1, <2>1, GoFacts
  <2>3. ASSUME ~crossed PROVE ~driving /\ \A x \in Requests : ask[x] # "claimed"
    <3>1. Under("takeover") = {}
      BY <1>1, <2>1, <2>3 DEF Hand, Under
    <3> QED
      BY <1>1, <2>1, <2>3, <3>1 DEF Hand, Under
  <2> QED
    BY <1>1, <2>1, <2>2, <2>3, HandStep DEF ViewTypeOK
<1>6. CASE Locks(r) \/ Decides(r) \/ Forwards(r) \/ Acted(r)
  <2>1. /\ ask[r] \in {"waits", "calls", "allowed", "acts"} /\ UNCHANGED <<driving, holder, crossed>>
        /\ locked' \in Requests \cup {Nobody} /\ Asks[r].kind \in {"input", "frame"}
        /\ \E stage \in {"calls", "allowed", "acts", "refused", "answered"} : Go(r, stage)
    BY <1>1, <1>6 DEF Locks, Decides, Forwards, Acted, Hand, ViewTypeOK
  <2>2. PICK stage \in {"calls", "allowed", "acts", "refused", "answered"} : Go(r, stage)
    BY <2>1
  <2>3. stage \in Stages \ {"unsent", "sent"}
    BY DEF Stages
  <2>4. ask'[r] = stage /\ \A x \in Requests \ {r} : ask'[x] = ask[x]
    BY <1>1, <2>2, <2>3, GoFacts
  <2> QED
    BY <1>1, <2>1, <2>2, <2>3, <2>4, HandStep DEF Hand, ViewTypeOK
<1> QED
  BY <1>2, <1>3, <1>4, <1>5, <1>6 DEF ViewStep

LEMMA OtherHoldsHolds ==
    ASSUME ViewInv, OtherHolds
    PROVE  ViewInv'
<1>1. ViewTypeOK /\ Hand
  BY DEF ViewInv
<1>2. holder \in {Nobody, "other"} /\ holder' \in {Nobody, "other"} /\ UNCHANGED <<driving, locked, ask, crossed>>
  BY DEF OtherHolds
<1>3. holder # "viewer"
  BY <1>2, ViewerAssumption
<1>4. ViewTypeOK'
  BY <1>1, <1>2 DEF ViewTypeOK
<1>5. Under("takeover")' = Under("takeover") /\ Under("release")' = Under("release")
  BY <1>2 DEF Under
<1>6. Hand'
  BY <1>1, <1>2, <1>3, <1>5 DEF Hand
<1> QED
  BY <1>4, <1>6 DEF ViewInv

-----------------------------------------------------------------------------
(***************************************************************************)
(* The theorems.                                                           *)
(***************************************************************************)

LEMMA NextKeeps ==
    ASSUME IInv, [Next]_vars
    PROVE  IInv'
<1>1. MachineInv /\ ViewInv /\ mix \in Mixes
  BY DEF IInv, MachineInv, Types
<1>2. viewVars' = viewVars => ViewInv'
  BY <1>1 DEF viewVars, ViewInv, ViewTypeOK, Hand, Under
<1>3. ASSUME \E p \in Here :
               \/ Start(p) \/ Tick(p) \/ Step(p) \/ Stop(p) \/ Crash(p)
               \/ Impatient(p) /\ UNCHANGED <<file, outdated>>
               \/ Turn(p) \/ Disconnect(p) \/ \E v \in Here : OpenComputer(p, v),
             UNCHANGED <<mix, viewVars>>
      PROVE  IInv'
  <2>1. mix' = mix /\ viewVars' = viewVars
    BY <1>3
  <2>2. MachineInv'
    BY <1>1, <1>3, <2>1, MachineSteps
  <2> QED
    BY <1>2, <2>1, <2>2 DEF IInv
<1>4. ASSUME \E r \in mix.requests : Send(r) \/ ViewStep(r),
             UNCHANGED <<mix, budget, file, proc, refused, outdated>>
      PROVE  IInv'
  <2>1. PICK r \in mix.requests : Send(r) \/ ViewStep(r)
    BY <1>4
  <2>2. r \in Requests
    BY <1>1, ComputerAssumption
  <2>3. ViewInv'
    BY <1>1, <2>1, <2>2, SendHolds, ViewStepHolds
  <2>4. Spending
    BY <1>4 DEF Spending, Unspent
  <2>5. MachineInv'
    BY <1>1, <1>4, <2>4, MachineStays
  <2> QED
    BY <2>3, <2>5 DEF IInv
<1>5. ASSUME OtherHolds, Spend("other"), UNCHANGED <<mix, file, proc, refused, outdated>>
      PROVE  IInv'
  <2>1. ViewInv'
    BY <1>1, <1>5, OtherHoldsHolds
  <2>2. Spending
    BY <1>5 DEF Spending
  <2>3. MachineInv'
    BY <1>1, <1>5, <2>2, MachineStays
  <2> QED
    BY <2>1, <2>3 DEF IInv
<1>6. CASE UNCHANGED vars
  <2>1. viewVars' = viewVars /\ UNCHANGED <<mix, budget, file, proc, refused, outdated>>
    BY <1>6 DEF vars
  <2>2. Spending
    BY <2>1 DEF Spending, Unspent
  <2>3. MachineInv'
    BY <1>1, <2>1, <2>2, MachineStays
  <2> QED
    BY <1>2, <2>1, <2>3 DEF IInv
<1> QED
  BY <1>3, <1>4, <1>5, <1>6 DEF Next

\* The whole of the invariant, in every state.
THEOREM MachineInvariant == Spec => []IInv
<1>1. Init => IInv
  BY MachineInit, ViewInits DEF Init, IInv
<1>2. IInv /\ [Next]_vars => IInv'
  BY NextKeeps
<1> QED
  BY <1>1, <1>2, PTL DEF Spec

\* No process is refused by the hub it started or is a timer of, and a client of the same home is
\* refused only because a token changed: since the hub minted its own, or between the look at the
\* file and the hello (Up::start writes the token before the hub listens; find_hub_token).
THEOREM RefusalsAreForAReason == Spec => []NobodyIsRefusedForNothing
<1>1. IInv => NobodyIsRefusedForNothing
  BY DEF IInv, MachineInv, NobodyIsRefusedForNothing
<1> QED
  BY <1>1, MachineInvariant, PTL

LEMMA Typed ==
    ASSUME IInv
    PROVE  TypeOK
<1>1. Types /\ Fits /\ ViewTypeOK /\ outdated \subseteq Here
      /\ refused \subseteq [by : Here, hub : Here, changed : BOOLEAN]
  BY DEF IInv, MachineInv, ViewInv
<1>2. ASSUME NEW p \in Here
      PROVE  /\ proc[p].pc \in PCs /\ proc[p].ours \in {p, None} /\ proc[p].token \in Tokens
             /\ proc[p].bound \in Ports \cup {None} /\ proc[p].admits \in Tokens \cup {Anyone}
             /\ {proc[p].serves, proc[p].holds, proc[p].guest, proc[p].owns, proc[p].turned} \subseteq BOOLEAN
  <2>1. Fit(p, proc[p])
    BY <1>1 DEF Fits
  <2>2. proc[p].ours \in {p, None}
    BY <2>1 DEF Fit, Stack, OwnStack, DaemonStack
  <2> QED
    BY <2>1, <2>2 DEF Fit, Record
<1> QED
  BY <1>1, <1>2 DEF TypeOK, Types

\* What a process whose computer is registered has.
LEMMA GuestHas ==
    ASSUME Types, Fits, NEW p \in Here, proc[p].guest \/ (proc[p].bound # None /\ Registered(proc[p])),
           Job[p].kind # "daemon"
    PROVE  proc[p].guest /\ proc[p].serves /\ proc[p].holds /\ proc[p].bound = Address(p) /\ Address(p) # None
<1>1. OwnStack(p, proc[p])
  BY DEF Fits, Fit, Stack
<1>2. Registered(proc[p])
  BY <1>1 DEF OwnStack
<1>3. Listening(proc[p]) /\ Holding(proc[p])
  BY <1>2 DEF Listening, Holding
<1>4. Address(p) # None
  BY AddressFacts DEF Types
<1> QED
  BY <1>1, <1>2, <1>3, <1>4 DEF OwnStack

LEMMA Serving ==
    ASSUME IInv
    PROVE  OneWriter /\ ReadyMeansServing
<1>1. Types /\ Fits /\ Apart
  BY DEF IInv, MachineInv
<1>2. ASSUME NEW p \in Here, NEW q \in Here, p # q, proc[p].guest, proc[q].guest
      PROVE  Place(p) # Place(q)
  <2>1. Job[p].kind # "daemon" /\ Job[q].kind # "daemon"
    BY <1>1, <1>2 DEF Fits, Fit, Stack, DaemonStack
  <2>2. proc[p].holds /\ proc[q].holds
    BY <1>1, <1>2, <2>1, GuestHas
  <2> QED
    BY <1>1, <1>2, <2>2 DEF Apart
<1>3. ASSUME NEW p \in Here, proc[p].pc \in {"up", "works"}, Job[p].kind # "daemon", proc[p].bound # None
      PROVE  proc[p].guest /\ proc[p].serves /\ proc[p].holds /\ At(Address(p)) = {p}
  <2>1. Registered(proc[p])
    <3>1. OwnStack(p, proc[p])
      BY <1>1, <1>3 DEF Fits, Fit, Stack
    <3>2. Listening(proc[p])
      BY <1>3, <3>1 DEF OwnStack
    <3> QED
      BY <1>3, <3>2 DEF Listening, Holding
  <2>2. /\ proc[p].guest /\ proc[p].serves /\ proc[p].holds
        /\ proc[p].bound = Address(p) /\ Address(p) # None
    BY <1>1, <1>3, <2>1, GuestHas
  <2>3. p \in At(Address(p))
    BY <2>2 DEF At
  <2> QED
    BY <1>1, <2>2, <2>3, OneListens
<1> QED
  BY <1>2, <1>3 DEF OneWriter, ReadyMeansServing

\* A computer that is called ready serves, alone at its place; a window that nothing disturbs gets one;
\* whoever is shown as driving a computer holds it (up.rs, engine.rs, watch.rs).
THEOREM ReadyIsServed == Spec => []ReadyComputersServe
<1>1. IInv => ReadyComputersServe
  <2> SUFFICES ASSUME IInv PROVE ReadyComputersServe
    OBVIOUS
  <2>1. UndisturbedGetsAComputer
    BY DEF IInv, MachineInv, Quiet, Undisturbed, UndisturbedGetsAComputer
  <2>2. DrivingMeansHolding
    BY DEF IInv, ViewInv, Hand, DrivingMeansHolding
  <2> QED
    BY <2>1, <2>2, Typed, Serving DEF ReadyComputersServe
<1> QED
  BY <1>1, MachineInvariant, PTL

(***************************************************************************)
(* What a step may not do.                                                 *)
(***************************************************************************)

\* Who goes from a probe to a start has probed.
LEMMA OnlyAProbe ==
    ASSUME IInv, [Next]_vars, NEW p \in Here, proc[p].pc = "probe", proc'[p].pc = "check"
    PROVE  Probe(p)
<1>1. Types /\ Fits /\ Kin /\ MachineInv /\ mix \in Mixes /\ DOMAIN proc = Here
  BY DEF IInv, MachineInv, Types
<1>2. Job[p].kind = "run"
  BY <1>1, KindsOf DEF Fits
<1>3. proc' # proc
  OBVIOUS
<1>4. PICK q \in Here :
               \/ Start(q) \/ Tick(q) \/ Step(q) \/ Stop(q) \/ Crash(q)
               \/ Impatient(q) /\ UNCHANGED <<file, outdated>>
               \/ Turn(q) \/ Disconnect(q) \/ \E v \in Here : OpenComputer(q, v)
  BY <1>3 DEF Next, vars
<1>5. ASSUME NEW x \in Here, NEW rec, Set(x, rec) PROVE x = p /\ proc'[p] = rec
  BY <1>1, <1>5 DEF Set
<1>6. ASSUME NEW x \in Here, proc[x].pc \in WindowPCs PROVE Child(x) # p /\ x # p
  BY <1>1, <1>2, <1>6, WindowFacts
<1>7. ASSUME NEW x \in Here, proc[x].pc \in WindowPCs, NEW rec, NEW crec,
             proc' = [proc EXCEPT ![x] = rec, ![Child(x)] = crec]
      PROVE  FALSE
  BY <1>1, <1>6, <1>7
<1>8. ~Start(q) /\ ~Tick(q) /\ ~Stop(q)
  BY <1>5 DEF Start, Tick, Stop
<1>9. \A told : Ended(p, told).pc = "ended"
  BY DEF Ended, Idle
<1>10. ~Crash(q)
  BY <1>5, <1>9 DEF Crash
<1>11. ~Impatient(q)
  BY <1>7 DEF Impatient, GivenUp, WindowPCs
<1>12. ~Turn(q) /\ ~Disconnect(q)
  <2>1. ~Turn(q)
    BY <1>5 DEF Turn
  <2>2. ~Disconnect(q)
    BY <1>6, <1>9, <1>1 DEF Disconnect, WindowPCs
  <2> QED
    BY <2>1, <2>2
<1>13. \A v \in Here : ~OpenComputer(q, v)
  BY <1>5 DEF OpenComputer
<1>14. Step(q)
  BY <1>4, <1>8, <1>10, <1>11, <1>12, <1>13
<1>15. ~Starting(q)
  BY <1>5 DEF Starting, Check, WriteToken, Boot, Bind, Admission, Hold, Registers, Ready, Advance
<1>16. ~Reach(q) /\ ~Poll(q) /\ ~Polls(q) /\ ~LastAsk(q) /\ ~Turned(q)
  <2>1. ~Reach(q)
    BY <1>1, <1>5, <1>7 DEF Reach, WindowPCs
  <2>2. ~Polls(q)
    BY <1>5, <1>7 DEF Polls, GivenUp, WindowPCs
  <2> QED
    BY <1>5, <2>1, <2>2 DEF Poll, LastAsk, Turned
<1>17. ~Connect(q) /\ ~Works(q)
  BY <1>5 DEF Connect, Works
<1>18. Probe(q)
  BY <1>14, <1>15, <1>16, <1>17 DEF Step, Asks2
<1> QED
  BY <1>5, <1>18 DEF Probe

\* Who leaves has disconnected.
LEMMA OnlyADisconnect ==
    ASSUME IInv, [Next]_vars, NEW w \in Here, proc[w].pc = "open", proc'[w].pc = "ended", proc'[w].told = "left"
    PROVE  Disconnect(w)
<1>1. Types /\ Fits /\ Kin /\ MachineInv /\ mix \in Mixes /\ DOMAIN proc = Here
  BY DEF IInv, MachineInv, Types
<1>2. Job[w].kind = "window" /\ Job[w].parent = None
  BY <1>1, WindowFacts DEF WindowPCs
<1>3. proc' # proc
  OBVIOUS
<1>4. PICK q \in Here :
               \/ Start(q) \/ Tick(q) \/ Step(q) \/ Stop(q) \/ Crash(q)
               \/ Impatient(q) /\ UNCHANGED <<file, outdated>>
               \/ Turn(q) \/ Disconnect(q) \/ \E v \in Here : OpenComputer(q, v)
  BY <1>3 DEF Next, vars
<1>5. ASSUME NEW x \in Here, NEW rec, Set(x, rec) PROVE x = w /\ proc'[w] = rec
  BY <1>1, <1>5 DEF Set
<1>6. ASSUME NEW x \in Here, proc[x].pc \in WindowPCs \ {"open"}, NEW rec, NEW crec,
             proc' = [proc EXCEPT ![x] = rec, ![Child(x)] = crec]
      PROVE  FALSE
  <2>1. Job[Child(x)].kind = "up"
    BY <1>1, <1>6, WindowFacts
  <2> QED
    BY <1>1, <1>2, <1>6, <2>1
<1>7. ~Start(q) /\ ~Tick(q) /\ ~Stop(q)
  BY <1>5 DEF Start, Tick, Stop
<1>8. ~Crash(q)
  <2>1. Ended(w, "crashed").told = "crashed"
    BY DEF Ended, Idle
  <2> QED
    BY <1>5, <2>1 DEF Crash
<1>9. ~Impatient(q)
  BY <1>6 DEF Impatient, GivenUp, WindowPCs
<1>10. ~Turn(q)
  <2>1. [Asking(w, "turn") EXCEPT !.turned = TRUE].pc = "turn"
    <3>1. proc[w] \in Record
      BY <1>1 DEF Fits, Fit
    <3> QED
      BY <3>1 DEF Asking, Record
  <2> QED
    BY <1>5, <2>1 DEF Turn
<1>11. \A v \in Here : ~OpenComputer(q, v)
  BY <1>5 DEF OpenComputer
<1>12. ~Starting(q)
  BY <1>5 DEF Starting, Check, WriteToken, Boot, Bind, Admission, Hold, Registers, Ready, Advance
<1>13. ~Asks2(q)
  <2>1. ~Reach(q)
    BY <1>1, <1>5, <1>6 DEF Reach, WindowPCs
  <2>2. ~Polls(q)
    <3>1. proc[q].pc = "polls" => ~GivenUp(q) /\ \A rec : ~Set(q, rec)
      BY <1>5, <1>6 DEF GivenUp, WindowPCs
    <3> QED
      BY <3>1 DEF Polls
  <2>3. ~Poll(q) /\ ~LastAsk(q) /\ ~Turned(q)
    BY <1>5 DEF Poll, LastAsk, Turned
  <2>4. ~Probe(q) /\ ~Connect(q) /\ ~Works(q)
    BY <1>5 DEF Probe, Connect, Works
  <2> QED
    BY <2>1, <2>2, <2>3, <2>4 DEF Asks2
<1>14. Disconnect(q)
  BY <1>4, <1>7, <1>8, <1>9, <1>10, <1>11, <1>12, <1>13 DEF Step
<1>15. q = w
  <2>1. q # w => w \notin Family(q)
    BY <1>1, <1>2, JobFacts DEF Family
  <2>2. q # w => proc'[w] = proc[w]
    BY <1>14, <2>1 DEF Disconnect, GoesWith
  <2> QED
    BY <2>2
<1> QED
  BY <1>14, <1>15

\* Its computer and its viewer go with a window, and nobody else.
LEMMA FamilyGoes ==
    ASSUME IInv, NEW w \in Here, Disconnect(w), NEW q \in Here \ {w}, Runs(q)
    PROVE  proc'[q].pc = "ended" <=> Job[q].parent = w
<1>1. /\ MachineInv /\ Kin /\ mix \in Mixes /\ proc[w].pc = "open" /\ proc[w].pc \in WindowPCs
  BY DEF IInv, MachineInv, Types, Disconnect, WindowPCs
<1>2. Job[w].kind = "window" /\ w # None
  BY <1>1, WindowFacts, JobFacts
<1>3. proc'[q] = IF q \in Family(w) THEN Ended(q, "killed") ELSE proc[q]
  BY DEF Disconnect, GoesWith
<1>4. Ended(q, "killed").pc = "ended" /\ proc[q].pc \notin {"idle", "ended"}
  BY DEF Ended, Idle, Runs
<1>5. q \in Family(w) <=> Job[q].parent = w
  <2>1. ASSUME Job[q].parent = w PROVE Job[q].kind = "watch" \/ proc[w].owns
    <3>1. Job[q].kind \in {"watch", "up"}
      BY <1>1, <1>2, <2>1, JobFacts
    <3>2. CASE Job[q].kind = "up"
      <4>1. q = Child(w)
        BY <1>1, <1>2, <2>1, <3>2, ChildFacts
      <4> QED
        BY <1>1, <1>2, <4>1 DEF Kin
    <3> QED
      BY <3>1, <3>2
  <2> QED
    BY <1>4, <2>1 DEF Family
<1> QED
  BY <1>3, <1>4, <1>5

\* An input that is allowed is allowed by whoever holds the computer.
LEMMA FreshConsent ==
    ASSUME IInv, [Next]_vars, NEW r \in Requests, Asks[r].kind = "input", ask[r] = "calls", ask'[r] = "allowed", ~crossed
    PROVE  holder = "viewer"
<1>1. ViewTypeOK /\ Hand /\ mix \in Mixes
  BY DEF IInv, ViewInv, MachineInv, Types
<1>2. PICK x \in mix.requests : Send(x) \/ ViewStep(x)
  BY DEF Next, vars, viewVars, OtherHolds
<1>3. x \in Requests
  BY <1>1, <1>2, ComputerAssumption
<1>4. ASSUME NEW stage, Go(x, stage) PROVE x = r /\ stage = "allowed"
  BY <1>1, <1>3, <1>4 DEF Go, ViewTypeOK
<1>5. Decides(r)
  BY <1>2, <1>4 DEF Send, ViewStep, Routed, Claims, Claimed, Returns, Locks, Decides, Forwards, Acted
<1>6. driving
  BY <1>1, <1>5 DEF Decides, Allows, Go, ViewTypeOK
<1> QED
  BY <1>1, <1>6 DEF Hand

\* A run starts its own computer only if nothing was there or nothing answered in time, a window that
\* leaves ends its own and only its own, and an input is let through only if, at the moment
\* the hub asks about it, its person holds the computer (hub_or_start, disconnect, decide).
THEOREM CommandsKeepToTheirOwn == Spec => NoSecondComputer /\ OnlyItsOwnEnds /\ ConsentIsFresh
<1>1. IInv /\ [Next]_vars =>
        [\A p \in Here : Job[p].kind = "run" /\ proc[p].pc = "probe" /\ proc'[p].pc = "check"
           => At(Job[p].port) = {} \/ budget' # budget]_vars
  <2> SUFFICES ASSUME IInv, [Next]_vars, NEW p \in Here, Job[p].kind = "run",
                      proc[p].pc = "probe", proc'[p].pc = "check"
               PROVE  At(Job[p].port) = {} \/ budget' # budget
    OBVIOUS
  <2>1. Probe(p)
    BY OnlyAProbe
  <2>2. Types /\ Fits /\ mix \in Mixes /\ DOMAIN proc = Here /\ Budgeted
    BY DEF IInv, MachineInv, Types
  <2>3. PICK answer \in Outcomes :
          /\ Asked(p, TRUE, answer)
          /\ Set(p, IF answer = "ok" THEN Asking(p, "connect")
                    ELSE IF StartsItsOwn(answer) THEN [Begun(p) EXCEPT !.found = answer]
                    ELSE Ended(p, answer))
    BY <2>1 DEF Probe
  <2>4. answer \in {"unreachable", "slow"}
    <3>1. Asking(p, "connect").pc = "connect"
      BY <2>2, AskingIs
    <3>2. Ended(p, answer).pc = "ended"
      BY DEF Ended, Idle
    <3> QED
      BY <2>2, <2>3, <3>1, <3>2 DEF Set, StartsItsOwn
  <2>5. Target(p) = Job[p].port
    <3>1. OwnStack(p, proc[p]) /\ ~Listening(proc[p])
      BY <2>2 DEF Fits, Fit, Stack, Listening, Holding, Registered, Complete
    <3> QED
      BY <3>1 DEF OwnStack, Target
  <2>6. CASE answer \in Answers(p, TRUE)
    <3>1. At(Target(p)) = {}
      BY <2>4, <2>6 DEF Answers
    <3> QED
      BY <2>5, <3>1
  <2>7. CASE Spend("slow")
    <3>1. budget["slow"] \in Nat /\ budget["slow"] > 0 /\ "slow" \in DOMAIN budget
          /\ budget' = [budget EXCEPT !["slow"] = budget["slow"] - 1]
      BY <2>2, <2>7 DEF Budgeted, Spend
    <3>2. budget'["slow"] = budget["slow"] - 1
      BY <3>1
    <3> QED
      BY <3>1, <3>2
  <2> QED
    BY <2>3, <2>6, <2>7 DEF Asked
<1>2. IInv /\ [Next]_vars =>
        [\A w \in Here : Job[w].kind = "window" /\ proc[w].pc = "open" /\ proc'[w].pc = "ended"
            /\ proc'[w].told = "left"
          => \A q \in Here \ {w} : Runs(q) =>
                ((proc'[q].pc = "ended") <=> (Job[q].parent = w))]_vars
  BY OnlyADisconnect, FamilyGoes
<1>3. IInv /\ [Next]_vars =>
        [\A r \in Requests : Asks[r].kind = "input" /\ ask[r] = "calls" /\ ask'[r] = "allowed" /\ ~crossed
            => holder = "viewer"]_viewVars
  BY FreshConsent
<1> QED
  BY <1>1, <1>2, <1>3, MachineInvariant, PTL DEF Spec, NoSecondComputer, OnlyItsOwnEnds, ConsentIsFresh

=============================================================================
