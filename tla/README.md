# botroster: a verification project

TLA+ models of botroster (the Rust workspace under `src/crates/`), the TLC runs
that check them on small instances, and TLAPS proofs of what matters most. Every
definition is translated from the source; `PROJECT.json` names, per definition,
the lines it stands for, and per property the mutation of the code that breaks
it.

To check a run: `tlc -config Hub.cfg MCHubScripts` (section 3 says which module
goes with which `.cfg`). To check the proofs: `tlapm HubProofs.tla`, and so
on for every module whose name ends in `Proofs`.

## 1. The system

botroster runs "Bots": agent loops (harnesses) whose tools are executed on
computers by tool servers (guests). A daemon, `botrosterd`, is the Computer Hub
between them. Everything speaks JSON frames over WebSockets.

| Part | Source | State it keeps | Operations | What makes it correct | Modules |
|---|---|---|---|---|---|
| Computer Hub router | `botrosterd/src/hub.rs`, `server.rs` | connections, registered servers, sessions, questions it asked, relays, calls in flight, takeovers, all behind one mutex | hello, disconnect, session open/close/bind, serve, tool call, approval and credential answers, progress, takeover/release, replay | one answer per call; nothing runs without permission; nothing leaks when a peer leaves; the record agrees with the answers | `Hub`, `Promise`, `HubPromise` |
| Approval policy | `botrosterd/src/policy.rs` | rules, fallback, grants of the session | evaluate, "always" | refusals beat everything, order is irrelevant, a grant lifts prompts only where it was given; a url decides by what it means | `Policy`, `PolicySession`, `PolicyText` |
| PreToolUse hooks | `botrosterd/src/hooks.rs` | none | run external checks before a call | a call runs only with the leave of every hook that matches it | `Daemon`, `Hub` |
| Session record | `botrosterd/src/record.rs` | a queue, a counter and a file per session | note, write, read back for replay | one line per call, in order, of what it was called with | `Daemon`, `Hub` |
| Secrets, connectors, skills | `secrets.rs`, `connector.rs`, `internal.rs`, `skills.rs`, `bot_tools.rs` | files under the home directory | edit, probe, list, invoke | a call goes to its owner and finds what is stored now; an acknowledged edit stays | `Daemon`, `Sources` |
| Daemon boot, `up`, `run`, tokens | `botrosterd/src/boot.rs`, `main.rs`; `botroster-cli/src/up.rs`, `main.rs`; `botroster-desktop/src/hub.rs`; `botroster-proto/src/lib.rs` | processes, ports, a token file, a workspace lock | start, probe, bind, serve, stop | "ready" is said of a computer that serves; two computers never share a place; nobody is refused without a reason | `Computer` |
| Viewer | `botroster-cli/src/watch.rs` | who drives | frame, takeover, release, input | nothing is typed without the computer in hand | `Viewer` |
| Volume store | `botroster-store/src/lib.rs` | workspace, staging and retired directories, index, manifests, blobs, two OS locks | open (with recovery), attach, snapshot, restore, prune | a listed snapshot keeps its bytes; a restore never loses or halves a workspace | `Volume` |
| Bots, inboxes, groups | `botroster-bots/src/lib.rs` | JSON files per Bot | deliver, drain, recover, roster edits | a handoff arrives once and in order; groups name Bots there are | `Bots` |
| Routines and schedule | `botroster-bots/src/lib.rs`, `schedule.rs` | routine files, seen events | due, record run, back-off, sleep, edit | a firing is worked off once, and stays owed until it is | `Routines`, `Schedule` |
| Agent loop, hub client, providers | `botroster-agent/src/agent.rs`, `hub_client.rs`, `transient.rs`, `providers/http.rs` | a conversation, calls that wait on a connection | turn, call, retry, redirect, stop, save | what is sent is a conversation the provider takes; what is saved is whole; turns end | `Turn`, `Provider` |
| Guest | `botroster-guest/src/client.rs`, `tools.rs`, `main.rs` | the connection, its back-off, calls as tasks | serve, reconnect, stop | every call ends; answers go back where they came from; paths stay inside | `Guest`, `Workspace` |
| Guest browser | `botroster-guest/src/browser.rs` | one handle on Chrome, pending commands, refs | launch, adopt, act, shut down | a ref acts on what was seen; a browser that lives can be found | `Chrome` |
| ACP server | `botroster-cli/src/acp/*` | sessions, one turn in each | prompt, join, cancel, load, ask | one turn at a time, every prompt read or its sender told | `Acp` |
| Desktop engine and shell | `botroster-desktop/src/*`, `botroster-app/*` | streams, an inbox, dialogs, commands | send, show, ask, stop, load | the window shows a conversation as it was, and what a person decides is what happens | `Window` |

**Interactions.** A harness opens a session and binds it to a server id; the hub
asks the guest for its catalogue. A tool call passes replay, policy, hooks, an
approval prompt to the session's owner, and is then served by the hub or
forwarded to the guest. Progress and the answer come back over the guest's
connection. Notes go to the record's writer. A person takes over a computer with
a session of their own. A guest started with a volume attaches to it; the command
line opens the same volume directory from other processes. A window talks to one
`botroster acp` over a pipe; the turns in it are agent loops with a hub
connection each. `up` starts a hub, a guest and a scheduler; commands and windows
find it by probing a port and reading a token in the home.

**Hard behaviours.** Every request in the hub runs on a task of its own and gives
up the mutex between critical sections: what it read may have changed. Three
endings race for a forwarded call (answer, disconnect, deadline). Connections are
lost and made again under the same server id. Prompts wait for people. Volumes,
Bots, routines and settings are files shared by processes that may die between
any two renames, mostly without locks. `PROJECT.json` ("hazards") lists each
place with its line and the properties that watch it.

## 2. The modules

One module per component; `MC<name>` holds the values of its constants for TLC.
Where a component falls in two, the part that can be read alone is a module the
other extends: `Schedule` under `Routines`, `Provider` under `Turn`, `Acp` under
`Window`, `Chrome` and `Workspace` under `Guest`, `Viewer` under `Computer`,
`Sources` under `Daemon`, `Policy` under `Hub` and `PolicySession`.

Two conventions run through them. A constant `Mixes` (or `Scripts` of the hub) is
a set of *accounts*: who is there, what they are asked, and a `budget` of what may
go wrong (a crash, a lost socket, a slow probe); `Init` picks one, so one run
explores many small instances and none of their products. And a variable that the
code does not keep, a *history* or *ghost* variable (`heard`, `delivered`, `versions`,
`raced`, `clashed`, `missed`, `dropped`, `disturbed`, ...), remembers what a property has to
compare with, or that one of the races listed under "Divergences" took place, which
that property then excludes by name.

### Policy, PolicySession, PolicyText

A rule's glob is the set of tool names it matches, its `when` an argument pattern
as a set of values; deny beats ask beats allow in one scan, and a grant is
consulted after the scan and before the ask (`Scan`, `Granted`, `Evaluate`).
`PolicySession` starts with any policy of the catalogue and lets a person answer
"always" to any prompt it raises. `PolicyText` computes what the other two take as
constants: globs by letters, `url_origin` and the private ranges from a url's
parts, and the policies the hub ships with. A glob has three outcomes there, since the
scan for a second star steps by bytes: it matches, differs, or panics inside a letter of
several bytes (`Wide`); `Outcome` is what that leaves of a verdict.

### Hub, Promise, HubPromise

`conns` is the connection table with what the hub's own task for the connection
does; `servers`, `sessions`, `hubCalls`, `relays`, `calls` and `takeovers` are the
tables of `hub.rs`'s `State`. `task[r]` is the task of request `r`: `pc` is the
next critical section it will run, the other fields are its local variables.
`ending` and `reading` are the two pieces of work that span sections outside
request tasks (`finish_relay` and the relay of a progress frame). `answers`,
`noted`, `delivered`, `hubRan`, `heard` and `quiet` are history.

One action is one critical section of the mutex, with the steps after it that
nothing else can tell apart. Responses and notifications are handled inline by
their connection's reader, so a guest's reader does one thing at a time (`Idle`);
a request gets a task. The order of a tool call is `CallReplayed`/`CallLive`
(the replay branch), `ConsultPolicy`, `HookPasses`/`HookVetoes`,
`Ask`/`Answer`/`GiveUp` and `Approved`/`Refused`, then `AskForSecret` and
`StoreSecret`, `InvokeInternal`, or `Route` and `Forward`. A relay leaves the
table with `ServerAnswers`, `Deadline` or `FailCalls`, whoever comes first, then
`Retire` and `Finish`.

Abstractions: frames are requests of a constant set, each made at most once, and
`Req[r].after` bounds the client, not the hub; a connection is a constant, and a
peer that reconnects is another element of `Conns` with the same `ServerOf`; a
send is part of the critical section before it unless a disconnect in between can
be observed; `GiveUp` is the timeout, or the sender dropped by a disconnect; a
minted session id is any id not in use; refused hellos, malformed parameters and
requests of the wrong role change no state and are left out, as are `ping`,
`tools.list` and `servers.list`; a recorded step is its call.

`Promise` is what the hub promises about a tool call without saying how: it runs
once, only after somebody entitled to it let it through, and its caller is told
once and truly. `HubPromise` is the refinement mapping; `KeepsItsPromise` is
`Promise`'s specification under it.

### Volume

State is the disk: `current`, `staging` and `retired` are directories (a tree, or
`None`), `nextSeq` and `listed` are `meta.json`, `manifests` and `blobs` the
store, `mutator` and `guest` the holders of the two OS locks. Content is its own
hash. `proc[p]` is a process and the local variables of its operation. One action
is one file operation (a file written aside and renamed into place, a directory
renamed or removed). `Store::volume` and its recovery (`Open` to `Make`) take no
lock, as in the code; the mutations do. `Fail` is an I/O error (or a guard that
fails), `Crash` the end of the process; both release its locks.

### Bots

A command of the CLI, a `bot.send` of the hub and a run are *jobs*: processes that
read, replace, append to, rename or remove one file per step and may die between
two. Files have identities, since a process that opened an inbox to append keeps
it when the inbox is renamed to `.taken`. A run drains (`recover_inbox`, rename,
read, remove), then works; the roster commands check and write profiles and groups.

### Routines, Schedule

`Schedule` is cron's fields and when a time matches them, with a clock that may be
put back. In `Routines` a process is `up` (a timer that spawns a tick), a tick from
cron, or a command of a person or a webhook. Each reads routine files whole and
replaces them whole; a run of the agent takes any time. `did` and `ran` record what
was worked off, `disturbed` the routines that a crash, a stale save or a second
scheduler came between.

### Turn, Provider

`Provider` has messages as blocks, the two vendors' requests and answers, and when
each accepts a conversation. A `Turn` is a process with a loop, a reader and a writer
on one hub connection: it seeds its window from the conversation file
(`window`, `repair_window`, `compact`), asks, calls tools and waits, takes what a
person says meanwhile, and appends what it added line by line. The hub and the
socket may go at any moment, the process may die in the middle of a line.

### Acp, Window

`Acp` is the process at the other end of the pipe: it reads one message at a time
(`Receive`: open, prompt, cancel), and its turns are tasks (`Top`, `Think`,
`PassOn`, `Ask`, `Answer`, `End`, `Joined`). A turn is `Turn`'s, here it only says
something, asks and ends. `Window` is the page, the shell's commands and the engine:
a message on screen is a command that drains both streams, keeps what is another
conversation's in the inbox, puts questions on screen and looks for its answer
(`Drain`, `Keep`, `Show`, `Park`, `Withdraw`); a person clicks, stops, opens,
reloads. A step is what happens under one lock.

### Guest, Workspace, Chrome

`Guest` is the supervisor (`connect`, `serve`, `drain`, back off), every tool call as
a task, the writer of each connection, and the ends of the process. `Workspace` is
`Workspace::resolve` over a file system with links, which other calls may change
between the look-up and the use. A shell works, exits or is killed with its call; what
it detached is on its own from then on (`detached`, "left"). `Chrome` is the one handle the calls share: launch
or adopt under the lock, commands with ids over a socket with a reader, snapshots and
their refs, clicks and the navigation they cause, probes that time out.

### Computer, Viewer

Every process of one machine: `up`, `botrosterd`, `run`, a client, a tick, a viewer,
windows and the `up` they spawn. A start checks paths, takes or mints a token, boots,
binds, waits for admission, holds the workspace, starts its guest and says "ready";
a command probes, connects or starts its own; a window polls, opens, turns. `Viewer`
is the page of `watch` with its concurrent requests and the hub's idea of the holder: the
hub first asks the viewer about an input (`Decides`), then, in a section of its own, looks
who holds the computer (`Forwards`), and a takeover or a release may come in between.

### Daemon, Sources

`Sources` is names: globs of hooks, connector ids, wire names, what the record keeps
of a value. `Daemon` is the boot (connectors are probed, their ids heard), a call
through its hooks to whoever serves it, the edits of the files of a home by other
processes (`json.tmp` and a rename), and the record's writer with its queue. A hook
approves, denies, fails, hangs, or neither reads its question nor ends ("blocks"); one that
blocks holds a call whose question is more than the pipe takes (`large`), since the question
is written before the deadline begins. A line in a record is whole, half of it, or all but
its end: a crash leaves such pieces, and so does a disk that refuses the rest (`Drops`).
`Readable` is what `steps` makes of a file with pieces in it.

### Mutants

A definition such as `EndRelayKept`, `AnyoneAnswers` or `PruneUnlocked`, with a
comment that says what is wrong with it, stands just before the definition it
could be mistaken for. No behaviour specification uses it. Putting it in the
place of the right one breaks the property listed with it under "mutants": this
is the evidence that the property depends on that piece of the code.

## 3. The runs

Each run asks one question of one component. "States" are distinct states; every
run takes one to five minutes with two workers. The properties are named groups:
the definition at the end of each module says which facts it joins, and each fact
is stated above it with the code it is about.

| Run | Command (`tlc -config ...`) | Question | Bounds | States |
|---|---|---|---|---|
| `hub` | `Hub.cfg MCHubScripts` | does a call run only with permission, once, with one true answer; who owns what; where is a replay | scripts of one to three peers: two harnesses with a guest each and one call id; prompted calls in two dialects, answered in either frame; a replay reopened live, claimed and taken over; a refused call and a credential; a replay of two calls; a harness that is its own server | 294 k |
| `hub_reconnect` | `HubReconnect.cfg MCHubScripts` | a guest comes back under its id before the hub has seen it go, dies, loses its `hello_ack`: does every step keep the promise, does every call end | 2 harnesses, 2 connections of one server, a prompted call of the guest's and one of the hub's own, close, serve | 180 k |
| `volume` | `Volume.cfg MCVolume` | do snapshots keep their bytes; is a workspace ever lost or halved | 2 processes, 2 files, 2 snapshots, any number of crashes and errors | 1.8 M |
| `policy` | `MCPolicy.cfg MCPolicy` | precedence; what an "always" covers; how text is read | every policy of up to three catalogue rules, the shipped ones, every glob of up to four letters, one of them of two bytes; every answer sequence | 30 k |
| `bots` | `Bots.cfg MCBots` | do handoffs arrive once and in order; does the roster keep its shape | thirteen accounts of three to five commands, any of which may die; in the largest, three runs and two senders, only runs die and they come one after the other (`InTurn`) | 214 k |
| `routines` | `Routines.cfg MCRoutines` | is a firing, or a delivery, worked off once and not forgotten | ten accounts of one to three processes, 4 minutes, the clock put back at 3 | 176 k |
| `turn` | `Turn.cfg MCTurn` | is a conversation kept whole and accepted by a provider; does a run do what was asked; does it end | accounts of one or two turns of up to three steps; hub, socket and process may go | 48 k |
| `window` | `Window.cfg MCWindow` | does a window show what was said, and decide what the person decided | nine accounts of two sessions and up to three messages with a question each; stop, reload, disconnect, death | 548 k |
| `guest` | `Guest.cfg MCGuest` | do calls act on what was seen, and leave nothing behind | twenty accounts of one to four calls, up to three connections and three Chromes; a guest killed at any step, in the middle of a launch too | 194 k |
| `computer` | `Computer.cfg MCComputer` | does "ready" mean serving; who is refused; does a command touch another's computer | sixteen accounts of up to four processes, one or two mishaps | 66 k |
| `daemon` | `Daemon.cfg MCDaemon` | does a call go to its owner with every hook's leave; do the files say what happened | nineteen accounts of up to three calls, two edits, four hooks, two crashes, a line the disk refuses | 90 k |
| `rotation` | `FindRotation.cfg MCComputer` | *violation*: a comment says a new token costs its clients nothing | as `computer` | 7 k |

Properties, by run (each `/\` of a group is a definition of its own):

- `hub`: `AnsweredOnce`; `OnlyPermittedCallsRun`; `CallsAreAccountedFor` (the note
  of a call is what its caller was told and comes first; the table of calls in
  flight holds calls in flight); `ProgressIsOfOnesOwn` (a caller hears of a call of
  its own, and late only after a deadline); `GrantsWereGiven`;
  `OnlyTheHolderGivesBack`; `SessionKeepsItsOwner`; `ReplayFollowsTheRecord`.
- `hub_reconnect`: `TypeOK`; `CrashEndsItsCalls`;
  `RegistrationFollowsItsConnection`; `KeepsItsPromise` (the refinement of
  `Promise`, which TLC evaluates slowly: the larger scripts of `hub` are left to its
  proof); `EveryCallEnds` (liveness).
- `volume`: `NothingIsLost` (types with the mutual exclusion of mutations; a listed
  snapshot's blobs are there; a restore moves aside what a snapshot holds);
  `SnapshotsNeverChange`; `RestoresAreWhole`.
- `policy`: `LiftedOnlyByAnAnswer`, `AnswersHold`, `Precedence`,
  `TextIsReadAsMeant`.
- `bots`: `HandoffsArrive` (kept, shown once, older first), `RosterIsWhole`.
- `routines`: `WorkedOffOnce` (once per firing, stays owed, back-off grows, an
  event once, remembered only after the work, nothing when nobody watches);
  `DueIsServed` (liveness).
- `turn`: `ConversationIsWhole`, `DoesWhatWasAsked`, `TurnsStop` (partly liveness).
- `window`: `OneTurnEachHeard`, `ThePersonDecides`, `ShownAsItWas`, `PromptsEnd`
  (liveness).
- `guest`: `PageIsWhatWasSeen`, `NothingIsLeftBehind`, `ServesOn` (liveness).
- `computer`: `ReadyComputersServe`, `NobodyIsRefusedForNothing`,
  `CommandsMindTheirOwn` (partly liveness).
- `daemon`: `CallsGoWhereTheyShould`, `FilesTellWhatHappened`, `CallsEnd`
  (liveness).

**Why the bounds are enough.** The tables of the hub are keyed by server, session
and call id; two of each peer, with one key shared, is where two users of a table
meet, and a third adds no entry the first two do not already contend for. The
peers of one script are `new` and those of the others have been and gone
(`MCInit`), so a script is one instance of the hub and the run is their union. The
clients of a script open, bind, then call, since calls before a bind only exercise
refusals; reopening and serving come at any moment. A volume needs two processes
and two snapshots (the target and the safety snapshot). The components made of
processes over files (`Bots`, `Routines`, `Computer`, `Daemon`) meet two at a time
over one file: an account names the commands that share it, and the death that
separates them. For what the proofs of section 4 cover, the bounds do not matter.

**Deadlock** is not checked: every system here may rightly come to rest once its
clients have asked everything.

**Fairness** is weak, of what the program itself runs; people, clients, remotes,
timers of others and mishaps owe nothing.

- `Hub`: the tokio task of every request (`RequestStep`, which includes the
  timeout of its wait), the deadline and ending of a forwarded call (`EndingStep`),
  the tail of a disconnect (`FailCalls`, `RelayProgress`). Once one of these is
  enabled, only itself or what ends the call disables it.
- `Routines`: the clock, and for every `up` its timer, the next step of its tick and
  the service manager that starts it again: a turn has a limit of steps and every
  wait in it a limit of time.
- `Turn`: some turn's loop, reader or writer goes on: each has finitely many steps,
  so one condition serves for all; the hub answers, since what it waits for has deadlines
  there (`hub.rs:2230`; the two calls it never answers are listed under *Hub* and *Daemon*),
  and the HTTP client gives up on a provider.
- `Window`: the pipe, the turns, the commands, and the hub's deadline on a question
  nobody answers (`Going`).
- `Guest`: the supervisor, and the tasks of calls, readers and Chrome (`Work`).
- `Computer`: the commands, each window by itself (one may poll for as long as it
  is open), the viewer's requests.
- `Daemon`: what was begun is carried on (`Carries`); asking is not.

### Divergences

One disagreement between the code and what it says of itself is kept as a run:

| Run | What happens |
|---|---|
| `rotation` | `up.rs:495-501` says that "every client reads the file, so rotating it costs them nothing". A second `up` on a home writes its token before it learns that the home is taken; the hub that runs keeps admitting the old one, and every client that reads the file is refused |

The others were met while modelling. The model does what the code does; where a
property would fail for one of them, it excludes that case by name.

*Hub.*

- An "always" lifts the fallback's *refusal* of other calls of the tool
  (`policy.rs:325`, against `126-127`).
- A guest that leaves between the look-up and the forward leaves a relay only the
  65-minute deadline ends (`hub.rs:2187`, against `77-78`).
- A call that ran is never noted when its harness leaves first (`hub.rs:772`,
  against `README.md:100` and `hub.rs:1373`).
- A call that passed the takeover check reaches the computer after a person took it
  (`hub.rs:2162-2187`, against `README.md:264-265`).
- The teardown of a guest's old connection unbinds the sessions its new one serves
  (`hub.rs:744`, against `729`, `736-737`).
- The bind writes into whatever session has the id after the wait for the guest,
  without comparing the owner again (`hub.rs:1747`, against `1519`).
- A `hello_ack` that cannot be written leaves the guest registered, with no task to
  disconnect it (`server.rs:208`, against `hub.rs:2269`).
- A request's task can run after its connection's teardown, so a takeover can be
  granted to a connection that has gone (`hub.rs:2320`, against `754-758`).
- A progress frame looked up before a deadline is sent after its answer
  (`hub.rs:1140`, against `1365-1367`); and of two callers using one call id on one
  guest, one gets the other's progress (`2205`, against `21-22`).
- An "always" answered after the session was closed and opened again grants the
  new one (`hub.rs:1952`, against `botroster-proto/src/approval.rs:73`).
- A call that passed the replay branch runs in the session reopened as a replay
  (`hub.rs:1865`, against `1832-1836`).
- A call that cannot be routed (`hub.rs:2103-2181`: its session is gone or somebody
  else's, no guest is bound, a person holds the computer), and a credential request
  that was declined or failed (`2022-2040`), leave no note, against `1977-1980`, `488-491`.
- A pattern with two stars is tried at every byte of the value (`policy.rs:573`); inside a
  letter of several bytes that is a panic. The task of the request ends with it
  (`hub.rs:811`), nothing is let through, and the call is never answered.
  `TextIsReadAsMeant` says exactly that of such a pattern and value. `Hub`, `Policy` and
  `PolicySession` take globs as the sets they match and assume a verdict.
- An "always" counts as one approval only in a `hook_reply` (`hub.rs:2539-2546`). A
  client of the published dialect that answers the hub's request with a plain response
  is not asked for its dialect, and an "always" in it is a grant (`1029`, `1226`):
  `GrantsWereGiven` speaks of the frame an answer came in.

*Daemon.*

- `RESERVED` (`connector.rs:148`) lacks "skill", which the hub serves once there is
  a skill: a connector of that id offering `list` shares `skill__list` with it. The
  test that every namespace served is reserved (`cli_live.rs:650`) has a home
  without skills.
- A connector id that ends in `_` passes the check, and its tools cannot be routed
  (`id___tool` is split at the first `__`). What is promised of routing and of a
  connector that is there leaves such an id out (`Trails`), and a connector called
  "skill" with the skills it shadows (`SkillsTaken`); two accounts of the run have them.
- `connector add` reads the file, waits up to five seconds for a probe, and saves
  the copy it read; any two editors share `json.tmp`.
- `skill new` says to restart the daemon, though skills are read at every call.
- Session ids and numbers start again with the hub, so a new session appends to an
  old one's file and a replay reads both; a line written directly behind a piece of
  another cannot be read (`record.rs:339-345`, `botroster-bots/src/lib.rs:2466`).
  `RecordTellsWhatHappened` allows for that one line, and says where pieces come from.
- A line that cannot be serialised or appended is logged and dropped (`record.rs:306-309`,
  `320-328`), so a call may end and have no line (`dropped`).
- A hook's question is written to it before, and outside, its deadline
  (`hooks.rs:172`, `176`), against "a hook that hangs must not outlive the call"
  (`163-164`): one that neither reads nor ends holds a call whose arguments are more than the
  pipe takes, for ever. `CallsEnd` leaves out that call by name (`HeldByHook`), and only it.
- The store of secrets is closed to others after its rename (`secrets.rs:146`); if that
  fails, the command fails with its edit in place.

*Volume.* Opening a volume while a restore copies takes the copied files away, and
the restore succeeds with part of the snapshot (`store/src/lib.rs:322`, against
`40-41`); `raced` marks it. `force_detach` (`557-566`) unlinks the lock file, and is
not modelled.

*Bots.*

- A send that races a recovery's merge is overwritten, and one that holds the
  drained file open is lost (`raced`); two runs of one Bot at once remove each
  other's `.taken` (`crowded`).
- A send that still holds the drained file open when a recovery has put its lines back
  makes the inbox no longer begin with that file's bytes: the next recovery puts them
  back again and the handoffs come twice, though "a second run is a no-op"
  (`lib.rs:1629-1639`); `blurred` marks it. The search for the inductive invariant of
  `HandoffsArrive` found it.
- An identical handoff sent again after a crash is swallowed by the recovery.
- A turn that finishes after its Bot was deleted makes its directory again; a stale
  save of a group brings back a removed one; two commands at once can give two Bots
  one display name or pass the cap (`overlap`).
- A run of `run_task` never drains the inbox, though `bot.send` says the handoff
  waits for "their next run" (`bot_tools.rs:110`).

*Routines.*

- A rehearsal resets the back-off (`lib.rs:3030-3044`), though it "must not clear" it.
- The first firing of a routine that never ran is missed if the scheduler is busy in
  that minute (`up.rs:262-264`); an event routine that should be retried is not; a
  tick that is killed records nothing (`up.rs:660-664`).
- With the clock put back, a firing comes twice; a stale save revives a routine that
  was deleted or paused.

*Agent loop.*

- `finish` takes the last text of the whole conversation, the history included
  (`agent.rs:809-829`, against `291`).
- An instruction taken at the limit of steps or tokens is never read and not
  reported undelivered.
- A provider that repeats ids defeats `repair_window`; a group's history is not
  repaired at all; a retry's request still repeats the task.
- The reader ends at any websocket message that is not text. A call has no deadline of
  its own (`hub_client.rs:278-302`), so one made after the reader cleared the waiters and
  before the socket refuses to be written waits for ever (a waiter that is "late");
  `TurnsStop` leaves such a turn out.

*Window and ACP.*

- A question of another conversation, taken by a command that drained everyone's
  cards, is announced under that command's session (`botroster-app/src/lib.rs:1400-1415`),
  so it can stay on screen after every command of the conversation shown is done.
  `DialogsAreAnswerable` speaks of the questions of the conversation on screen for
  this reason; a search for its inductive invariant found the case (45 states).
- Two commands of one session drain the engine and then the inbox under two locks,
  so a transcript can come out of order (`raced`); a disconnect empties the inbox in
  between, and what was kept there is not shown (`lib.rs:618-620`, counted in `raced` too).
- Any command that returns ends the page's being busy (`main.js:1815-1820`), whatever else
  still runs. A message sent then is echoed, joins the turn that still runs and is
  announced again: on screen twice, which `main.js:1773-1777` means to avoid.
  `OnScreenOnce` speaks of messages echoed when nothing of theirs was under way (`Echo`).
- "Allow", clicked after the hub's 120 seconds, is reported as made
  (`engine.rs:164-184`; `hub.rs:70` against `engine.rs:30-35`).
- A message sent to join a turn that just ended starts one, and is never echoed.
- A stop between its two locks can reach a later turn's engine; a question in the
  engine's channel when it is pressed is not refused.
- ACP asks serially, so a later question may have expired when its turn comes.

*Guest and browser.*

- A click whose navigation commits after 700 ms is reported as staying, and two at
  once can each report the other's (`browser.rs:42-52`); another snapshot replaces
  the refs of the first.
- A probe that a slow browser misses (1.5 s) deletes its port file, after which every
  launch on the profile fails (`missed`). So does the launch of a guest that was killed
  during a launch: the Chrome that one had spawned comes up after the probe, and its port
  file goes with `remove_file` (`browser.rs:428`, against `392-403`); it lives and is
  recorded nowhere. `LiveBrowserIsRecorded` leaves out these two cases.
- A shell that is given up is killed, and what it detached is not (`tools.rs:836-840`
  says so). `EndedMeansStopped` is about the shell.
- Lost with a call on its way, a handle's replacement adopts the child that the old
  handle's drop then kills.
- A guest killed and started again leaves the surviving browser alone if no call
  asks for it.
- A reconnect waits for the running calls of the lost connection; a screenshot's path
  is looked up before the picture is taken and used after (`moved`).

*Computer.*

- After a probe that was too slow a command starts a hub over one that runs, though
  it is "only ever called after reach reports nothing there"; "two of these can run
  at once" (`up.rs:454`) is false for one home.
- A window with an inherited token starts its own computer, presents that token, and
  is refused every turn (`engine.rs:504-524`, against `botroster-proto/src/lib.rs:1040`).
- A hub url without a port is served on 8443 and asked for on 80 (`hub.rs:258-260`).
- `/takeover` answered after a concurrent `/release` leaves the viewer driving
  nothing (`crossed`); a window that exits or crashes leaves its `up` running; the
  error paths of `run` do not stop the computer it started.
- The viewer is asked about an input before the hub looks who holds the computer, in two
  sections (`hub.rs:1933-1943`, `2157-2170`), so an input the viewer allowed can reach a
  computer that was given back in between. `ConsentIsFresh` is about the moment the hub
  asks. The model takes it that the policy asks about inputs, as the shipped one does.
- `permission rm N` removes by position from a list that may have changed.

## 4. The proofs

TLC checks the instances above; the theorems hold for every value of the constants
that meets the assumptions the modules name. "Property" is what a run checks too.

| Theorem | Module | Property |
|---|---|---|
| `TypeCorrect` | `HubProofs` | `TypeOK` |
| `AnsweredAtMostOnce` | `HubProofs` | `AnsweredOnce` |
| `OnlyPermittedRun` | `HubProofs` | `OnlyPermittedCallsRun` |
| `SessionsKeepOwners` | `HubProofs` | `SessionKeepsItsOwner` |
| `HolderGivesBack` | `HubProofs` | `OnlyTheHolderGivesBack` |
| `HubKeepsItsPromise` | `HubProofs` | `KeepsItsPromise`: `Hub` implements `Promise` |
| `RegistrationsAreTheirConnections` | `HubProofs` | `RegistrationFollowsItsConnection` |
| `CrashesEndCalls` | `HubProofs` | `CrashEndsItsCalls` |
| `ReplaysFollowTheRecord` | `HubProofs` | `ReplayFollowsTheRecord` |
| `GrantsAreGiven` | `HubProofs` | `GrantsWereGiven` |
| `CallsAccounted` | `HubProofs` | `CallsAreAccountedFor` |
| `ProgressReachesItsOwn` | `HubProofs` | `ProgressIsOfOnesOwn` |
| `RulesKeepTheirPrecedence` | `PolicyProofs` | `Precedence` |
| `NeverAskedAgain` | `PolicyProofs` | `AnswersHold` |
| `AnswersStayOnTheirSite` | `PolicyProofs` | `LiftedOnlyByAnAnswer` |
| `ListedSnapshotsStay` | `VolumeProofs` | `SnapshotsNeverChange` |
| `NothingIsEverLost` | `VolumeProofs` | `NothingIsLost` |
| `RestoresLeaveWholeVersions` | `VolumeProofs` | `RestoresAreWhole` |
| `AccountKeepsItsShape` | `BotsProofs` | `RosterIsWhole` |
| `WhatIsHandedArrives` | `BotsProofs` | `HandoffsArrive` |
| `TurnsAreOneAndHeard` | `WindowProofs` | `OneTurnEachHeard` |
| `DecisionsAreThePersons` | `WindowProofs` | `ThePersonDecides` |
| `ConversationsAreShownAsTheyWere` | `StreamProofs` | `ShownAsItWas` |
| `ReadyIsServed` | `ComputerProofs` | `ReadyComputersServe` |
| `RefusalsAreForAReason` | `ComputerProofs` | `NobodyIsRefusedForNothing` |
| `CommandsKeepToTheirOwn` | `ComputerProofs` | `CommandsMindTheirOwn` without its `CommandsEnd` |
| `CallsGoHome` | `DaemonProofs` | `CallsGoWhereTheyShould` |
| `FilesTellTheTruth` | `DaemonProofs` | `FilesTellWhatHappened` |
| `HooksGuard` | `DaemonProofs` | `GuardHolds`, of `CallsGoWhereTheyShould` |

With these, every safety property of `Hub`, `Promise`, `PolicySession`, `Volume`, `Bots`,
`Window`, `Computer`, `Viewer` and `Daemon` is proved.

**The theorems and the runs.** A theorem about `Hub` is about `Spec`, in which every
connection is new at first; the runs start some as `down` (`MCInit`). A behaviour of
a run is, script by script, one of `Spec` with that script's connections as
constants.

**Assumptions.** `ConnsAssumption`: every guest names a server. `RequestsAssumption`: the fields a request's operation reads are
there. `PolicyAssumption`: the default policy is one. `PoliciesAssumption`: nobody
has answered about a policy when it is handed out. `VolumeAssumption`: a bound is a
number, no file is both there and absent. `JobsAssumption`: the fields a command's
operation reads are there, and the Bots there are at the start fit in the cap. `AcpAssumption`: a message goes to a
session there is, an account's messages and conversations are of the catalogue, and no
name is of a message and of a session.
`ComputerAssumption`: who starts whom - a timer is the child of an `up`, a viewer of a
window, and a window starts one `up`, on its own home and on a volume; a free port is
no process's address. `ViewerAssumption`: a request is a takeover, a release, an input
or a frame. `SourcesAssumption`: a dot is no letter of an id, and the reserved ids are in
small letters. `DaemonAssumption`: an edit's temporary file is a file of its own, arguments
are finite, and a mix is of the calls, the edits and the two files there are.
`NamesAssumption`: what a tool's name is in this code - a tool of the daemon's has a
namespace no connector may take (`RESERVED`; "skill" is the exception the divergences
list), no `__` in it and one dot before a letter, belongs to one source, and no two of
them escape to one name; a connector's tool is behind its id; a call is for a tool of the
owner it names; connectors that are stored or added are some of the known ones. The rest of these,
`EntriesAssumption`, `NoneAssumption` and `NoTreeAssumption` say that `None` is none of the values it
stands beside. TLC evaluates all of them.

### Hub

The module has three parts - safety, the refinement, the tables - and the invariants
add up: each later one cites the earlier ones rather than repeating them. The proof that
a step keeps an invariant has a case per action; an action about request `r` is
first shown to leave every other request alone (`OthersUntouched`, the `Same...`
lemmas), so a case is about one request.

- `TypeInv`. `TypeOK` is not inductive: a task could be at a section its operation
  does not have. `TasksFit` says it is not, and `OnlyCallsGo` that only tool calls
  have relays and endings.
- `OnceInv` for `AnsweredOnce`: a call is in one of four phases (its task still has
  it; a relay; an ending; answered), never in two, and an answer is only sent by
  whoever leaves the phase before. The relay that leaves the table together with
  its ending (`EndRelay`) is the step that matters, and what its mutant breaks.
- `ClearedInv` for `OnlyPermittedCallsRun`: a task past the policy has its verdict,
  is never at a later section with "deny", and past the decision with "ask" carries
  an approval of the owner the policy was read with; for that the question table
  has to agree with the task (`hubCalls[r]` is its `target`).
- `FreshInv` and `SentInv` for the refinement. Nothing is decided early: before the
  policy is read there is no verdict, before the owner answers no approval, so a
  permission once given stays as it was given. And a relay points at a connection
  that came up, so while it is up it has the frame, and a call that ends with "ok"
  did run. Each step of `Hub` is then shown to be one step of `Promise` about one
  call, or to leave its three variables alone.
- `RegistrationFollowsItsConnection` and `ReplayFollowsTheRecord` follow from
  `TypeInv` and a frame lemma: which actions can change a registration, and which a
  session's replay.
- `CrashInv`: a relay of a delivered call is to the guest it was delivered to, and
  that guest is up or leaving. Without the first half, `FailCalls` of one guest says
  nothing about the calls of another.
- `GrantInv`: sessions are owned by harnesses, a task asks the owner only, and an
  "always" it holds came from that owner, in a response.
- `AccountInv`: what is noted of a call, phase by phase - nothing while its task or a
  relay has it, its ending once retired if the session named a Bot.
- `ProgressInv`: every entry of the call table names a call that went where the
  entry says (`RunnersKnown`), and a guest in the middle of a report is up and has
  not ended the call it reports on. That is why only a deadline can make progress
  late.

### Policy

`AnswerInv`: the session's policy is the one it was given, with one grant per answer,
and no answer was about a call the policy refuses. For these the scan over the rules stays
unexpanded, so they hold whatever it finds.

`Precedence` is about what it finds. The scan is a recursive function over the places of
the list (`Scan`), and `ScanFinds` says what it has seen after `n` rules in terms of which
of the first `n` match, up to the first refusal. The library's induction takes an operator
as a parameter; the proof takes the set of lengths for which the lemma holds instead
(`Steps`), and the least element of what is left (`Least`, from `WFMin` and
`NatLessThanWellFounded`). `Bots` reads its recursive `Picked` the same way.

### Volume

- `Shape` for types and `SnapshotsNeverChange`: between reading `meta.json` and
  writing it under the mutation lock, what was read stays true (`IndexAsRead`), and
  the next number is nobody's (`NumbersAhead`). So a snapshot's manifest is written
  over nobody's, whoever died having written one.
- `BytesInv` for the blobs: what a snapshot copied is in the store, its manifest says
  what it copied, and what a prune collects no listed snapshot needs (`BytesOf`).
- `RestoreInv` for the workspace: `RestoreOf` says for each section of a restore what
  it has achieved (saved, staged, standing, done), and `WholeInv` that the workspace
  is away only before it was first made and between the two renames, when both
  versions are aside and no recovery that began earlier is still on its way. That
  last clause is what makes the recovery of a later opening safe.

### Bots

- `TypeInv` for types: a command is in a section its operation has, with what that
  section needs (`Fits`), and a file has one name (`Linked`).
- `RosterInv` for `MembersExist` and `CapHolds`: while no two commands have edited the
  roster at once there is one editor, and what it read is still so (`EditorHolds`): the
  slug it will take is free and there is room, the groups it must still leave are as it
  read them, and every group that lists its Bot is among them.
- `LinesInv`, `FilesInv`, `Alone`: a line tells who wrote it and to whom, who wrote is done; a
  file is one Bot's, and so is whoever writes to it; an inbox that is not `crowded` has one
  taker at a time.
- `KeptInv` for `HandoffsKept`: what a merge holds has everything of both files but late
  lines; what is about to be dropped is in the inbox again, or in hand, or equal to
  something that is (`HasATwin`) - the case in which the prefix test takes two handoffs
  for one.
- `OnceInv` for `ShownOnce`: nobody is twice in the inbox, the drained file, or a hand;
  the drained file is a prefix of the inbox or has nobody in common with it - which is
  what the prefix test can tell apart, and what a late line breaks (`blurred`).
- `OrderInv` for `OlderFirst`: inbox, drained file and hands are sorted by who was there
  when whom was sent; and nobody who has left for good (`Left`) came after somebody who
  is still to come (`ToCome`).

Each of the three is about one Bot (`KeptAt`, `OnceAt`, `OrderAt`). A step that neither
takes nor writes that Bot's lines leaves it `Aside`; each of the others has an effect
(`MergeDoes`, `TakeDoes`, ...), and the invariants are shown from the effect.

### Window and Acp

`IInv` has four parts. None of them is inductive alone: a turn's end depends on what
the session holds, a stop's on the pipe, a question's on the turn.

- `Shape`: types, of the commands only what they are and the cards they hold.
- `Turning` for `OneTurnEachHeard`: a running turn and its session name each other;
  how a turn ended fits where it is; whoever is in a model's hands was read; a
  message that joined a turn is still to be read, was read, or will hear of a limit.
- `Stopping`: a flag that is up was put up for the turn that runs; a prompt is in the
  pipe once and nowhere else; a stop in the pipe was pressed for the turn that runs
  and for those whose prompts are ahead of it; a command leaves its loop with an
  answer, unless the agent is gone.
- `Asking` for `ThePersonDecides`: wherever a question is held - by the hub, the
  permissions task, the pipe, a command, the page - it was asked; a yes on its way
  was a person's; `DialogsAreAnswerable` is part of the induction.

Each action first gets its *effect* (`Joins`, `Starts`, `Cancels`, ... : what it does
to sessions, turns and answers), and the four parts are shown from the effect, so
the pipe, the streams and the records of the commands do not enter those proofs.

`SInv`, in `StreamProofs`, is for `ShownAsItWas`, and is about where the updates of a
session are: in a turn's events, on the stream, in the hands of a command, in the inbox,
taken, on screen.

- `OrderInv` for `ShownInOrder`: unless it was raced, a session's updates are in one
  command's hands at most, and what was sent is, in this order, what is shown, what that
  command took, the inbox, its hand, the stream. So each step of a command moves a
  boundary of one list (`WholeMoves`).
- `PromptsShown` and `HistoriesShown` for `NothingSaidIsLost`: a turn's answer
  comes when all it said was sent (`Origin`), so a command that has seen the answer
  and then drains has all of it in reach; section by section, as far as it has got.
- `FlowInv` for `OnScreenOnce`: the notice that a message joined is in one place and there
  once, from the list of what the turn is to read to the screen (`Flow`), and likewise
  to what was sent (`Tale`); two ways, since the window forgets and the record of what was
  sent does not. `Once` says it of any function from places to lists, and the lemmas about it
  (a list appended to, one moved behind another) are what a step's case rests on.
- `JoinersAnnounced` and `NotesOnce`, in `Origin`, for the last part of `OnScreenOnce` and for
  `SaidOnce`: who joined is to be read, announced or told that it was not heard; a
  prompt's notice is sent as it starts a turn, before which there is none.
- `FirstsStart`: a message echoed when nothing of its conversation was under way has no
  other prompt of it ahead of it in the pipe and no turn to find.

A step gets its effect here too (`Draws`, `Stows`, `Puts`, `Sends`, ...), so `OrderInv` is
shown of the effect and not of the action.

### Computer and Viewer

`IInv` is `MachineInv` for the processes and `ViewInv` for the viewer beside them.
`TypeOK` is in it, and none of the properties is inductive.

- `Fits`, of one process: what it has at each section of its start (`Stack`: from the
  bind on it listens, from the lock on it holds its place, from the guest on it
  serves), and whose token it was handed (`Handed`).
- `Apart`: no two on an address, no two at a place. With `Fits`, it is `OneWriter` and
  `ReadyMeansServing`.
- `Filed`: a token a hub minted or admits is the one in its home, unless another start
  wrote there (`outdated`). That a hub only listens once its token is filed is the
  `Order` the mutant swaps, and what `RefusalsHaveAReason` rests on.
- `Kin`: no child is started before its parent, a timer not before its computer listens, and
  a computer that outlived the wait for it belongs to its window. It is what
  `OnlyItsOwnEnds` needs.
- `Quiet`: how far a window nobody disturbed and its computer are, section by section;
  `UndisturbedGetsAComputer` is its last case. `Budgeted` says that a mishap is only
  ever used up, so a window disturbed once stays disturbed.
- `Hand`: `driving` agrees with the hub's holder unless a takeover and a release
  crossed; in between, the request on its way says who will hold.

Most actions change the record of one process (`Set`). `Fades` lists what such a
change may not add for the others (a place, an address, a token), and `KinNext` and
`QuietNext` what the new record has to say of its relatives, so that an action is one
`Fit` and three short conditions. The actions that end several processes at once
(`Disconnect`, `Crash`) have lemmas of their own.

### Daemon

Four invariants; the first two are each inductive alone, the third with the second, the
fourth with the first two.

- `FilesInv` for `EditsStick`: an inode is of one file (`MadeFor`), so no editor renames
  the temporary of another file over its own; a file and its temporary are two inodes
  (`Places`); and in a file that never had two editors, the one editor there has read
  what is in it, owns the temporary, and once past the writing has all of it there
  (`Course`). That is why a kill at any step leaves the file as it was or as it was
  acknowledged.
- `CallsInv` for `GuardHolds`: nothing a call has heard is an objection, and it goes to
  nobody before it has heard as many answers as hooks match it (`Unopposed`); a call
  is of one life of the daemon, and under way only while it serves (`Lives`). Which
  hooks match stays unexpanded, so the theorem holds whatever `matches` says.
- `RecordInv` for the record: within a life, the lines in a file, the line being
  written, the drafts in the queue and the next number to give out are in order
  (`LinesInOrder`, `DoingInOrder`, `QueueInOrder`, `CountsAhead`); before it serves, a
  daemon has noted nothing (`Silent`). A call that ends is shown to be noted in the
  same step (`Progress`), and from there its draft is on its way until it is in the file or
  the disk refuses it (`Told`); and a life leaves a piece of a line only when the disk
  refused the rest (`PiecesDropped`), so what is behind a whole line of this life cannot
  spoil it. `LeftKeeps` is about the step that puts a line, or a piece of one, in the file.
- `CapturesAre`: a capture says which set of arguments it is of. It rests on the hash
  standing for the whole text, as `Captured` models it.
- Names. Two name lemmas carry the rest, each by an induction on the length of a name
  that takes the shortest counterexample instead of citing the library's induction
  theorem (`Least`, `Steps`): escaping a name that starts with symbols other than a dot
  leaves them there and puts `__` where the dot was (`Stays`, `HeadKept`, `DotIsTwo`),
  and a name is cut at its first `__` (`CutAt`, `SplitsThere`). So the wire name of a
  connector's tool, restored or not, is split back into the connector's id unless that
  id ends in `_` (`WireLeads`, `PrefixLeads`, `EscapeLeads`), and what is no connector's is
  never split into the id of one (`OwnEscapes`, `NotBehind`). That gives whom any name a
  caller may use for a tool is served by (`NamedFor`, `ServedByOwner`, `BegunRight`).
- `GoesInv` for `RoutedToItsOwner` and `NoRestartNeeded`: the ids in use passed the check
  and are known (`IdsFit`), because whatever may be read back as the connectors is
  (`ShopsFit`); a call of this life has a name for its tool, goes to whom `Rightly` says,
  and while it may expect what it needs, that is there and it was sent with it (`Goes`).
  A step either leaves what calls see of the home alone (`SameWorld`) or withdraws what
  the calls under way may expect (`Shaken`), and in between a call is one of `Begin`,
  `Route` and the ends.

### Only model-checked

- `EveryCallEnds`, `DueIsServed`, `TurnsStop`, `PromptsEnd`, `ServesOn`, `CallsEnd`,
  and the `CommandsEnd` in `CommandsMindTheirOwn`: liveness under fairness is beyond
  the prover.
- `ConversationIsWhole`: it is about what `SelectSeq` and `FlattenSeq` make of a conversation,
  which needs an induction for each.
- `TextIsReadAsMeant`, `PageIsWhatWasSeen`, `NothingIsLeftBehind`: their modules use
  or reach `RECURSIVE` operators (globs, links of the file system).
- `WorkedOffOnce`, `DoesWhatWasAsked`: not proved yet. `RotationCostsNobody` has a
  counterexample.

## 5. The plan

Done: the components above, as modelled; the proofs above.

Next, in order of what they say about the system:

1. `Turn`: `UsageIsWhole`, `CallsAreApart`, `StoppedMeansNoMore`; the parts of its
   groups that are about counters and program counters.
2. `Routines`: `OncePerFiring` and `StaysOwed`.

## 6. Not modelled, and why

- Encoding, wording and layout (`botroster-proto`'s frames, `render.rs`, `html.rs`):
  no state. Settings and attachments of the window, listings and printing of the
  command line: they read.
- `ping`, `tools.list`, `servers.list` and refused hellos of the hub: they change
  nothing. Its writer task and the drain at its end: a send is delivered while the
  connection is up.
- `force_detach`: it unlinks a lock file while it is held.
- What a model, a remote connector or a page does: each is an environment that may
  answer anything its interface allows, late, wrongly or not at all.
- The Windows branch of the guest's paths.
