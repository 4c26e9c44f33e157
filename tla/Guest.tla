--------------------------------- MODULE Guest ---------------------------------
(***************************************************************************)
(* botroster-guest: the process inside the computer. It connects to the hub and    *)
(* comes back when the connection is lost (client.rs), runs each tool call as a     *)
(* task of its own (tools.rs), and is stopped, or killed, with calls under way      *)
(* (main.rs). Its browser is module Chrome, its paths module Workspace.           *)
(***************************************************************************)
EXTENDS Chrome, Workspace

CONSTANTS MaxConnections    \* connections made, at most

VARIABLES
    guest,     \* the process: up, stopping, stopped, dead
    sup,       \* run_supervised: where it is, whether this is the first try, how long it waits
    hub,       \* what a connection meets: nobody, a hub, one that refuses, one not ready
    current,   \* the connection run() is on, or 0
    conn,      \* every connection: its socket, its writer, what the hub was sent
    on,        \* the connection each call came in on
    tree,      \* the file system
    shell,     \* the shell of each call, and whether one that is gone left work behind
    reached,   \* places a file tool read, or wrote
    clashed,   \* calls that wrote a file somebody else had open
    moved      \* a link was made after a path was looked up and before it was used

guestVars == <<guest, sup, hub, current, conn, on, tree, shell, reached, clashed, moved>>
vars == <<chromeVars, guestVars>>

ReconnectMin == 1      \* half a second
ReconnectMax == 4      \* thirty seconds, shortened
Connections  == 1 .. MaxConnections

Init ==
    /\ ChromeInit
    /\ guest = "up" /\ sup = [pc |-> "connect", first |-> TRUE, wait |-> ReconnectMin]
    /\ hub = mix.hub /\ current = 0
    /\ conn = [n \in Connections |-> [socket |-> "none", writer |-> TRUE, out |-> <<>>]]
    /\ on = [c \in Calls |-> 0] /\ tree = mix.tree
    /\ shell = [c \in Calls |-> "none"] /\ reached = {} /\ clashed = {} /\ moved = FALSE

ToolsUntouched == UNCHANGED <<portFile, page, contexts, handle, slot, slotLock, marks, missed>>
FilesUntouched == UNCHANGED <<tree, shell, reached, clashed, moved>>

-----------------------------------------------------------------------------
(* The supervisor: run_supervised, and run.                                   *)

Over(c)    == call[c].pc \in {"idle", "sent", "gone"}
Serving(n) == {c \in Calls : on[c] = n /\ ~Over(c)}

\* Twice as long each time, up to a limit.
Next2(wait) == IF 2 * wait > ReconnectMax THEN ReconnectMax ELSE 2 * wait

\* A try that failed: the first one is the caller's, the others are waited out.
TryFails == sup' = IF sup.first THEN [sup EXCEPT !.pc = "exit"]
                   ELSE [sup EXCEPT !.pc = "sleep", !.wait = Next2(@)]

\* A hub that is not ready yet taken for one that refuses.
AnyRefusal(answer) == answer # "nobody"

\* Refused::is_permanent for any error the hub answers with.
Permanent(answer) == answer = "refuses"

Connect ==
    /\ guest = "up" /\ sup.pc = "connect"
    /\ IF hub = "serves"
       THEN \E n \in Connections :
              /\ conn[n].socket = "none" /\ \A m \in Connections : m < n => conn[m].socket # "none"
              /\ conn' = [conn EXCEPT ![n].socket = "open"] /\ current' = n
              /\ sup' = [sup EXCEPT !.pc = "serve", !.first = FALSE]
       ELSE /\ IF Permanent(hub) THEN sup' = [sup EXCEPT !.pc = "exit"] ELSE TryFails
            /\ UNCHANGED <<conn, current>>
    /\ UNCHANGED <<chromeVars, guest, hub, on>> /\ FilesUntouched

Sleep ==
    /\ guest = "up" /\ sup.pc = "sleep"
    /\ sup' = [sup EXCEPT !.pc = "connect"]
    /\ UNCHANGED <<chromeVars, guest, hub, current, conn, on>> /\ FilesUntouched

\* The reader finds the socket gone.
ReaderEnds ==
    /\ guest = "up" /\ sup.pc = "serve" /\ conn[current].socket = "lost"
    /\ sup' = [sup EXCEPT !.pc = "drain"]
    /\ UNCHANGED <<chromeVars, guest, hub, current, conn, on>> /\ FilesUntouched

\* run() ends with its writer: when no call of this connection is left to say anything, or when
\* one tried to. Having served, it starts its waiting over.
Drained ==
    /\ guest = "up" /\ sup.pc = "drain"
    /\ Serving(current) = {} \/ ~conn[current].writer
    /\ sup' = [sup EXCEPT !.pc = "sleep", !.wait = ReconnectMin] /\ current' = 0
    /\ UNCHANGED <<chromeVars, guest, hub, conn, on>> /\ FilesUntouched

\* What a connection will meet changes; the one there is goes with a hub that goes.
Lose == IF current # 0 THEN [conn EXCEPT ![current].socket = "lost"] ELSE conn
HubChanges ==
    \E to \in {"nobody", "serves", "refuses", "unready"} :
      /\ to # hub /\ to \in mix.hubs /\ Spend("hub") /\ hub' = to
      /\ conn' = IF hub = "serves" THEN Lose ELSE conn
      /\ UNCHANGED <<mix, chrome, portFile, page, contexts, handle, slot, slotLock, marks, call, missed>>
      /\ UNCHANGED <<guest, sup, current, on>> /\ FilesUntouched

\* Or the network loses it.
ConnectionLost ==
    /\ current # 0 /\ conn[current].socket = "open" /\ Spend("drop") /\ conn' = Lose
    /\ UNCHANGED <<mix, chrome, portFile, page, contexts, handle, slot, slotLock, marks, call, missed>>
    /\ UNCHANGED <<guest, sup, hub, current, on>> /\ FilesUntouched

\* send: a frame goes to the writer of the connection its call came in on. One the socket no
\* longer takes ends the writer; after that nobody listens.
SendOn(n, c, what) ==
    conn' = IF ~conn[n].writer              THEN conn
            ELSE IF conn[n].socket = "open" THEN [conn EXCEPT ![n].out = Append(@, <<c, what>>)]
            ELSE [conn EXCEPT ![n].writer = FALSE]

Emit(c, what) == SendOn(on[c], c, what)

-----------------------------------------------------------------------------
(* tools::invoke.                                                           *)

\* Where a path leads: one place, or none when it is refused.
Where(c) == Resolve(tree, Job[c].path, mix.confine)

\* A call comes in: its arguments are read, and its task starts. A picture's place is looked up
\* before the picture is taken.
Receive(c) ==
    /\ guest = "up" /\ sup.pc = "serve" /\ conn[current].socket = "open" /\ call[c].pc = "idle"
    /\ c \in mix.calls /\ \A d \in mix.calls : <<d, c>> \in mix.order => call[d].pc = "sent"
    /\ on' = [on EXCEPT ![c] = current]
    /\ LET kind  == Job[c].kind
           start == IF kind = "bad" \/ (kind = "screenshot" /\ Where(c) = {}) THEN "over"
                    ELSE IF kind = "open" THEN "say"
                    ELSE IF OnBrowser(c)  THEN "want"
                    ELSE kind
       IN  \E place \in IF kind = "screenshot" /\ Where(c) # {} THEN Where(c) ELSE {Nowhere} :
             call' = [call EXCEPT ![c].pc = start, ![c].place = place,
                                  ![c].result = IF start = "over" THEN "error" ELSE "none"]
    /\ UNCHANGED <<mix, budget, chrome, guest, sup, hub, current, conn>> /\ ToolsUntouched /\ FilesUntouched

\* open says it is navigating before it does.
SayFirst(c) ==
    /\ call[c].pc = "say" /\ Emit(c, "progress") /\ call' = [call EXCEPT ![c].pc = "want"]
    /\ UNCHANGED <<mix, budget, chrome, guest, sup, hub, current, on>> /\ ToolsUntouched /\ FilesUntouched

End(c, result) == call' = [call EXCEPT ![c].pc = "over", ![c].result = result]

FileStep(c) ==
    /\ UNCHANGED <<mix, budget, chrome, guest, sup, hub, current, conn, on, moved>> /\ ToolsUntouched

\* fs.read, fs.list.
Read(c) ==
    /\ call[c].pc = "read"
    /\ \/ Where(c) = {} /\ End(c, "error") /\ UNCHANGED reached
       \/ \E place \in Where(c) : \E at \in {Canonical(tree, place)} :
            /\ End(c, IF at = Nowhere THEN "error" ELSE "ok")
            /\ reached' = reached \cup ({at} \ {Nowhere})
    /\ UNCHANGED <<tree, shell, clashed>> /\ FileStep(c)

\* The file a call is in the middle of writing.
Writers(p) == {d \in Calls : call[d].pc = "writing" /\ call[d].place = p}

\* fs.write: the directories, and the file opened and emptied, ...
Opened(t, place) ==
    UNION {IF made = Nowhere THEN {[at |-> Nowhere, tree |-> t]}
           ELSE {[at |-> at, tree |-> IF at = Nowhere THEN made ELSE Put(made, at, File("empty"))]
                   : at \in {OpensAt(made, place, MaxLinks)}}
             : made \in {MakeDirs(t, Front(place))}}

\* What a file opened means to a call: an error, or a file it is to fill.
Fills(c, o, after) ==
    /\ tree' = o.tree
    /\ IF o.at = Nowhere
       THEN call' = [call EXCEPT ![c] = [after EXCEPT !.pc = "over", !.result = "error"]]
            /\ UNCHANGED <<reached, clashed>>
       ELSE /\ call' = [call EXCEPT ![c] = [after EXCEPT !.pc = "writing", !.place = o.at]]
            /\ reached' = reached \cup {o.at}
            /\ clashed' = IF Writers(o.at) = {} THEN clashed ELSE clashed \cup {o.at}

Write(c) ==
    /\ call[c].pc = "write"
    /\ \/ Where(c) \ {<<>>} = {} /\ End(c, "error") /\ UNCHANGED <<tree, reached, clashed>>
       \/ \E place \in Where(c) \ {<<>>} : \E o \in Opened(tree, place) : Fills(c, o, call[c])
    /\ UNCHANGED shell /\ FileStep(c)

\* ... and then what it is to hold. Two at once leave what neither wrote.
Fill(c) ==
    /\ call[c].pc = "writing"
    /\ LET p == call[c].place
       IN  tree' = IF p \notin DOMAIN tree THEN tree
                   ELSE [tree EXCEPT ![p] = File(IF @.data = "empty" THEN "whole" ELSE "mixed")]
    /\ End(c, "ok")
    /\ UNCHANGED <<shell, reached, clashed>> /\ FileStep(c)

\* browser.screenshot, the picture taken: it is written where the path led then.
SaveShot(c) ==
    /\ call[c].pc = "done" /\ Job[c].kind = "screenshot" /\ call[c].place # <<>>
    /\ \E o \in Opened(tree, call[c].place) : Fills(c, o, [call[c] EXCEPT !.handle = 0])
    /\ chrome' = LetGo(c)
    /\ UNCHANGED <<mix, budget, guest, sup, hub, current, conn, on, shell, moved>> /\ ToolsUntouched

\* shell.exec: it says so, and a shell is started in the workspace.
StartShell(c) ==
    /\ call[c].pc = "shell" /\ Emit(c, "progress")
    /\ call' = [call EXCEPT ![c].pc = "running"] /\ shell' = [shell EXCEPT ![c] = "running"]
    /\ UNCHANGED <<mix, budget, chrome, guest, sup, hub, current, on, tree, reached, clashed, moved>>
    /\ ToolsUntouched

\* A shell, or what it detached, does what it was told, once: it may leave a link behind.
ShellWorks(c) ==
    /\ shell[c] \in {"running", "left"} /\ Job[c].does # None
    /\ shell' = [shell EXCEPT ![c] = IF @ = "left" THEN "exited" ELSE "worked"]
    /\ tree' = Put(tree, Job[c].does.at, Job[c].does.entry)
    /\ moved' = (moved \/ \E d \in Calls : Job[d].kind = "screenshot" /\ ~Over(d))
    /\ UNCHANGED <<chromeVars, guest, sup, hub, current, conn, on, reached, clashed>>

Lives(c) == shell[c] \in {"running", "worked"}

\* What is left of a shell that is gone: a grandchild, if it had started one that is to do the work.
Leaving(c, how) == IF Job[c].detached /\ shell[c] = "running" THEN "left" ELSE how

\* It ends by itself, and the tool says so and returns.
ShellExits(c) ==
    /\ call[c].pc = "running" /\ Lives(c) /\ ~Job[c].endless
    /\ shell[c] = "running" => Job[c].does = None \/ Job[c].detached
    /\ shell' = [shell EXCEPT ![c] = Leaving(c, "exited")] /\ Emit(c, "progress") /\ End(c, "ok")
    /\ UNCHANGED <<mix, budget, chrome, guest, sup, hub, current, on, tree, reached, clashed, moved>>
    /\ ToolsUntouched

\* timeout, kill_on_drop: its time is over, and so is the shell, but not what it detached.
ShellTimesOut(c) ==
    /\ call[c].pc = "running" /\ Lives(c)
    /\ End(c, "error") /\ shell' = [shell EXCEPT ![c] = Leaving(c, "killed")]
    /\ UNCHANGED <<mix, budget, chrome, guest, sup, hub, current, conn, on, tree, reached, clashed, moved>>
    /\ ToolsUntouched

\* run_tool: the one frame that ends a call, after everything the tool had to say.
Report(c) ==
    /\ call[c].pc = "over" /\ Emit(c, "answer")
    /\ call' = [call EXCEPT ![c].pc = "sent"]
    /\ UNCHANGED <<mix, budget, chrome, guest, sup, hub, current, on>> /\ ToolsUntouched /\ FilesUntouched

-----------------------------------------------------------------------------
(* The process.                                                             *)

\* A signal, or a supervisor that gave up: nothing more is read. Calls go on.
Stop ==
    /\ guest = "up" /\ IF sup.pc = "exit" THEN UNCHANGED budget ELSE Spend("stop")
    /\ guest' = "stopping" /\ conn' = Lose /\ current' = 0
    /\ UNCHANGED <<mix, chrome, portFile, page, contexts, handle, slot, slotLock, marks, call, missed>>
    /\ UNCHANGED <<sup, hub, on>> /\ FilesUntouched

\* Whatever the process holds is dropped: what it spawned is killed, its tasks are gone.
AllDropped == [b \in Chromes |-> IF chrome[b] \in {"starting", "up"}
                                    /\ (\/ \E h \in Handles : handle[h].owned = b /\ (slot = h \/ Holding(h) # {})
                                        \/ \E c \in Calls : call[c].spawned = b) THEN "dying" ELSE chrome[b]]
Gone == [c \in Calls |-> IF Over(c) THEN call[c] ELSE [call[c] EXCEPT !.pc = "gone", !.handle = 0, !.spawned = 0]]

\* shutdown without the request to close: only a child is stopped.
KillOnly == AllDropped

\* Context::shutdown: the browser is asked to close, if it can be asked, and killed if it is a child.
Closed ==
    LET asked == IF slot # 0 /\ ~handle[slot].closed /\ handle[slot].socket = "open"
                 THEN {handle[slot].chrome} ELSE {}
    IN  [b \in Chromes |-> IF b \in asked /\ chrome[b] = "up" THEN "dying" ELSE AllDropped[b]]

Shutdown ==
    /\ guest = "stopping" /\ slotLock = None
    /\ guest' = "stopped" /\ chrome' = Closed /\ call' = Gone
    /\ shell' = [c \in Calls |-> IF Lives(c) THEN Leaving(c, "killed") ELSE shell[c]]
    /\ UNCHANGED <<mix, budget, portFile, page, contexts, handle, slot, slotLock, marks, missed>>
    /\ UNCHANGED <<sup, hub, current, conn, on, tree, reached, clashed, moved>>

\* Killed: nothing runs on the way out. Browsers and shells live on.
Crash ==
    /\ guest = "up" /\ Spend("crash")
    /\ guest' = "dead" /\ call' = Gone /\ conn' = Lose /\ current' = 0
    /\ handle' = [h \in Handles |-> IF handle[h] = NoHandle THEN NoHandle
                                     ELSE [handle[h] EXCEPT !.socket = "gone", !.wire = <<>>, !.owned = 0]]
    /\ slot' = 0 /\ slotLock' = None
    /\ UNCHANGED <<mix, chrome, portFile, page, contexts, marks, missed>>
    /\ UNCHANGED <<sup, hub, on>> /\ FilesUntouched

\* Started again.
Restart ==
    /\ guest = "dead"
    /\ guest' = "up" /\ sup' = [pc |-> "connect", first |-> TRUE, wait |-> ReconnectMin]
    /\ UNCHANGED <<chromeVars, hub, current, conn, on>> /\ FilesUntouched

-----------------------------------------------------------------------------
Running == guest \in {"up", "stopping"}
ToolStep(c) ==
    \/ SayFirst(c) \/ Read(c) \/ Write(c) \/ Fill(c) \/ SaveShot(c)
    \/ StartShell(c) \/ ShellExits(c) \/ ShellTimesOut(c) \/ Report(c)

Supervise == Connect \/ Sleep \/ ReaderEnds \/ Drained
Work == \/ ChromeStep /\ UNCHANGED guestVars
        \/ Shutdown
        \/ \E c \in mix.calls :
             \/ Running /\ ToolStep(c)
             \/ Running /\ BrowserStep(c) /\ UNCHANGED guestVars
             \/ ShellWorks(c)
Fate == Stop \/ Crash \/ Restart \/ HubChanges \/ ConnectionLost \/ (Mishap /\ UNCHANGED guestVars)
Arrives == \E c \in mix.calls : Receive(c)

Next == Supervise \/ Work \/ Fate \/ Arrives
Spec == Init /\ [][Next]_vars

\* The runtime runs every task that can run, and Chrome does what it is told.
FairSpec == Spec /\ WF_vars(Supervise) /\ WF_vars(Work)

-----------------------------------------------------------------------------
(* What must hold.                                                          *)

\* Every variable holds what its declaration says it does.
TypeOK ==
    /\ guest \in {"up", "stopping", "stopped", "dead"} /\ hub \in {"nobody", "serves", "refuses", "unready"}
    /\ sup.pc \in {"connect", "serve", "drain", "sleep", "exit"} /\ sup.wait \in ReconnectMin .. ReconnectMax
    /\ current \in Connections \cup {0} /\ on \in [Calls -> Connections \cup {0}]
    /\ chrome \in [Chromes -> {"none", "starting", "up", "dying", "dead"}]
    /\ portFile \in Chromes \cup {0} /\ slot \in Handles \cup {0} /\ slotLock \in Calls \cup {None}
    /\ \A c \in Calls : call[c].handle \in Handles \cup {0} /\ call[c].spawned \in Chromes \cup {0}
    /\ \A h \in Handles : handle[h].pending \subseteq Calls \X Nat
    /\ shell \in [Calls -> {"none", "running", "worked", "left", "exited", "killed"}]

\* A ref names the thing the snapshot listed under it, however the page has changed since:
\* a click acts on that, or on nothing.
ActsOnWhatWasSeen ==
    \A c \in Calls : call[c].element # None /\ call[c].by = Job[c].after /\ call[call[c].by].result = "ok" =>
                        call[c].element = call[Job[c].after].list[Job[c].ref]

\* What is acted on is on the page when it is.
ActsOnThePage == \A c \in Calls : call[c].element # None => call[c].there

\* A click that reports no navigation leaves the page it was made on, and every ref of it,
\* unless a navigation was still on its way when the click's moment ended, or somebody else
\* went elsewhere.
ClickSaysIfThePageStayed ==
    \A c \in Calls :
      (call[c].result = "ok" /\ Job[c].kind = "click" /\ ~call[c].navigated /\ ~call[c].left
         /\ \A d \in Calls \ {c} : Job[d].kind \in {"open", "click"} => call[d].pc = "idle")
      => call[c].where = call[c].on

\* Nobody waits for a reply of a connection whose reader has gone: whoever came too late to be
\* woken does not wait.
NobodyWaitsForTheDead == \A c \in Calls : call[c].pc = "wait" => HandleOf(c).reader # "done"

\* A browser that lives on the profile can be found by the next launch, whoever started it and
\* whatever became of them, unless a launch once looked for it and did not see it: it was too slow to
\* answer, or, of a guest killed in the middle of a launch, came up between the look and the removal of
\* the port (Browser::launch).
LiveBrowserIsRecorded == \A b \in Chromes : chrome[b] = "up" /\ ~missed => portFile = b

\* A guest that stopped leaves no browser it could reach, adopted or its own.
StopLeavesNoBrowser ==
    guest = "stopped" =>
      \A h \in Handles : (slot = h /\ handle[h].socket = "open" /\ ~handle[h].closed) \/ handle[h].owned # 0 =>
        \A b \in {handle[h].chrome, handle[h].owned} \ {0} :
          b = handle[h].owned \/ slot = h => ~Alive(b)

\* What a tool says goes to the connection that asked, never to one made since.
AnswersGoBack ==
    \A n \in Connections : \A i \in DOMAIN conn[n].out : on[conn[n].out[i][1]] = n

\* The shell of a command that is reported over is over, however the command ended.  What it detached
\* may live on: only the shell that was started is killed (shell.exec).
EndedMeansStopped ==
    \A c \in Calls : Job[c].kind = "shell" /\ call[c].pc \in {"over", "sent"} => ~Lives(c)

\* A file is whole unless it is being written, two calls wrote it at once, or the guest was
\* stopped or killed in the middle.
FilesAreWhole ==
    \A p \in DOMAIN tree : tree[p].data \in {"empty", "mixed"} =>
      \/ Writers(p) # {} \/ p \in clashed
      \/ \E c \in Calls : call[c].pc = "gone" /\ call[c].place = p

\* With confinement on, no file tool reads or writes outside the workspace, whatever links
\* there are, as long as none is made between a path's look-up and its use.
Confined == mix.confine /\ ~moved => \A p \in reached : IsPrefix(Root, p)

\* A guest that served once, and that no hub refuses, is back once a hub stays.
ComesBack ==
    (~sup.first /\ hub = "serves" /\ "refuses" \notin mix.hubs)
      ~> ((current # 0 /\ conn[current].socket = "open") \/ hub # "serves"
            \/ (guest # "up" /\ sup.pc # "exit"))

\* Every call a guest takes ends, unless the guest does first: there are only so many, so again
\* and again none is left under way.
CallsEnd == []<>(guest \in {"stopped", "dead"} \/ \A c \in Calls : Over(c))

\* A tool acts on the page the model saw, and says so when the page has moved on
\* (SNAPSHOT_JS, click, tools.rs browser_click).
PageIsWhatWasSeen == ActsOnWhatWasSeen /\ ActsOnThePage /\ ClickSaysIfThePageStayed

\* Whatever ends - a call, a connection, a browser, the guest - takes what was its own with
\* it and leaves what was not (browser.rs, tools.rs, client.rs).
NothingIsLeftBehind ==
    /\ TypeOK
    /\ NobodyWaitsForTheDead /\ AnswersGoBack
    /\ LiveBrowserIsRecorded /\ StopLeavesNoBrowser
    /\ EndedMeansStopped /\ FilesAreWhole /\ Confined

\* A guest that lost its hub comes back, and every call it took ends.
ServesOn == ComesBack /\ CallsEnd

=============================================================================
