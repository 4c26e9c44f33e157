--------------------------------- MODULE Chrome ---------------------------------
(***************************************************************************)
(* The browser of a computer (crates/botroster-guest/src/browser.rs) and the      *)
(* guest's one handle on it (Context in tools.rs).                             *)
(*                                                                         *)
(* Tool calls share the handle: a call takes it, launching a browser when there    *)
(* is none, and sends it DevTools commands over one connection whose replies a     *)
(* reader task hands back by id. Chrome is a process of its own: it outlives a     *)
(* guest that is killed, it dies by itself, its page connection can be lost while   *)
(* it lives. A step is what happens between two awaits, or under one lock.         *)
(***************************************************************************)
EXTENDS Integers, Sequences, SequencesExt, FiniteSets

CONSTANTS Calls,      \* the tool calls
          Job,        \* what each call asks for
          Mixes,      \* accounts: which calls there are, what may go wrong
          MaxChromes, \* Chromes started, at most
          MaxHandles, \* connections made, at most
          MaxPolls,   \* times a click looks whether the page went away, at most
          None

VARIABLES
    mix,        \* the account of this behaviour
    budget,     \* what may still go wrong
    chrome,     \* every Chrome: none, starting, up, dying, dead
    portFile,   \* the Chrome whose port DevToolsActivePort holds, or 0
    page,       \* the page of each Chrome
    contexts,   \* JavaScript contexts made so far
    handle,     \* every connection: [chrome, owned, socket, writer, reader, closed, pending, wire]
    slot,       \* the handle the guest keeps, or 0
    slotLock,   \* the call in the middle of finding or launching one
    marks,      \* clicks that marked a page so far: nav_token
    call,       \* the calls
    missed      \* ghost: a launch went on to forget the recorded port and a browser lived that its
                \* probe had not seen: too slow to answer, or up only behind the probe

chromeVars == <<mix, budget, chrome, portFile, page, contexts, handle, slot, slotLock, marks,
                call, missed>>

Chromes == 1 .. MaxChromes
Handles == 1 .. MaxHandles

\* What each tool asks of the browser, in order.
Navigating == <<"navigate", "ready", "info">>
Clicking   == <<"mark", "act", "poll", "ready", "info">>
Pointing   == <<"move", "press", "release">>
Typing     == <<"key down", "key up">>
Watching   == <<"capture", "info">>
Script(kind) ==
    CASE kind = "open"       -> Navigating
      [] kind = "click"      -> Clicking
      [] kind = "click_at"   -> Pointing
      [] kind = "key"        -> Typing
      [] kind = "frame"      -> Watching
      [] kind = "fill"       -> <<"act">>
      [] kind = "screenshot" -> <<"capture">>
      [] kind \in {"text", "snapshot", "scroll"} -> <<kind>>
      [] OTHER               -> <<>>

OnBrowser(c) == Script(Job[c].kind) # <<>>

IdleCall == [pc |-> "idle", handle |-> 0, spawned |-> 0, step |-> 1, asked |-> 0, token |-> 0,
             polls |-> 0, reply |-> "none", navigated |-> FALSE, element |-> None, on |-> 0,
             where |-> 0, left |-> FALSE, there |-> FALSE, by |-> None, list |-> <<>>, place |-> None, result |-> "none"]

BlankPage(ctx) == [ctx |-> ctx, dom |-> <<<<ctx, 1>>, <<ctx, 2>>>>, refs |-> None, by |-> None,
                   mark |-> 0, nav |-> None, down |-> FALSE]
NoHandle == [chrome |-> 0, owned |-> 0, socket |-> "none", writer |-> TRUE, reader |-> "reading",
             closed |-> FALSE, pending |-> {}, wire |-> <<>>]

ChromeInit ==
    /\ mix \in Mixes /\ budget = mix.budget
    /\ chrome = [b \in Chromes |-> "none"] /\ portFile = 0 /\ contexts = 0
    /\ page = [b \in Chromes |-> BlankPage(0)]
    /\ handle = [h \in Handles |-> NoHandle] /\ slot = 0 /\ slotLock = None /\ marks = 0
    /\ call = [c \in Calls |-> IdleCall] /\ missed = FALSE

\* Something that goes wrong is taken off what may.
Spend(what) == what \in DOMAIN budget /\ budget[what] > 0 /\ budget' = [budget EXCEPT ![what] = @ - 1]

-----------------------------------------------------------------------------
(* Processes and handles.                                                   *)

Alive(b)   == chrome[b] \in {"starting", "up"}
Holding(h) == {c \in Calls : call[c].handle = h}

\* kill_on_drop: a handle nobody holds any more kills the Chrome it spawned.
Dropped(handles) ==
    [b \in Chromes |-> IF Alive(b) /\ \E h \in handles : handle[h].owned = b THEN "dying" ELSE chrome[b]]

\* A call lets its handle go; the handle goes when the slot has let it go too.
LetGo(c) == IF call[c].handle # 0 /\ slot # call[c].handle /\ Holding(call[c].handle) = {c}
            THEN Dropped({call[c].handle}) ELSE chrome

\* The connections of a Chrome that is no more.
Severed(b) == [h \in Handles |-> IF handle[h].chrome = b /\ handle[h].socket = "open"
                                 THEN [handle[h] EXCEPT !.socket = "lost", !.wire = <<>>] ELSE handle[h]]

\* A call is over: what it says, and its handle let go.
Finish(c, result) ==
    /\ call' = [call EXCEPT ![c].pc = "over", ![c].result = result, ![c].handle = 0]
    /\ chrome' = LetGo(c)

-----------------------------------------------------------------------------
(* Context::browser and Browser::launch.                                    *)

\* browser_if_running: the live viewer takes what there is, and starts nothing.
TakeRunning(c) ==
    /\ call[c].pc = "want" /\ Job[c].kind = "frame" /\ slotLock = None
    /\ IF slot # 0 /\ ~handle[slot].closed
       THEN call' = [call EXCEPT ![c].pc = "check", ![c].handle = slot] /\ UNCHANGED chrome
       ELSE Finish(c, "idle")
    /\ UNCHANGED <<mix, budget, portFile, page, contexts, handle, slot, slotLock, marks, missed>>

\* browser(), the lock taken: the one there is, or a launch. A dead one is dropped first.
TakeOrLaunch(c) ==
    /\ call[c].pc = "want" /\ Job[c].kind # "frame" /\ slotLock = None
    /\ IF slot # 0 /\ ~handle[slot].closed
       THEN call' = [call EXCEPT ![c].pc = "check", ![c].handle = slot]
            /\ UNCHANGED <<chrome, slot, slotLock>>
       ELSE /\ call' = [call EXCEPT ![c].pc = "probe"] /\ slotLock' = c /\ slot' = 0
            /\ chrome' = IF slot # 0 /\ Holding(slot) = {} THEN Dropped({slot}) ELSE chrome
    /\ UNCHANGED <<mix, budget, portFile, page, contexts, handle, marks, missed>>

\* A launch that failed: what it spawned is killed with it.
LaunchFails(c) ==
    /\ call' = [call EXCEPT ![c].pc = "over", ![c].result = "error", ![c].spawned = 0]
    /\ slotLock' = None
    /\ chrome' = IF call[c].spawned # 0 /\ Alive(call[c].spawned)
                 THEN [chrome EXCEPT ![call[c].spawned] = "dying"] ELSE chrome

Answering == portFile # 0 /\ chrome[portFile] = "up"

\* adoptable: whoever answers on the port the profile recorded. One that is dying still may;
\* one that lives may be too slow.
Probe(c) ==
    /\ call[c].pc = "probe"
    /\ \/ /\ portFile # 0 /\ chrome[portFile] \in {"up", "dying"}
          /\ call' = [call EXCEPT ![c].pc = "attach"] /\ UNCHANGED <<budget, missed>>
       \/ /\ ~Answering
          /\ call'= [call EXCEPT ![c].pc = "spawn"] /\ UNCHANGED <<budget, missed>>
       \/ /\ Answering /\ Spend("slow")
          /\ call' = [call EXCEPT ![c].pc = "spawn"] /\ missed' = TRUE
    /\ UNCHANGED <<mix, chrome, portFile, page, contexts, handle, slot, slotLock, marks>>

\* A browser is looked for, a stale port forgotten, and a child started.
Spawn(c) ==
    /\ call[c].pc = "spawn"
    /\ IF ~mix.installed
       THEN LaunchFails(c) /\ UNCHANGED portFile
       ELSE \E b \in Chromes :
              /\ chrome[b] = "none" /\ \A a \in Chromes : a < b => chrome[a] # "none"
              /\ portFile' = 0
              /\ chrome' = [chrome EXCEPT ![b] = "starting"]
              /\ call' = [call EXCEPT ![c].pc = "port", ![c].spawned = b] /\ UNCHANGED slotLock
    /\ UNCHANGED <<mix, budget, page, contexts, handle, slot, marks, missed>>

\* wait_for_port: a port, or thirty seconds without one.
WaitForPort(c) ==
    /\ call[c].pc = "port"
    /\ IF portFile # 0
       THEN call' = [call EXCEPT ![c].pc = "attach"] /\ UNCHANGED <<chrome, slotLock>>
       ELSE ~Alive(call[c].spawned) /\ LaunchFails(c)
    /\ UNCHANGED <<mix, budget, portFile, page, contexts, handle, slot, marks, missed>>

\* attach: a connection to the page, and the first commands over it; then it is the guest's.
Attach(c) ==
    /\ call[c].pc = "attach"
    /\ IF Answering /\ \E h \in Handles : handle[h] = NoHandle
       THEN LET h == CHOOSE h \in Handles : handle[h] = NoHandle /\ \A g \in Handles : g < h => handle[g] # NoHandle
            IN  /\ handle' = [handle EXCEPT ![h].chrome = portFile, ![h].owned = call[c].spawned,
                                            ![h].socket = "open"]
                /\ slot' = h /\ slotLock' = None
                /\ call' = [call EXCEPT ![c].pc = "check", ![c].handle = h, ![c].spawned = 0]
                /\ UNCHANGED chrome
       ELSE LaunchFails(c) /\ UNCHANGED <<handle, slot>>
    /\ UNCHANGED <<mix, budget, portFile, page, contexts, marks, missed>>

-----------------------------------------------------------------------------
(* Browser::call: a command, its place among the pending ones, and its reply.        *)

Command(c)  == Script(Job[c].kind)[call[c].step]
HandleOf(c) == handle[call[c].handle]
Asking(c)   == <<c, call[c].asked>>      \* next_id: a command of its own number

\* A command that failed as the connection did, or whose reply said so: what its tool makes of
\* it. A click that loses sight of its mark goes on; waiting for a page never fails.
Failed(c, why) ==
    IF Command(c) = "ready" \/ (Command(c) = "poll" /\ why = "closed")
    THEN [call[c] EXCEPT !.pc = "next", !.reply = why]
    ELSE IF Command(c) = "poll" THEN [call[c] EXCEPT !.pc = "next", !.reply = "error", !.navigated = TRUE]
    ELSE [call[c] EXCEPT !.pc = "fail", !.reply = why]

\* The flag is looked at, ...
Check(c) ==
    /\ call[c].pc = "check"
    /\ call' = [call EXCEPT ![c] = IF HandleOf(c).closed THEN Failed(c, "closed")
                                   ELSE [@ EXCEPT !.pc = "insert"]]
    /\ UNCHANGED <<mix, budget, chrome, portFile, page, contexts, handle, slot, slotLock, marks, missed>>

\* ... the waiter put in the map, under its lock, ...
Insert(c) ==
    /\ call[c].pc = "insert"
    /\ handle' = [handle EXCEPT ![call[c].handle].pending = @ \cup {<<c, call[c].asked + 1>>}]
    /\ call' = [call EXCEPT ![c].pc = "recheck", ![c].asked = @ + 1, ![c].reply = "none"]
    /\ UNCHANGED <<mix, budget, chrome, portFile, page, contexts, slot, slotLock, marks, missed>>

\* ... the flag looked at again, for a reader that finished in between, ...
Recheck(c) ==
    /\ call[c].pc = "recheck"
    /\ IF HandleOf(c).closed
       THEN /\ handle' = [handle EXCEPT ![call[c].handle].pending = @ \ {Asking(c)}]
            /\ call' = [call EXCEPT ![c] = Failed(c, "closed")]
       ELSE call' = [call EXCEPT ![c].pc = "send"] /\ UNCHANGED handle
    /\ UNCHANGED <<mix, budget, chrome, portFile, page, contexts, slot, slotLock, marks, missed>>

\* ... and the command goes to the writer, if there still is one.
Send(c) ==
    /\ call[c].pc = "send"
    /\ IF HandleOf(c).writer
       THEN /\ handle' = [handle EXCEPT ![call[c].handle].wire = Append(@, <<c, call[c].asked, Command(c)>>)]
            /\ call' = [call EXCEPT ![c].pc = "wait"]
       ELSE call' = [call EXCEPT ![c] = Failed(c, "closed")] /\ UNCHANGED handle
    /\ UNCHANGED <<mix, budget, chrome, portFile, page, contexts, slot, slotLock, marks, missed>>

\* A minute without a reply: what was asked may have been done all the same.
TimesOut(c) ==
    /\ call[c].pc = "wait" /\ Spend("timeout")
    /\ call' = [call EXCEPT ![c] = Failed(c, "error")]
    /\ UNCHANGED <<mix, chrome, portFile, page, contexts, handle, slot, slotLock, marks, missed>>

\* The writer finds the socket gone.
WriterBreaks(h) ==
    /\ handle[h].socket = "lost" /\ handle[h].writer /\ handle[h].wire # <<>>
    /\ handle' = [handle EXCEPT ![h].writer = FALSE, ![h].closed = TRUE, ![h].wire = <<>>]
    /\ UNCHANGED <<mix, budget, chrome, portFile, page, contexts, slot, slotLock, marks, call, missed>>

\* The reader finds it gone: the flag first, ...
ReaderFlags(h) ==
    /\ handle[h].socket = "lost" /\ handle[h].reader = "reading"
    /\ handle' = [handle EXCEPT ![h].reader = "flagged", ![h].closed = TRUE]
    /\ UNCHANGED <<mix, budget, chrome, portFile, page, contexts, slot, slotLock, marks, call, missed>>

\* ... and then everyone who waits is woken.
ReaderWakes(h) ==
    /\ handle[h].reader = "flagged"
    /\ handle' = [handle EXCEPT ![h].reader = "done", ![h].pending = {}]
    /\ call' = [c \in Calls |-> IF Asking(c) \in handle[h].pending /\ call[c].pc \in {"send", "wait"}
                                THEN Failed(c, "closed") ELSE call[c]]
    /\ UNCHANGED <<mix, budget, chrome, portFile, page, contexts, slot, slotLock, marks, missed>>

-----------------------------------------------------------------------------
(* The page: what Chrome does with a command, and the world with the page.           *)

Missing(why) == [found |-> FALSE, why |-> why, element |-> None]
Element(e)   == [found |-> TRUE, why |-> "ok", element |-> e]

\* The snapshot keeps what it lists: what can be acted on, from the top, so many at most.
Listed(p) == SubSeq(p.dom, 1, IF Len(p.dom) < mix.limit THEN Len(p.dom) ELSE mix.limit)

\* A ref taken as a place in the page as it is now.
Requeried(p, n) == IF n \in DOMAIN p.dom THEN Element(p.dom[n]) ELSE Missing("missing")

\* Target::resolve_js: a ref is the very node the last snapshot kept, while it is on the page.
Resolved(p, n) ==
    IF p.refs = None THEN Missing("nosnapshot")
    ELSE IF n \notin DOMAIN p.refs THEN Missing("missing")
    ELSE IF p.refs[n] \notin ToSet(p.dom) THEN Missing("stale") ELSE Element(p.refs[n])

\* A page in a context of its own: what was marked or kept on `window` is gone.
Fresh(b) == [page EXCEPT ![b] = BlankPage(contexts + 1)]

\* What a command does to the page.
Done(b, c, cmd) ==
    LET p == page[b]
    IN  CASE cmd = "navigate" -> Fresh(b)
          [] cmd = "snapshot" -> [page EXCEPT ![b].refs = Listed(p), ![b].by = c]
          [] cmd = "mark"     -> [page EXCEPT ![b].mark = call[c].token]
          [] cmd = "press"    -> [page EXCEPT ![b].down = TRUE]
          [] cmd = "release"  -> [page EXCEPT ![b].down = FALSE]
          [] cmd = "act" /\ Job[c].kind = "click" /\ Resolved(p, Job[c].ref).found /\ Job[c].leads ->
                [page EXCEPT ![b].nav = "coming"]
          [] OTHER            -> page

\* What it answers, and what the call keeps of the answer.
Answer(b, c, cmd) ==
    LET p == page[b]
        e == Resolved(p, Job[c].ref)
        was == [call[c] EXCEPT !.pc = "next", !.reply = "ok"]
    IN  CASE cmd = "act" /\ e.found       -> [was EXCEPT !.element = e.element, !.on = p.ctx,
                                                         !.there = (e.element \in ToSet(p.dom)), !.by = p.by]
          [] cmd = "act" /\ ~e.found      -> [was EXCEPT !.pc = "fail", !.reply = e.why]
          [] cmd = "poll"                -> [was EXCEPT !.navigated = (p.mark # call[c].token),
                                                         !.left = (p.nav = "coming")]
          [] cmd = "snapshot"            -> [was EXCEPT !.list = Listed(p)]
          [] cmd = "info"                -> [was EXCEPT !.where = p.ctx]
          [] OTHER                       -> was

\* Commands are done in the order they were written; a reply finds its waiter by its number, if
\* it still waits. While the page is being replaced, a script may be torn down instead.
Execute(h) ==
    /\ handle[h].wire # <<>> /\ handle[h].socket = "open" /\ chrome[handle[h].chrome] = "up"
    /\ LET c     == Head(handle[h].wire)[1]
           e     == <<c, Head(handle[h].wire)[2]>>
           cmd   == Head(handle[h].wire)[3]
           b     == handle[h].chrome
           waits == e \in handle[h].pending /\ e = Asking(c) /\ call[c].pc = "wait"
       IN  /\ cmd = "navigate" => contexts < mix.contexts
           /\ contexts' = IF cmd = "navigate" THEN contexts + 1 ELSE contexts
           /\ \/ /\ page' = Done(b, c, cmd)
                 /\ handle' = [handle EXCEPT ![h].wire = Tail(@), ![h].pending = @ \ {e}]
                 /\ call' = IF waits THEN [call EXCEPT ![c] = Answer(b, c, cmd)] ELSE call
                 /\ UNCHANGED budget
              \/ /\ page[b].nav = "coming" /\ waits /\ Spend("torn")
                 /\ handle' = [handle EXCEPT ![h].wire = Tail(@), ![h].pending = @ \ {e}]
                 /\ call' = [call EXCEPT ![c] = Failed(c, "error")] /\ UNCHANGED page
              \/ /\ Spend("lost") /\ page' = Done(b, c, cmd)
                 /\ handle' = [handle EXCEPT ![h].socket = "lost", ![h].wire = <<>>] /\ UNCHANGED call
    /\ UNCHANGED <<mix, chrome, portFile, slot, slotLock, marks, missed>>

\* A navigation a click started is there: after milliseconds, or after the server's seconds.
Commits(b) ==
    /\ chrome[b] = "up" /\ page[b].nav = "coming" /\ contexts < mix.contexts
    /\ page' = Fresh(b) /\ contexts' = contexts + 1
    /\ UNCHANGED <<mix, budget, chrome, portFile, handle, slot, slotLock, marks, call, missed>>

\* The page changes by itself: something new comes first, or the first thing goes.
PageChanges(b) ==
    /\ chrome[b] = "up" /\ Spend("change")
    /\ \E dom \in {<<<<page[b].ctx, 3>>>> \o page[b].dom, Tail(page[b].dom)} :
          page' = [page EXCEPT ![b].dom = dom]
    /\ UNCHANGED <<mix, chrome, portFile, contexts, handle, slot, slotLock, marks, call, missed>>

\* The one page the connection is to is closed; the browser lives on.
PageLost(h) ==
    /\ handle[h].socket = "open" /\ Spend("lost")
    /\ handle' = [handle EXCEPT ![h].socket = "lost"]
    /\ UNCHANGED <<mix, chrome, portFile, page, contexts, slot, slotLock, marks, call, missed>>

\* A started Chrome takes the profile and says on which port; one that finds the profile
\* taken hands over to whoever has it, and exits.
ChromeStarts(b) ==
    /\ chrome[b] = "starting"
    /\ IF \E a \in Chromes \ {b} : chrome[a] \in {"up", "dying"}
       THEN chrome' = [chrome EXCEPT ![b] = "dead"] /\ UNCHANGED <<portFile, page, contexts, missed>>
       ELSE /\ chrome' = [chrome EXCEPT ![b] = "up"] /\ portFile' = b
            /\ page' = Fresh(b) /\ contexts' = contexts + 1
            /\ missed' = (missed \/ \E c \in Calls : call[c].pc = "spawn")
    /\ UNCHANGED <<mix, budget, handle, slot, slotLock, marks, call>>

\* A Chrome told to go, or going by itself, takes its connections with it.
ChromeDies(b) ==
    /\ \/ chrome[b] = "dying" /\ UNCHANGED budget
       \/ Alive(b) /\ Spend("dies")
    /\ chrome' = [chrome EXCEPT ![b] = "dead"] /\ handle' = Severed(b)
    /\ UNCHANGED <<mix, portFile, page, contexts, slot, slotLock, marks, call, missed>>

-----------------------------------------------------------------------------
(* What a tool does from one command to the next.                             *)

\* click_and_settle takes its number before it marks the page.
Numbered(c) ==
    /\ Job[c].kind = "click" /\ call[c].pc = "check" /\ call[c].step = 1 /\ call[c].token = 0

TakeToken(c) ==
    /\ Numbered(c)
    /\ marks' = marks + 1 /\ call' = [call EXCEPT ![c].token = marks + 1]
    /\ UNCHANGED <<mix, budget, chrome, portFile, page, contexts, handle, slot, slotLock, missed>>

\* The next command. A click looks for its mark until it is gone or its moment is over; then it
\* waits for the new page, or says where the old one is.
Proceed(c) ==
    /\ call[c].pc = "next"
    /\ LET cmd == Command(c)
           to(n) == IF n > Len(Script(Job[c].kind)) THEN [call[c] EXCEPT !.pc = "done"]
                    ELSE [call[c] EXCEPT !.pc = "check", !.step = n]
       IN  \/ cmd # "poll" /\ call' = [call EXCEPT ![c] = to(call[c].step + 1)]
           \/ cmd = "poll" /\ call[c].navigated /\ call' = [call EXCEPT ![c] = to(call[c].step + 1)]
           \/ cmd = "poll" /\ ~call[c].navigated /\ call[c].polls + 1 < MaxPolls
                 /\ call' = [call EXCEPT ![c].pc = "check", ![c].polls = @ + 1]
           \/ cmd = "poll" /\ ~call[c].navigated /\ call' = [call EXCEPT ![c] = to(call[c].step + 2)]
    /\ UNCHANGED <<mix, budget, chrome, portFile, page, contexts, handle, slot, slotLock, marks, missed>>

\* The tool returns: an error, or what it has.
Return(c) ==
    /\ call[c].pc \in {"fail", "done"} /\ ~(call[c].pc = "done" /\ Job[c].kind = "screenshot")
    /\ Finish(c, IF call[c].pc = "fail" THEN "error" ELSE "ok")
    /\ UNCHANGED <<mix, budget, portFile, page, contexts, handle, slot, slotLock, marks, missed>>

BrowserStep(c) ==
    \/ TakeRunning(c) \/ TakeOrLaunch(c) \/ Probe(c) \/ Spawn(c) \/ WaitForPort(c) \/ Attach(c)
    \/ TakeToken(c) \/ (~Numbered(c) /\ Check(c)) \/ Insert(c) \/ Recheck(c) \/ Send(c) \/ TimesOut(c)
    \/ Proceed(c) \/ Return(c)

ChromeStep ==
    \/ \E h \in Handles : WriterBreaks(h) \/ ReaderFlags(h) \/ ReaderWakes(h) \/ Execute(h)
    \/ \E b \in Chromes : ChromeStarts(b) \/ ChromeDies(b) \/ Commits(b)

Mishap == (\E b \in Chromes : PageChanges(b)) \/ \E h \in Handles : PageLost(h)
=============================================================================
