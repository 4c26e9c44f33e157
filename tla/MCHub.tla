-------------------------------- MODULE MCHub --------------------------------
(***************************************************************************)
(* Instances of Hub.  The catalogue names every request the runs use; a      *)
(* configuration picks some of them, and the connections and ids they need.  *)
(***************************************************************************)
EXTENDS HubPromise, TLC

Read  == [tool |-> "fs.read",    args |-> <<>>]     \* the policy allows it
Write == [tool |-> "fs.write",   args |-> <<>>]     \* the policy asks
Wipe  == [tool |-> "fs.wipe",    args |-> <<>>]     \* the policy denies it
Hand  == [tool |-> "bot.send",   args |-> <<>>]     \* the hub serves it; asked
Cred  == [tool |-> "secret.request", args |-> <<>>] \* the hub asks the caller

Rule(action, tools) == [action |-> action, tools |-> tools, when |-> NoMatch]

MCPolicy == [rules |-> <<Rule("allow", {"fs.read", "secret.request"}),
                         Rule("ask", {"fs.write", "bot.send"}),
                         Rule("deny", {"fs.wipe"})>>,
             fallback |-> "ask", grants |-> {}, privateAllowed |-> FALSE]

MCOriginOf == [u \in {} |-> NoOrigin]

MCServerOf == [g \in Guests |-> IF g = "guest2" THEN "pc2" ELSE "pc"]

MCRecorded == <<Read, Write>>
Blank(op, c) == [op |-> op, from |-> c, sid |-> "s", server |-> None, callId |-> None,
                 call |-> Read, bot |-> TRUE, replay |-> FALSE, after |-> {}]

OpenReq(c, s)       == [Blank("open", c) EXCEPT !.sid = s]
ReplayReq(c)        == [Blank("open", c) EXCEPT !.replay = TRUE]
CloseReq(c)         == Blank("close", c)
ServeReq(c)         == Blank("serve", c)
BindReq(c, s, v)    == [Blank("bind", c) EXCEPT !.sid = s, !.server = v]
TakeReq(c, s)       == [Blank("takeover", c) EXCEPT !.sid = s, !.server = "pc"]
GiveReq(c)          == [Blank("release", c) EXCEPT !.server = "pc"]
CallReq(c, s, i, x) == [Blank("call", c) EXCEPT !.sid = s, !.callId = i, !.call = x]

\* The peers of a script are its own, but for the guests.
Catalogue ==
    ("open"    :> OpenReq("h1", "s"))         @@ ("open2"  :> OpenReq("h2", "s2")) @@
    ("bind"    :> BindReq("h1", "s", "pc"))   @@ ("bind2"  :> BindReq("h2", "s2", "pc2")) @@
    ("close"   :> CloseReq("h1"))             @@ ("serve"  :> ServeReq("guest")) @@
    ("read"    :> CallReq("h1", "s", "c0", Read))   @@
    ("read2"   :> CallReq("h2", "s2", "c0", Read))  @@
    ("write"   :> CallReq("h1", "s", "c0", Write))  @@
    ("openw"   :> OpenReq("w1", "s"))         @@ ("mint"   :> OpenReq("w2", None)) @@
    ("bindw"   :> BindReq("w1", "s", "pc"))   @@
    ("writew"  :> CallReq("w1", "s", "c0", Write))  @@
    ("hand"    :> CallReq("w2", "s2", "c0", Hand))  @@
    ("minta"   :> OpenReq("ask", None))             @@
    ("wipe"    :> CallReq("ask", "s2", "c0", Wipe)) @@
    ("cred"    :> CallReq("ask", "s2", "c1", Cred)) @@
    ("replayt" :> ReplayReq("t1"))            @@ ("reopen" :> OpenReq("t1", "s")) @@
    ("steal"   :> OpenReq("t2", "s"))         @@ ("take"   :> TakeReq("t1", "s")) @@
    ("give"    :> GiveReq("t1"))              @@ ("give2"  :> GiveReq("t2")) @@
    ("readt"   :> CallReq("t1", "s", "c0", Read))   @@
    ("replay"  :> ReplayReq("r1"))            @@ ("reopenr" :> OpenReq("r1", "s")) @@
    ("openx"   :> OpenReq("self", "s"))       @@ ("bindx"  :> BindReq("self", "s", "pc")) @@
    ("readx"   :> CallReq("self", "s", "c0", Read)) @@
    ("readr"   :> CallReq("r1", "s", "c0", Read))   @@
    ("wiper"   :> CallReq("r1", "s", "c1", Wipe))

\* Clients open a session, then bind it, then use it.
\* A session is opened again at any moment, whatever is running in it; the second
\* of two clients begins when the first has its computer.
Before(r, ops) ==
    {q \in Requests : /\ q \notin {"reopen", "reopenr"}
                      /\ Catalogue[q].op \in ops
                      /\ Catalogue[q].from = Catalogue[r].from}

Needs(r) ==
    IF r = "open2" THEN {"bind"}
    ELSE IF Catalogue[r].op \in {"open", "serve"} THEN {}
    ELSE IF Catalogue[r].op = "bind" THEN Before(r, {"open"})
    ELSE Before(r, {"open", "bind"})

MCOrdered == [r \in Requests |-> [Catalogue[r] EXCEPT !.after = Needs(r)]]
=============================================================================
