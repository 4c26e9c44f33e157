------------------------------- MODULE MCGuest --------------------------------
(***************************************************************************)
(* Instances of Guest: what is asked of one computer, and what goes wrong.          *)
(***************************************************************************)
EXTENDS Guest, TLC

CONSTANTS open, snap, snap2, click, click2, shot, frame, point,   \* calls on the browser
          read, list, write, write2, linker, later, plain, endless, bad  \* and the others

MCCalls == {open, snap, snap2, click, click2, shot, frame, point, read, list, write, write2, linker,
            later, plain, endless, bad}
MCRoot  == <<"w">>

Rel(parts) == [absolute |-> FALSE, parts |-> parts]
Abs(parts) == [absolute |-> TRUE, parts |-> parts]
Blank      == [kind |-> "bad", ref |-> 1, after |-> None, leads |-> FALSE, path |-> Rel(<<>>), does |-> None,
               endless |-> FALSE, detached |-> FALSE]
Browse(kind) == [Blank EXCEPT !.kind = kind]
OnFile(kind, path) == [Blank EXCEPT !.kind = kind, !.path = path]
MCJob ==
    open :> Browse("open") @@ snap :> Browse("snapshot") @@ snap2 :> Browse("snapshot")
    @@ click :> [Browse("click") EXCEPT !.after = snap, !.leads = TRUE]
    @@ click2 :> [Browse("click") EXCEPT !.after = snap2, !.ref = 2]
    @@ shot :> [Browse("screenshot") EXCEPT !.path = Rel(<<"new", "p">>)]
    @@ frame :> Browse("frame") @@ point :> Browse("click_at")
    @@ read :> OnFile("read", Rel(<<"f">>)) @@ list :> OnFile("read", Rel(<<"..", "w", ".">>))
    @@ write :> OnFile("write", Rel(<<"f">>)) @@ write2 :> OnFile("write", Abs(<<"w", "a", "f">>))
    @@ linker :> [Blank EXCEPT !.kind = "shell", !.does = [at |-> <<"w", "a">>, entry |-> Link(<<"out", "b">>)]]
    @@ later :> [Blank EXCEPT !.kind = "shell", !.detached = TRUE,
                             !.does = [at |-> <<"w", "a">>, entry |-> Link(<<"out", "b">>)]]
    @@ plain :> [Blank EXCEPT !.kind = "shell"]
    @@ endless :> [Blank EXCEPT !.kind = "shell", !.endless = TRUE]
    @@ bad :> Blank

Plain == [q \in {<<"w">>, <<"out">>} |-> Dir]
Linked(target) == Put(Put(Plain, <<"w", "f">>, Link(target)), <<"out", "k">>, File("whole"))
NoTrouble == "none" :> 0
Base == [calls |-> {}, order |-> {}, budget |-> NoTrouble, hub |-> "serves", hubs |-> {}, installed |-> TRUE,
         contexts |-> 3, limit |-> 2, confine |-> TRUE, tree |-> Plain]
MCMixes == {
    [Base EXCEPT !.calls = {snap, click, snap2}, !.order = {<<snap, click>>},
                 !.budget = "change" :> 1],
    [Base EXCEPT !.calls = {snap, snap2, click}, !.order = {<<snap, snap2>>, <<snap2, click>>}],
    [Base EXCEPT !.calls = {snap, click}, !.order = {<<snap, click>>}, !.contexts = 4,
                 !.budget = "torn" :> 1 @@ "timeout" :> 1],
    [Base EXCEPT !.calls = {open, point}, !.budget = "lost" :> 1],
    [Base EXCEPT !.calls = {open, frame}, !.budget = "lost" :> 1 @@ "stop" :> 1],
    [Base EXCEPT !.calls = {point, frame}, !.budget = "dies" :> 1 @@ "timeout" :> 1],
    [Base EXCEPT !.calls = {open, point}, !.budget = "crash" :> 1 @@ "slow" :> 1 @@ "stop" :> 1,
                 !.order = {<<open, point>>}],
    [Base EXCEPT !.calls = {open, point}, !.budget = "crash" :> 1 @@ "slow" :> 1 @@ "stop" :> 1],
    [Base EXCEPT !.calls = {snap, snap2, shot}, !.budget = "crash" :> 1],
    [Base EXCEPT !.calls = {open, frame}, !.installed = FALSE],
    [Base EXCEPT !.calls = {write, write2, read, list}, !.tree = Linked(<<"out", "k">>)],
    [Base EXCEPT !.calls = {write, read, list}, !.tree = Linked(<<"out", "n">>)],
    [Base EXCEPT !.calls = {write, write2, read}, !.tree = Put(Linked(<<"w", "a", "f">>), <<"w", "a">>, Dir),
                 !.budget = "crash" :> 1],
    [Base EXCEPT !.calls = {write2, linker}],
    [Base EXCEPT !.calls = {write2, later, read}, !.budget = "crash" :> 1 @@ "stop" :> 1],
    [Base EXCEPT !.calls = {shot, linker, write}],
    [Base EXCEPT !.calls = {write}, !.tree = Linked(<<"out", "n">>), !.confine = FALSE],
    [Base EXCEPT !.calls = {plain, endless}, !.budget = "drop" :> 2],
    [Base EXCEPT !.calls = {plain, endless}, !.budget = "hub" :> 3, !.hubs = {"nobody", "unready", "serves"}],
    [Base EXCEPT !.calls = {endless, bad}, !.hub = "unready", !.budget = "hub" :> 2 @@ "stop" :> 1,
                 !.hubs = {"serves", "refuses"}] }
=============================================================================
