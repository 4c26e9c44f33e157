------------------------------ MODULE MCComputer -----------------------------
(***************************************************************************)
(* Instances of Computer: what is started on one machine, and in whose way.         *)
(***************************************************************************)
EXTENDS Computer, TLC

CONSTANTS up1, up2, plain1, plain2, nested, daemon, run1, run2, abroad, client, exported, tick, window1, window2,
          child1, child2, bare, childb, viewer, claim, give, keys, picture, stray

MCProcs    == {up1, up2, plain1, plain2, nested, daemon, run1, run2, abroad, client, exported, tick, window1, window2,
               child1, child2, bare, childb, viewer}
MCRequests == {claim, give, keys, picture, stray}

Std  == "127.0.0.1:8443"
Home == <<"home">>
Blank == [kind |-> "up", home |-> Home, workspace |-> None, port |-> Std, env |-> None, parent |-> None]
Of(kind) == [Blank EXCEPT !.kind = kind]
MCJob ==
    up1 :> Blank @@ up2 :> [Blank EXCEPT !.port = "127.0.0.1:9000"]
    @@ plain1 :> [Blank EXCEPT !.workspace = <<"code">>]
    @@ plain2 :> [Blank EXCEPT !.workspace = <<"code">>, !.home = <<"away">>, !.port = "127.0.0.1:9000"]
    @@ nested :> [Blank EXCEPT !.workspace = <<"code">>, !.home = <<"code", "data">>]
    @@ daemon :> Of("daemon") @@ run1 :> Of("run") @@ run2 :> Of("run")
    @@ abroad :> [Of("run") EXCEPT !.home = <<"away">>]
    @@ client :> Of("client")
    @@ exported :> [Of("run") EXCEPT !.env = up2]
    @@ tick :> [Of("tick") EXCEPT !.parent = up1, !.home = <<"away">>]
    @@ window1 :> [Of("window") EXCEPT !.port = "127.0.0.1:9000"]
    @@ child1 :> [Blank EXCEPT !.parent = window1]
    @@ viewer :> [Of("watch") EXCEPT !.parent = window1, !.port = "127.0.0.1:9000"]
    @@ window2 :> [Of("window") EXCEPT !.port = "127.0.0.1:9000"]
    @@ child2 :> [Blank EXCEPT !.parent = window2]
    @@ bare :> [Of("window") EXCEPT !.port = "bare"]
    @@ childb :> [Blank EXCEPT !.parent = bare]

Asked2(kind) == [kind |-> kind, known |-> TRUE]
MCAsks == claim :> Asked2("takeover") @@ give :> Asked2("release") @@ keys :> Asked2("input")
          @@ picture :> Asked2("frame") @@ stray :> [Asked2("input") EXCEPT !.known = FALSE]

NoTrouble == "none" :> 0
Base == [procs |-> {}, requests |-> {}, broken |-> {}, fragile |-> {}, talks |-> {}, budget |-> NoTrouble]
MCMixes == {
    [Base EXCEPT !.procs = {up1, up2, client, tick}],
    [Base EXCEPT !.procs = {up1, up2}, !.fragile = {up1, up2}, !.budget = "crash" :> 1 @@ "slow" :> 1],
    [Base EXCEPT !.procs = {up1, run1, client}, !.budget = "slow" :> 1],
    [Base EXCEPT !.procs = {run1, run2}],
    [Base EXCEPT !.procs = {up1, exported, abroad}],
    [Base EXCEPT !.procs = {up2, plain1, plain2}, !.fragile = {plain1}, !.budget = "crash" :> 1],
    [Base EXCEPT !.procs = {nested, plain2}],
    [Base EXCEPT !.procs = {daemon, up1, client}, !.budget = "slow" :> 1],
    [Base EXCEPT !.procs = {daemon, up2, client}],
    [Base EXCEPT !.procs = {window1, child1, viewer, client}, !.talks = {window1}],
    [Base EXCEPT !.procs = {window1, child1, up2}, !.budget = "patience" :> 1],
    [Base EXCEPT !.procs = {window1, child1, window2, child2}, !.fragile = {window1},
                 !.budget = "crash" :> 1],
    [Base EXCEPT !.procs = {window1, child1, viewer}, !.budget = "slow" :> 2],
    [Base EXCEPT !.procs = {bare, childb, client}],
    [Base EXCEPT !.procs = {run1, window1, child1, daemon}, !.broken = {Home}],
    [Base EXCEPT !.requests = {claim, give, keys, picture, stray}, !.budget = "other" :> 2] }
=============================================================================
