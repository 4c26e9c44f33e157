------------------------------ MODULE MCDaemon -------------------------------
(***************************************************************************)
(* Instances of Daemon: a home with a connector or three, a hook or two, and who    *)
(* calls and edits what.                                                            *)
(***************************************************************************)
EXTENDS Daemon, TLC

CONSTANTS issue, again, other, remoteOnly, unders, plain, shell, handoff, lists, reads, supply,
          rotate, forget, store, adds, adopts, removes, writes, unwrites,
          audit, veto, guard, notify, broken, deaf, lax

lin == <<"l">>
git == <<"g">>
und == <<"l", "_">>
skl == <<"skill">>
MCReserved == {<<"fs">>, <<"shell">>, <<"browser">>, <<"bot">>, <<"botroster">>, <<"secret">>}
MCLetters  == {"l", "g", "_", "skill", "fs", "FS"}
MCLower    == [x \in {"FS"} |-> "fs"]
MCWants == lin :> "new" @@ git :> None @@ und :> None @@ skl :> None
MCTool  == lin :> <<"t">> @@ git :> <<"a", ".", "b">> @@ und :> <<"t">> @@ skl :> <<"list">>
MCGuestTools == {<<"fs", ".", "read">>, <<"shell", ".", "run">>}
MCBotTools   == {<<"bot", ".", "send">>}

Key == <<"bot", "s">>
Blank == [tool |-> Wire(lin, <<"t">>), owner |-> lin, direct |-> FALSE, skill |-> "none", key |-> Key, edit |-> None, large |-> FALSE,
          args |-> <<<<"p", 1>>, <<"q", 2>>>>]
MCCalls == {issue, again, other, remoteOnly, unders, plain, shell, handoff, lists, reads, supply}
MCAsk ==
    issue :> Blank
    @@ again :> [Blank EXCEPT !.direct = TRUE, !.args = <<<<"q", 2>>, <<"p", 1>>>>]
    @@ other :> [Blank EXCEPT !.args = <<<<"p", 1>>, <<"q", 3>>>>]
    @@ remoteOnly :> [Blank EXCEPT !.tool = Wire(git, MCTool[git]), !.owner = git, !.key = None]
    @@ unders :> [Blank EXCEPT !.tool = Wire(und, <<"t">>), !.owner = und, !.direct = TRUE]
    @@ plain :> [Blank EXCEPT !.tool = <<"fs", ".", "read">>, !.owner = GuestSide, !.large = TRUE]
    @@ shell :> [Blank EXCEPT !.tool = <<"shell", ".", "run">>, !.owner = GuestSide, !.args = <<>>]
    @@ handoff :> [Blank EXCEPT !.tool = <<"bot", ".", "send">>, !.owner = BotSide]
    @@ lists :> [Blank EXCEPT !.tool = <<"skill", ".", "list">>, !.owner = SkillSide]
    @@ reads :> [Blank EXCEPT !.tool = <<"skill", ".", "read">>, !.owner = SkillSide, !.skill = "refund", !.direct = TRUE]
    @@ supply :> [Blank EXCEPT !.tool = <<"secret", ".", "request">>, !.owner = StoreSide, !.edit = store]

Put(f, name, value) == [file |-> f, op |-> "put", name |-> name, value |-> value, verify |-> FALSE, hub |-> FALSE]
Drop(f, name) == [Put(f, name, None) EXCEPT !.op = "drop"]
MCEdits == {rotate, forget, store, adds, adopts, removes, writes, unwrites}
MCEdit ==
    rotate :> Put("secrets", "token", "new") @@ forget :> Drop("secrets", "token")
    @@ store :> [Put("secrets", "token", "new") EXCEPT !.hub = TRUE]
    @@ adds :> [Put("connectors", git, None) EXCEPT !.verify = TRUE]
    @@ adopts :> [Put("connectors", lin, "token") EXCEPT !.verify = TRUE]
    @@ removes :> Drop("connectors", lin)
    @@ writes :> Put("skill", "refund", "text") @@ unwrites :> Drop("skill", "refund")

MCHook ==
    audit :> [matches |-> <<"*">>, answers |-> {"silent", "fails", "hangs"}, open |-> TRUE]
    @@ veto :> [matches |-> <<"shell", ".", "*">>, answers |-> {"deny"}, open |-> FALSE]
    @@ guard :> [matches |-> <<"l", "_", "_", "*">>, answers |-> {"approve", "deny", "fails", "hangs"}, open |-> FALSE]
    @@ notify :> [matches |-> <<"*", "t">>, answers |-> {"approve"}, open |-> FALSE]
    @@ deaf :> [matches |-> <<"*">>, answers |-> {"silent", "blocks"}, open |-> FALSE]
    @@ lax :> [matches |-> <<"fs", ".", "*">>, answers |-> {"blocks"}, open |-> TRUE]
    @@ broken :> [matches |-> <<"*">>, answers |-> {"hangs"}, open |-> FALSE]

Old == "token" :> "old"
New == "token" :> "new"
Base == [calls |-> {}, edits |-> {}, hooks |-> <<>>, remotes |-> [v \in DOMAIN MCWants |-> "up"],
         start |-> [secrets |-> New, connectors |-> lin :> "token"],
         shelf |-> [k \in {"refund"} |-> "none"], bad |-> FALSE, budget |-> [none |-> 0]]
MCMixes == {
    [Base EXCEPT !.calls = {issue, again, other}, !.budget = [crash |-> 1, disk |-> 1]],
    [Base EXCEPT !.calls = {plain, handoff, issue}, !.hooks = <<deaf, lax>>, !.budget = [crash |-> 1]],
    [Base EXCEPT !.calls = {issue, shell}, !.hooks = <<notify, audit, veto, guard>>],
    [Base EXCEPT !.calls = {plain, handoff}, !.hooks = <<audit, broken>>, !.budget = [crash |-> 2]],
    [Base EXCEPT !.calls = {issue, again}, !.edits = {rotate}, !.start.secrets = Old, !.budget = [remote |-> 2]],
    [Base EXCEPT !.calls = {again, supply}, !.edits = {rotate, store}, !.start.secrets = NoMap, !.budget = [crash |-> 1]],
    [Base EXCEPT !.calls = {again}, !.edits = {rotate, forget}, !.start.secrets = Old, !.budget = [death |-> 1]],
    [Base EXCEPT !.calls = {remoteOnly}, !.edits = {adds, removes}, !.budget = [death |-> 1, crash |-> 1]],
    [Base EXCEPT !.calls = {issue}, !.edits = {adds}, !.budget = [remote |-> 1, crash |-> 1]],
    [Base EXCEPT !.calls = {again}, !.edits = {adopts, adds}, !.start.connectors = NoMap, !.budget = [crash |-> 1]],
    [Base EXCEPT !.calls = {lists, reads}, !.edits = {writes, unwrites}, !.budget = [death |-> 1]],
    [Base EXCEPT !.calls = {unders, again, plain}, !.start.connectors = lin :> "token" @@ und :> None],
    [Base EXCEPT !.calls = {lists, remoteOnly}, !.start.connectors = skl :> None @@ git :> None, !.shelf = [k \in {"refund"} |-> "whole"]],
    [Base EXCEPT !.calls = {unders}, !.edits = {adds}, !.start.connectors = und :> None, !.budget = [remote |-> 1]],
    [Base EXCEPT !.calls = {lists, reads}, !.edits = {unwrites}, !.start.connectors = skl :> None,
                 !.shelf = [k \in {"refund"} |-> "whole"], !.budget = [remote |-> 1, crash |-> 1]],
    [Base EXCEPT !.calls = {plain}, !.hooks = <<broken>>, !.bad = TRUE],
    [Base EXCEPT !.calls = {plain}, !.edits = {adds}, !.start.connectors = <<"fs">> :> None],
    [Base EXCEPT !.calls = {plain}, !.edits = {adds}, !.start.connectors = <<"FS">> :> None],
    [Base EXCEPT !.calls = {plain}, !.edits = {removes}, !.start.connectors = Torn] }
=============================================================================
