------------------------------- MODULE MCWindow -------------------------------
(***************************************************************************)
(* Instances of Window: what a person does in one window, and what goes wrong.    *)
(***************************************************************************)
EXTENDS Window, TLC

CONSTANTS s1, s2,         \* two conversations
          p1, p2, p3, p4, p5  \* messages

MCSessions == {s1, s2}
MCPrompts  == {p1, p2, p3, p4, p5}
Plain(s)   == [session |-> s, blocks |-> "text"]
MCJob == p1 :> Plain(s1)
         @@ p2 :> [Plain(s1) EXCEPT !.blocks = "mixed"]
         @@ p3 :> [Plain(s2) EXCEPT !.blocks = "mixed"]
         @@ p4 :> [Plain(s2) EXCEPT !.blocks = "image"]
         @@ p5 :> Plain(s2)
MCWant == s1 :> [bot |-> "scout", group |-> "", cwd |-> "/"]
          @@ s2 :> [bot |-> "", group |-> "crew", cwd |-> "/"]
MCGroups == {"crew"}
MCMembers == {"scout", "chief"}

Base == [prompts |-> {p1}, pin |-> None, mention |-> None, steps |-> 1, asks |-> {}, fails |-> {}, cut |-> {},
         history |-> 1, replayLimit |-> 1, opens |-> {s1}, openOrder |-> {}, reloads |-> {},
         order |-> {<<p1, p2>>}, stops |-> FALSE, disconnects |-> FALSE, dies |-> FALSE]
MCMixes == {
    [Base EXCEPT !.prompts = {p1, p2}, !.history = 0, !.stops = TRUE],
    [Base EXCEPT !.steps = 2, !.asks = {p1}],
    [Base EXCEPT !.asks = {p1}, !.cut = {p1}, !.fails = {p1}, !.stops = TRUE],
    [Base EXCEPT !.asks = {p1}, !.disconnects = TRUE, !.dies = TRUE, !.pin = "house"],
    [Base EXCEPT !.prompts = {p1, p3}, !.opens = {s1, s2}, !.openOrder = {<<s1, s2>>},
                 !.order = {<<p1, p3>>}, !.fails = {p1}, !.mention = "chief"],
    [Base EXCEPT !.prompts = {p3, p4}, !.opens = {s2}, !.mention = "stranger"],
    [Base EXCEPT !.prompts = {p1, p2}, !.reloads = {s1}, !.history = 2],
    [Base EXCEPT !.prompts = {p3, p4, p5}, !.opens = {s2}, !.order = {<<p3, p4>>, <<p4, p5>>}, !.history = 0],
    [Base EXCEPT !.prompts = {p3, p4, p1}, !.opens = {s1, s2}, !.openOrder = {<<s2, s1>>}, !.history = 0,
                 !.mention = "chief", !.order = {<<p3, p4>>, <<p4, p1>>}, !.disconnects = TRUE] }
=============================================================================
