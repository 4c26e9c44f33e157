-------------------------------- MODULE MCTurn --------------------------------
(***************************************************************************)
(* Instances of Turn: turns on one Bot's conversation and on a group's thread. *)
(***************************************************************************)
EXTENDS Turn, TLC

CONSTANTS p1, p2, p3, p4,  \* turns of one Bot on its own conversation
          retry,       \* restates what p1 was asked
          bare,        \* a turn whose provider gives its calls no ids
          g1, g2,      \* turns in the group
          w1, w2       \* things said

MCTurns == {p1, p2, p3, p4, retry, bare, g1, g2}

Own == [thread |-> "own", task |-> "t1", limit |-> 3, steps |-> 2, budget |-> None,
        deniesAll |-> FALSE, dialect |-> "anthropic", ids |-> TRUE]
MCJob ==
    p1 :> Own
    @@ p2 :> [Own EXCEPT !.task = "t2", !.dialect = "openai", !.limit = 4]
    @@ p3 :> [Own EXCEPT !.task = "t3", !.deniesAll = TRUE, !.budget = 1, !.limit = 2]
    @@ p4 :> [Own EXCEPT !.task = "t4", !.limit = 6]
    @@ retry :> [Own EXCEPT !.limit = 5]
    @@ bare :> [Own EXCEPT !.ids = FALSE, !.dialect = "openai", !.steps = 3]
    @@ g1 :> [Own EXCEPT !.thread = "group"]
    @@ g2 :> [Own EXCEPT !.thread = "group", !.task = "t2"]

Read == <<"fs", ".", "read">>
Far  == <<"fs", "__", "read">>      \* a connector's tool, written like fs.read on the wire
Odd  == <<"fs", ".", "a", "__", "b">>
Even == <<"fs", "__", "a", ".", "b">>
MCOffered == {Read, Odd, Even}

Ok(content, finish, usage) ==
    [status |-> 200, error |-> FALSE, content |-> content, finish |-> finish, usage |-> usage]
Bad(status) == [status |-> status, error |-> TRUE, content |-> None, finish |-> None, usage |-> None]
Use(tool) == ToolUse(None, tool)
Says    == Ok(<<Text("w")>>, "stop", 1)
One     == Ok(<<Use(Far)>>, "tool_use", 1)
Two     == Ok(<<Text("w"), Use(Far), Use(Sanitize(Odd))>>, "tool_use", 1)
OneMore == Ok(<<Use(Far)>>, "tool_calls", None)
Cut     == Ok(<<Use(Far)>>, "max_tokens", 1)
Refused == Ok(<<>>, "refusal", 1)
Hollow  == Ok(<<Text("w")>>, "tool_use", 1)
Usual == {Says, Two, Cut, Bad(429)}
All   == {Says, One, Two, OneMore, Cut, Refused, Hollow, Bad(200), Bad(429), Bad(None)}

Base == [turns |-> {}, mortal |-> {}, cut |-> {}, stopped |-> {}, order |-> {}, log |-> <<>>,
         says |-> [p \in MCTurns |-> <<>>], replies |-> Usual]
MCMixes == {
    [Base EXCEPT !.turns = {p1, p2}, !.mortal = {p1}, !.order = {<<p1, p2>>}],
    [Base EXCEPT !.turns = {p1, p4}, !.order = {<<p1, p4>>}, !.replies = {Says, One, OneMore, Refused}],
    [Base EXCEPT !.turns = {p1, retry}, !.mortal = {retry}, !.cut = {p1}, !.order = {<<p1, retry>>}],
    [Base EXCEPT !.turns = {p1, retry}, !.mortal = {p1}, !.replies = {Says, Bad(429)}],
    [Base EXCEPT !.turns = {p1, p2}, !.replies = {Says, One}],
    [Base EXCEPT !.turns = {p3}, !.cut = {p3}, !.stopped = {p3}, !.says[p3] = <<w1, w2>>, !.replies = All],
    [Base EXCEPT !.turns = {bare}, !.replies = All],
    [Base EXCEPT !.turns = {g1, g2}, !.order = {<<g1, g2>>}, !.replies = {Says, Cut, Two}] }
=============================================================================
