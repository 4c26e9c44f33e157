------------------------------- MODULE Provider -------------------------------
(***************************************************************************)
(* What goes to a model provider and what comes back                        *)
(* (crates/botroster-agent: model.rs, providers/http.rs, transient.rs).        *)
(*                                                                         *)
(* A message is a role and a sequence of blocks: text, a tool the model asks   *)
(* for, or the result of one. Two vendors speak two dialects; each refuses a    *)
(* conversation in which a question and its answer do not pair.                 *)
(***************************************************************************)
EXTENDS Integers, Sequences, FiniteSets, SequencesExt

CONSTANTS None,
          Offered     \* the ids of the tools a session is offered; an id is the
                      \* sequence of its words and of the marks between them

Text(words)        == [kind |-> "text", id |-> None, body |-> words]
ToolUse(id, tool)  == [kind |-> "use", id |-> id, body |-> tool]
ToolResult(id, what) == [kind |-> "result", id |-> id, body |-> what]

User(content)      == [role |-> "user", content |-> content]
Assistant(content) == [role |-> "assistant", content |-> content]

Only(kind, content) == SelectSeq(content, LAMBDA b : b.kind = kind)
Ids(kind, content)  == {content[i].id : i \in {i \in DOMAIN content : content[i].kind = kind}}

-----------------------------------------------------------------------------
(* The request in each dialect.                                             *)

\* anthropic::request: one message for one, its blocks in their order.
AnthropicRequest(messages) == messages

\* openai::request: results leave the user's message and become messages of their
\* own, in front of whatever text it holds; an assistant's text comes before its calls.
OpenAiMessage(m) ==
    IF m.role = "assistant"
    THEN <<Assistant(Only("text", m.content) \o Only("use", m.content))>>
    ELSE LET results == Only("result", m.content)
             words   == Only("text", m.content)
         IN  [i \in DOMAIN results |-> [role |-> "tool", content |-> <<results[i]>>]]
             \o (IF words = <<>> THEN <<>> ELSE <<User(words)>>)

OpenAiRequest(messages) == FlattenSeq([i \in DOMAIN messages |-> OpenAiMessage(messages[i])])

\* The ids a message must answer: those the assistant's message before it asked for.
\* A run of "tool" messages answers as one.
Asked(wire, i) == IF i = 0 THEN {} ELSE Ids("use", wire[i].content)

\* What the vendor of the Messages dialect accepts: no hollow message, every call
\* answered in the next message, every result right behind its call, none twice.
AnthropicAccepts(wire) ==
    \A i \in DOMAIN wire :
        /\ wire[i].content # <<>>
        /\ Ids("result", wire[i].content) \subseteq Asked(wire, i - 1)
        /\ Cardinality(Ids("result", wire[i].content)) = Len(Only("result", wire[i].content))
        /\ Asked(wire, i) # {} =>
              i < Len(wire) /\ Asked(wire, i) \subseteq Ids("result", wire[i + 1].content)

\* What the vendor of chat completions accepts: a "tool" message stands among the
\* answers to one assistant message, and they answer every call of it.
OpenAiAccepts(wire) ==
    \A i \in DOMAIN wire :
        /\ wire[i].role = "tool" =>
              \E a \in 1 .. i - 1 :
                  /\ wire[a].role = "assistant"
                  /\ wire[i].content[1].id \in Asked(wire, a)
                  /\ \A k \in a + 1 .. i - 1 :
                        wire[k].role = "tool" /\ wire[k].content[1].id # wire[i].content[1].id
        /\ \A id \in Asked(wire, i) :
              \E k \in i + 1 .. Len(wire) :
                  /\ wire[k].role = "tool" /\ wire[k].content[1].id = id
                  /\ \A j \in i + 1 .. k : wire[j].role = "tool"

Accepts(dialect, messages) ==
    IF dialect = "anthropic" THEN AnthropicAccepts(AnthropicRequest(messages))
    ELSE OpenAiAccepts(OpenAiRequest(messages))

-----------------------------------------------------------------------------
(* The tools: "fs.read" goes out as "fs__read".                              *)

Sanitize(name)   == [i \in DOMAIN name |-> IF name[i] = "." THEN "__" ELSE name[i]]
Unsanitize(name) == [i \in DOMAIN name |-> IF name[i] = "__" THEN "." ELSE name[i]]

\* restore_names: the exact id, else the one id that escapes to the name; two that
\* do are not guessed between, and a name nobody offered is read back plainly.
RestoreName(wire) ==
    LET escaped == {t \in Offered : Sanitize(t) = wire}
    IN  IF wire \in Offered \/ Cardinality(escaped) > 1 THEN wire
        ELSE IF escaped # {} THEN CHOOSE t \in escaped : TRUE
        ELSE Unsanitize(wire)

-----------------------------------------------------------------------------
(* The response. The provider's is [status, error, content, finish, usage].   *)

Overload(status) == status \in {408, 429} \/ status >= 500

\* The stop reasons each dialect names; anything else is the end of the turn.
AnthropicStop(finish) ==
    CASE finish = "tool_use"   -> "ToolUse"
      [] finish = "max_tokens" -> "MaxTokens"
      [] finish = "refusal"    -> "Declined"
      [] OTHER                 -> "EndTurn"
OpenAiStop(finish) ==
    CASE finish \in {"tool_calls", "function_call"} -> "ToolUse"
      [] finish = "length"                          -> "MaxTokens"
      [] finish = "content_filter"                  -> "Declined"
      [] OTHER                                      -> "EndTurn"

\* anthropic::response and openai::response: None where the reply is not one.
AnthropicResponse(r) ==
    IF r.content = None THEN None
    ELSE [content |-> r.content, stop |-> AnthropicStop(r.finish), usage |-> r.usage]
OpenAiResponse(r) ==
    IF r.content = None THEN None
    ELSE [content |-> Only("text", r.content) \o Only("use", r.content),
          stop |-> OpenAiStop(r.finish), usage |-> r.usage]

Response(dialect, r) ==
    IF dialect = "anthropic" THEN AnthropicResponse(r) ELSE OpenAiResponse(r)

Named(content) ==
    [i \in DOMAIN content |->
        IF content[i].kind = "use" THEN [content[i] EXCEPT !.body = RestoreName(@)]
        ELSE content[i]]

\* HttpModel::turn: what the loop is handed, an error or a turn. A status of None is
\* a request that never arrived, or an answer cut short.
Turned(dialect, r) ==
    LET failed(e) == [error |-> e, content |-> <<>>, stop |-> None, usage |-> None]
    IN  IF r.status = None THEN failed("Transport")
        ELSE IF r.status >= 300
             THEN failed(IF Overload(r.status) THEN "Overloaded" ELSE "Rejected")
        ELSE IF r.content = None /\ r.error THEN failed("Rejected")
        ELSE IF Response(dialect, r) = None THEN failed("Malformed")
        ELSE LET v == Response(dialect, r)
             IN  [error |-> None, content |-> Named(v.content), stop |-> v.stop,
                  usage |-> v.usage]

\* model_failure: what waiting can fix.
ModelFailure(e) == e \in {"Transport", "Overloaded"}

\* is_transient, of a failure before the run began.
IsTransient(e) == e \in {"Connect", "Closed", "NoServerBound"} \/ ModelFailure(e)
=============================================================================
