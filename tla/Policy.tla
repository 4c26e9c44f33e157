------------------------------- MODULE Policy -------------------------------
(***************************************************************************)
(* Approval policy (crates/botrosterd/src/policy.rs): what the hub decides  *)
(* about a tool call before anything runs, and what an "always" answer      *)
(* leaves behind in the session.                                            *)
(*                                                                         *)
(* A call is a record [tool, args]; "args" is a function from the names of  *)
(* the arguments the call carries to their values.  A glob is the set of    *)
(* names it matches, so a rule is a record [action, tools, when] where      *)
(* "when" is NoMatch or a record [key, values].                             *)
(***************************************************************************)
EXTENDS Naturals, Sequences, FiniteSets

CONSTANTS NoMatch,      \* the "when: None" of a rule
          NoOrigin,     \* nothing an origin can be derived from
          OriginOf,     \* url_origin: the origin of every url value
          PrivateUrls   \* the urls whose literal host is not on the internet

Actions  == {"allow", "ask", "deny"}
Verdicts == Actions

\* The tool whose literal private destinations are refused.
BrowserOpen == "browser.open"

(***************************************************************************)
(* The rules.                                                              *)
(***************************************************************************)

\* A rule that narrows on an argument the call does not carry does not match.
Matches(rule, call) ==
    /\ call.tool \in rule.tools
    /\ \/ rule.when = NoMatch
       \/ /\ rule.when # NoMatch
          /\ rule.when.key \in DOMAIN call.args
          /\ call.args[rule.when.key] \in rule.when.values

NothingSeen == [denied |-> FALSE, asks |-> FALSE, allowed |-> FALSE]

\* One turn of the loop of Policy::evaluate, with its early return on deny.
Noticed(seen, rule, call) ==
    IF seen.denied \/ ~Matches(rule, call) THEN seen
    ELSE [denied  |-> rule.action = "deny",
          asks    |-> seen.asks \/ rule.action = "ask",
          allowed |-> seen.allowed \/ rule.action = "allow"]

\* What the loop has seen when it ends.
Scan(rules, call) ==
    LET seen[n \in 0 .. Len(rules)] ==
          IF n = 0 THEN NothingSeen ELSE Noticed(seen[n - 1], rules[n], call) IN
    seen[Len(rules)]

(***************************************************************************)
(* Grants.                                                                 *)
(***************************************************************************)

\* The origin a call goes to, from its own url and from nothing else it says.
CallOrigin(call) ==
    IF "url" \in DOMAIN call.args THEN OriginOf[call.args["url"]] ELSE NoOrigin

ToolGrant(tool)           == <<tool>>
OriginGrant(tool, origin) == <<tool, origin>>

\* The grant recorded against the tool whatever the call says.
GrantForTheTool(call) == ToolGrant(call.tool)

\* What "allow for the rest of the session" records for one call: its origin
\* when it has one, otherwise the tool.
GrantFor(call) ==
    IF CallOrigin(call) # NoOrigin
    THEN OriginGrant(call.tool, CallOrigin(call))
    ELSE ToolGrant(call.tool)

\* Only the grants recorded against the tool are looked up.
GrantedByTool(policy, call) == ToolGrant(call.tool) \in policy.grants

\* Whether an earlier "always" covers the call.
Granted(policy, call) ==
    \/ ToolGrant(call.tool) \in policy.grants
    \/ /\ CallOrigin(call) # NoOrigin
       /\ OriginGrant(call.tool, CallOrigin(call)) \in policy.grants

(***************************************************************************)
(* The verdict.                                                            *)
(***************************************************************************)

RefusedDestination(policy, call) ==
    /\ ~policy.privateAllowed
    /\ call.tool = BrowserOpen
    /\ "url" \in DOMAIN call.args
    /\ call.args["url"] \in PrivateUrls

\* An allow rule looked at before the ask rules: it would widen the policy.
EvaluateAllowFirst(policy, call) ==
    LET seen == Scan(policy.rules, call) IN
    IF RefusedDestination(policy, call) \/ seen.denied THEN "deny"
    ELSE IF Granted(policy, call) \/ seen.allowed THEN "allow"
    ELSE IF seen.asks THEN "ask"
    ELSE policy.fallback

\* Precedence: the private-address refusal, deny, a grant, ask, allow, the
\* fallback.
Evaluate(policy, call) ==
    LET seen == Scan(policy.rules, call) IN
    IF RefusedDestination(policy, call) \/ seen.denied THEN "deny"
    ELSE IF Granted(policy, call) THEN "allow"
    ELSE IF seen.asks THEN "ask"
    ELSE IF seen.allowed THEN "allow"
    ELSE policy.fallback

\* Policy::allow_from_now_on_for.
AllowFromNowOn(policy, call) ==
    [policy EXCEPT !.grants = @ \cup {GrantFor(call)}]
=============================================================================
