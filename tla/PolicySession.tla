---------------------------- MODULE PolicySession ----------------------------
(***************************************************************************)
(* One session's policy over its lifetime: the rules stay, and every        *)
(* "always" a person answers adds a grant (Hub::tool_call, the AllowAlways   *)
(* arm).  The properties compare Policy!Evaluate, the loop the code runs,    *)
(* with what its documentation promises about precedence and grants.        *)
(***************************************************************************)
EXTENDS Policy

CONSTANTS Policies,   \* the policies a hub may hand to a session, no grants
          Calls       \* the calls a Bot may make

\* A policy a hub hands out has a list of rules and has been answered about by
\* nobody yet.
ASSUME PoliciesAssumption ==
    \A p \in Policies :
        /\ Len(p.rules) \in Nat
        /\ DOMAIN p.rules = 1 .. Len(p.rules)
        /\ p.fallback \in Actions
        /\ p = [rules |-> p.rules, fallback |-> p.fallback, grants |-> {},
                privateAllowed |-> p.privateAllowed]

VARIABLES policy,     \* the policy of the session
          answered    \* the calls a person answered "always" about

vars == <<policy, answered>>

Init == /\ policy \in Policies
        /\ answered = {}

\* A call the policy asks about, and a person answering it for the session.
AnswerAlways(call) ==
    /\ Evaluate(policy, call) = "ask"
    /\ policy' = AllowFromNowOn(policy, call)
    /\ answered' = answered \cup {call}

Next == \E call \in Calls : AnswerAlways(call)

Spec == Init /\ [][Next]_vars

-----------------------------------------------------------------------------
WithRules(rules) == [policy EXCEPT !.rules = rules]
WithoutGrants    == [policy EXCEPT !.grants = {}]

\* The rules that match a call, by action, wherever they stand in the list.
SomeRule(action, call) ==
    \E i \in DOMAIN policy.rules :
        policy.rules[i].action = action /\ Matches(policy.rules[i], call)

\* The same rules in the opposite order.
Reversed(rules) == [i \in DOMAIN rules |-> rules[Len(rules) + 1 - i]]

Without(rules, i) ==
    [j \in 1..(Len(rules) - 1) |-> IF j < i THEN rules[j] ELSE rules[j + 1]]

\* A rule's deny and the private-destination refusal stand whatever else the
\* policy says and whatever was answered (policy.rs, Policy::evaluate).
RefusalsStand ==
    \A call \in Calls :
        \/ SomeRule("deny", call)
        \/ RefusedDestination(policy, call)
        => Evaluate(policy, call) = "deny"

\* A prompt is only lifted by an answer about the same tool that was about the
\* same origin or about a call with no origin (allow_from_now_on_for).
LiftedOnlyByAnAnswer ==
    \A call \in Calls :
        /\ Evaluate(WithoutGrants, call) = "ask"
        /\ Evaluate(policy, call) = "allow"
        => \E a \in answered : /\ a.tool = call.tool
                               /\ CallOrigin(a) \in {CallOrigin(call), NoOrigin}

\* Nobody is asked again about a call that was answered "always".
AnswersHold == \A a \in answered : Evaluate(policy, a) = "allow"

\* The verdict does not depend on the order the rules are listed in.
OrderDoesNotMatter ==
    \A call \in Calls :
        Evaluate(policy, call) = Evaluate(WithRules(Reversed(policy.rules)), call)

\* Removing a rule that narrows on an argument the call lacks changes nothing
\* (Rule::matches).
NarrowRulesNeedTheirArgument ==
    \A call \in Calls, i \in DOMAIN policy.rules :
        /\ policy.rules[i].when # NoMatch
        /\ policy.rules[i].when.key \notin DOMAIN call.args
        => Evaluate(policy, call)
             = Evaluate(WithRules(Without(policy.rules, i)), call)

\* Adding an allow rule never turns an ask rule's prompt or a deny rule's
\* refusal into an allow (the module comment of policy.rs).
AllowNeverWidens ==
    \A call \in Calls, i \in DOMAIN policy.rules :
        /\ policy.rules[i].action = "allow"
        /\ SomeRule("ask", call) \/ SomeRule("deny", call)
        => Evaluate(policy, call)
             = Evaluate(WithRules(Without(policy.rules, i)), call)

\* The order of precedence the module comment of policy.rs gives: a refusal over a
\* prompt over an allow, by rules that match and nothing else.
Precedence ==
    RefusalsStand /\ OrderDoesNotMatter /\ NarrowRulesNeedTheirArgument /\ AllowNeverWidens

=============================================================================
