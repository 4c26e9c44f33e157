----------------------------- MODULE PolicyProofs -----------------------------
(***************************************************************************)
(* What "always" answers do to a session's policy, for every policy and      *)
(* every set of calls, whatever the loop over the rules finds; then what the *)
(* loop finds, by induction on the rules, and the precedence that follows.   *)
(***************************************************************************)
EXTENDS PolicySession, WellFoundedInduction, TLAPS

\* The policy is the one the session was given with one grant per answer, and
\* a call a person was asked about was not refused by it.
AnswerInv ==
    /\ \E p \in Policies :
          policy = [rules |-> p.rules, fallback |-> p.fallback,
                    grants |-> {GrantFor(a) : a \in answered},
                    privateAllowed |-> p.privateAllowed]
    /\ \A a \in answered :
          ~RefusedDestination(policy, a) /\ ~Scan(policy.rules, a).denied

LEMMA InitAnswerInv == ASSUME Init PROVE AnswerInv
<1>1. {GrantFor(a) : a \in answered} = {} /\ answered = {}
  BY DEF Init
<1>2. PICK p \in Policies : policy = p
  BY DEF Init
<1>3. policy = [rules |-> p.rules, fallback |-> p.fallback, grants |-> {},
                privateAllowed |-> p.privateAllowed]
  BY <1>2, PoliciesAssumption
<1>4. QED
  BY <1>1, <1>3 DEF AnswerInv

\* An answer adds its grant and disturbs nothing else.
LEMMA AnswerKeeps ==
    ASSUME AnswerInv, NEW call \in Calls, AnswerAlways(call)
    PROVE  AnswerInv'
<1>1. PICK p \in Policies :
         policy = [rules |-> p.rules, fallback |-> p.fallback,
                   grants |-> {GrantFor(a) : a \in answered},
                   privateAllowed |-> p.privateAllowed]
  BY DEF AnswerInv
<1>2. policy' = [rules |-> p.rules, fallback |-> p.fallback,
                 grants |-> policy.grants \cup {GrantFor(call)},
                 privateAllowed |-> p.privateAllowed]
  BY <1>1 DEF AnswerAlways, AllowFromNowOn
<1>3. policy.grants \cup {GrantFor(call)} = {GrantFor(a) : a \in answered'}
  BY <1>1 DEF AnswerAlways
<1>4. policy'.rules = policy.rules /\ policy'.privateAllowed = policy.privateAllowed
  BY <1>1, <1>2
<1>5. ~RefusedDestination(policy, call) /\ ~Scan(policy.rules, call).denied
  BY DEF AnswerAlways, Evaluate
<1>6. \A a \in answered' :
         ~RefusedDestination(policy', a) /\ ~Scan(policy'.rules, a).denied
  BY <1>4, <1>5 DEF AnswerInv, AnswerAlways, RefusedDestination
<1>7. QED
  BY <1>2, <1>3, <1>6 DEF AnswerInv

LEMMA AnswerInductive == AnswerInv /\ [Next]_vars => AnswerInv'
<1> SUFFICES ASSUME AnswerInv, [Next]_vars PROVE AnswerInv'
  OBVIOUS
<1>1. CASE UNCHANGED vars
  BY <1>1 DEF vars, AnswerInv
<1>2. CASE Next
  BY <1>2, AnswerKeeps DEF Next
<1>3. QED
  BY <1>1, <1>2

\* Nobody is asked again about a call that was answered "always", whatever the
\* rules and whatever was answered since.
THEOREM NeverAskedAgain == Spec => []AnswersHold
<1>1. AnswerInv => AnswersHold
  <2>1. SUFFICES ASSUME AnswerInv, NEW a \in answered
                 PROVE  Evaluate(policy, a) = "allow"
    BY DEF AnswersHold
  <2>2. GrantFor(a) \in policy.grants
    BY <2>1 DEF AnswerInv
  <2>3. Granted(policy, a)
    BY <2>2 DEF Granted, GrantFor
  <2>4. QED
    BY <2>1, <2>3 DEF AnswerInv, Evaluate
<1>2. QED
  BY <1>1, InitAnswerInv, AnswerInductive, PTL DEF Spec

\* A prompt is lifted only by an answer about the same tool, and for a call
\* with an origin by one about that origin or about none: an answer about one
\* site never opens another.
THEOREM AnswersStayOnTheirSite == Spec => []LiftedOnlyByAnAnswer
<1>1. AnswerInv => LiftedOnlyByAnAnswer
  <2>1. SUFFICES ASSUME AnswerInv, NEW call \in Calls,
                        Evaluate(WithoutGrants, call) = "ask",
                        Evaluate(policy, call) = "allow"
                 PROVE  \E a \in answered :
                           /\ a.tool = call.tool
                           /\ CallOrigin(a) \in {CallOrigin(call), NoOrigin}
    BY DEF LiftedOnlyByAnAnswer
  <2>2. PICK p \in Policies :
           policy = [rules |-> p.rules, fallback |-> p.fallback,
                     grants |-> {GrantFor(a) : a \in answered},
                     privateAllowed |-> p.privateAllowed]
    BY <2>1 DEF AnswerInv
  <2>3. WithoutGrants = [rules |-> p.rules, fallback |-> p.fallback,
                         grants |-> {}, privateAllowed |-> p.privateAllowed]
    BY <2>2 DEF WithoutGrants
  <2>4. Granted(policy, call)
    <3>1. RefusedDestination(WithoutGrants, call) <=> RefusedDestination(policy, call)
      BY <2>2, <2>3 DEF RefusedDestination
    <3>2. WithoutGrants.rules = policy.rules /\ WithoutGrants.fallback = policy.fallback
      BY <2>2, <2>3
    <3>3. QED
      BY <2>1, <3>1, <3>2 DEF Evaluate
  <2>5. PICK a \in answered :
           \/ GrantFor(a) = ToolGrant(call.tool)
           \/ /\ CallOrigin(call) # NoOrigin
              /\ GrantFor(a) = OriginGrant(call.tool, CallOrigin(call))
    BY <2>2, <2>4 DEF Granted
  <2>6. a.tool = call.tool /\ CallOrigin(a) \in {CallOrigin(call), NoOrigin}
    BY <2>5 DEF GrantFor, ToolGrant, OriginGrant
  <2>7. QED
    BY <2>6
<1>2. QED
  BY <1>1, InitAnswerInv, AnswerInductive, PTL DEF Spec

-----------------------------------------------------------------------------
(***************************************************************************)
(* Induction.  The library's own theorems about it take an operator, which  *)
(* the provers cannot instantiate; a set of numbers says the same.          *)
(***************************************************************************)

\* A set of numbers that is not empty has a least one.
LEMMA Least ==
    ASSUME NEW S \in SUBSET Nat, S # {}
    PROVE \E n \in S : \A m \in S : n <= m
<1> DEFINE R == {ss \in Nat \X Nat : ss[1] < ss[2]}
<1>1. IsWellFoundedOn(R, Nat)
  BY NatLessThanWellFounded DEF OpToRel
<1>2. PICK n \in S : \A m \in S : <<m, n>> \notin R
  BY <1>1, WFMin
<1>3. \A m \in S : ~(m < n)
  BY <1>2
<1> QED
  BY <1>3

\* A set that has zero, and the next of every number it has, has them all.
LEMMA Steps ==
    ASSUME NEW S, 0 \in S, \A n \in Nat : n \in S => n + 1 \in S
    PROVE Nat \subseteq S
<1> SUFFICES ASSUME Nat \ S # {} PROVE FALSE
  OBVIOUS
<1>1. PICK n \in Nat \ S : \A m \in Nat \ S : n <= m
  BY Least
<1>2. n # 0 /\ n - 1 \in Nat /\ n - 1 \in S
  BY <1>1
<1> QED
  BY <1>1, <1>2

-----------------------------------------------------------------------------
(***************************************************************************)
(* The loop over the rules.                                                *)
(***************************************************************************)

\* The equation of the loop has a solution: the first rules' one, extended by
\* one rule.
LEMMA ScanExists ==
    ASSUME NEW rules, NEW call, Len(rules) \in Nat
    PROVE  \E f : f = [n \in 0 .. Len(rules) |->
                          IF n = 0 THEN NothingSeen
                          ELSE Noticed(f[n - 1], rules[n], call)]
<1> DEFINE G(f, m) == f = [n \in 0 .. m |->
                              IF n = 0 THEN NothingSeen
                              ELSE Noticed(f[n - 1], rules[n], call)]
<1> DEFINE S == {m \in Nat : \E f : G(f, m)}
<1>1. 0 \in S
  <2>1. G([n \in 0 .. 0 |-> NothingSeen], 0)
    OBVIOUS
  <2>2. QED
    BY <2>1
<1>2. ASSUME NEW m \in Nat, m \in S
      PROVE  m + 1 \in S
  <2>1. PICK f : G(f, m)
    BY <1>2
  <2> DEFINE g == [n \in 0 .. (m + 1) |->
                      IF n <= m THEN f[n] ELSE Noticed(f[m], rules[m + 1], call)]
  <2>2. \A n \in 0 .. m : g[n] = f[n]
    OBVIOUS
  <2>3. \A n \in 0 .. m : n # 0 => g[n] = Noticed(g[n - 1], rules[n], call)
    BY <2>1, <2>2
  <2>4. g[0] = NothingSeen
    BY <2>1, <2>2
  <2>5. G(g, m + 1)
    <3>1. m \in 0 .. m /\ g[m] = f[m] /\ g[m + 1] = Noticed(f[m], rules[m + 1], call)
      BY <2>2
    <3>2. \A n \in 0 .. (m + 1) :
             g[n] = IF n = 0 THEN NothingSeen ELSE Noticed(g[n - 1], rules[n], call)
      <4> HIDE DEF g
      <4>1. g[m + 1] = Noticed(g[(m + 1) - 1], rules[m + 1], call)
        BY <3>1
      <4>2. \A n \in 0 .. (m + 1) : n = 0 \/ n = m + 1 \/ (n \in 0 .. m /\ n # 0)
        OBVIOUS
      <4>3. QED
        BY <2>3, <2>4, <4>1, <4>2
    <3>3. QED
      BY <3>2
  <2> HIDE DEF g
  <2>6. \E h : G(h, m + 1)
    BY <2>5
  <2>7. QED
    BY <2>6
<1>3. Len(rules) \in S
  BY <1>1, <1>2, Steps
<1>4. QED
  BY <1>3

LEMMA ScanSolves ==
    ASSUME NEW rules, NEW call, Len(rules) \in Nat
    PROVE  \E f : /\ f = [n \in 0 .. Len(rules) |->
                             IF n = 0 THEN NothingSeen
                             ELSE Noticed(f[n - 1], rules[n], call)]
                  /\ Scan(rules, call) = f[Len(rules)]
<1> DEFINE P(f) == f = [n \in 0 .. Len(rules) |->
                           IF n = 0 THEN NothingSeen
                           ELSE Noticed(f[n - 1], rules[n], call)]
<1> DEFINE F == CHOOSE f : P(f)
<1>1. P(F)
  <2>1. \E f : P(f)
    BY ScanExists
  <2> HIDE DEF P
  <2>2. QED
    BY <2>1
<1>2. Scan(rules, call) = F[Len(rules)]
  BY DEF Scan
<1> HIDE DEF F
<1>3. QED
  BY <1>1, <1>2

\* One of the first n rules says the action and matches.
Hit(rules, call, action, n) ==
    \E i \in 1 .. n : rules[i].action = action /\ Matches(rules[i], call)

Seen == [denied : BOOLEAN, asks : BOOLEAN, allowed : BOOLEAN]

\* What the loop may have seen after n rules.
SeesFirst(seen, rules, call, n) ==
    /\ seen \in Seen
    /\ seen.denied <=> Hit(rules, call, "deny", n)
    /\ ~seen.denied => /\ seen.asks <=> Hit(rules, call, "ask", n)
                       /\ seen.allowed <=> Hit(rules, call, "allow", n)

\* One more rule.
LEMMA NoticedSees ==
    ASSUME NEW seen, NEW rules, NEW call, NEW n \in Nat,
           SeesFirst(seen, rules, call, n)
    PROVE  SeesFirst(Noticed(seen, rules[n + 1], call), rules, call, n + 1)
<1> DEFINE rule == rules[n + 1]
<1> DEFINE H(a) == rule.action = a /\ Matches(rule, call)
<1>1. \A a : Hit(rules, call, a, n + 1) <=> Hit(rules, call, a, n) \/ H(a)
  <2>1. SUFFICES ASSUME NEW a
                 PROVE  Hit(rules, call, a, n + 1) <=> Hit(rules, call, a, n) \/ H(a)
    OBVIOUS
  <2>2. 1 .. (n + 1) = (1 .. n) \cup {n + 1}
    OBVIOUS
  <2>3. QED
    BY <2>2 DEF Hit
<1>2. CASE seen.denied
  BY <1>1, <1>2 DEF SeesFirst, Noticed
<1>3. CASE ~seen.denied /\ ~Matches(rule, call)
  BY <1>1, <1>3 DEF SeesFirst, Noticed
<1>4. CASE ~seen.denied /\ Matches(rule, call)
  <2> DEFINE next == [denied  |-> rule.action = "deny",
                      asks    |-> seen.asks \/ rule.action = "ask",
                      allowed |-> seen.allowed \/ rule.action = "allow"]
  <2>1. Noticed(seen, rule, call) = next
    BY <1>4 DEF Noticed
  <2>2. next \in Seen
    BY DEF Seen
  <2>3. /\ next.denied <=> rule.action = "deny"
        /\ next.asks <=> seen.asks \/ rule.action = "ask"
        /\ next.allowed <=> seen.allowed \/ rule.action = "allow"
    OBVIOUS
  <2> HIDE DEF next, rule
  <2>4. /\ ~Hit(rules, call, "deny", n)
        /\ seen.asks <=> Hit(rules, call, "ask", n)
        /\ seen.allowed <=> Hit(rules, call, "allow", n)
    BY <1>4 DEF SeesFirst
  <2>5. \A a : Hit(rules, call, a, n + 1) <=> Hit(rules, call, a, n) \/ rule.action = a
    BY <1>1, <1>4
  <2>6. SeesFirst(next, rules, call, n + 1)
    BY <2>2, <2>3, <2>4, <2>5 DEF SeesFirst
  <2>7. QED
    BY <2>1, <2>6 DEF rule
<1>5. QED
  BY <1>2, <1>3, <1>4

\* What the loop finds, for every list of rules: a deny that matches, wherever
\* it stands, and when there is none the asks and the allows that match.
LEMMA ScanFinds ==
    ASSUME NEW rules, NEW call, Len(rules) \in Nat
    PROVE  SeesFirst(Scan(rules, call), rules, call, Len(rules))
<1>1. PICK f : /\ f = [n \in 0 .. Len(rules) |->
                          IF n = 0 THEN NothingSeen
                          ELSE Noticed(f[n - 1], rules[n], call)]
               /\ Scan(rules, call) = f[Len(rules)]
  BY ScanSolves
<1> DEFINE S == {n \in Nat : n <= Len(rules) => SeesFirst(f[n], rules, call, n)}
<1>2. 0 \in S
  <2>1. f[0] = NothingSeen
    BY <1>1
  <2>2. \A a : ~Hit(rules, call, a, 0)
    BY DEF Hit
  <2>3. SeesFirst(NothingSeen, rules, call, 0)
    BY <2>2 DEF SeesFirst, NothingSeen, Seen
  <2>4. QED
    BY <2>1, <2>3
<1>3. ASSUME NEW n \in Nat, n \in S
      PROVE  n + 1 \in S
  <2>1. SUFFICES ASSUME n + 1 <= Len(rules)
                 PROVE  SeesFirst(f[n + 1], rules, call, n + 1)
    OBVIOUS
  <2>2. f[n + 1] = Noticed(f[n], rules[n + 1], call)
    BY <1>1, <2>1
  <2>3. SeesFirst(f[n], rules, call, n)
    BY <1>3, <2>1
  <2>4. QED
    BY <2>2, <2>3, NoticedSees
<1>4. Len(rules) \in S
  BY <1>2, <1>3, Steps
<1>5. QED
  BY <1>1, <1>4

\* Two policies that differ only in their rules decide alike when a deny, and
\* an ask, matches in both or in neither, and an allow too unless one of the
\* others decides.
LEMMA SameHitsSameVerdict ==
    ASSUME NEW p, NEW q, NEW call,
           Len(p.rules) \in Nat, Len(q.rules) \in Nat,
           p.fallback = q.fallback, p.grants = q.grants,
           p.privateAllowed = q.privateAllowed,
           \A a \in {"deny", "ask"} :
              Hit(p.rules, call, a, Len(p.rules)) <=> Hit(q.rules, call, a, Len(q.rules)),
           \/ Hit(p.rules, call, "deny", Len(p.rules))
           \/ Hit(p.rules, call, "ask", Len(p.rules))
           \/ Hit(p.rules, call, "allow", Len(p.rules))
                 <=> Hit(q.rules, call, "allow", Len(q.rules))
    PROVE  Evaluate(p, call) = Evaluate(q, call)
<1>1. /\ RefusedDestination(p, call) <=> RefusedDestination(q, call)
      /\ Granted(p, call) <=> Granted(q, call)
  BY DEF RefusedDestination, Granted
<1>2. /\ SeesFirst(Scan(p.rules, call), p.rules, call, Len(p.rules))
      /\ SeesFirst(Scan(q.rules, call), q.rules, call, Len(q.rules))
  BY ScanFinds
<1>3. Scan(p.rules, call).denied <=> Scan(q.rules, call).denied
  BY <1>2 DEF SeesFirst
<1>4. CASE Scan(p.rules, call).denied
  BY <1>3, <1>4 DEF Evaluate
<1>5. CASE ~Scan(p.rules, call).denied
  <2>1. Scan(p.rules, call).asks <=> Scan(q.rules, call).asks
    BY <1>2, <1>3, <1>5 DEF SeesFirst
  <2>2. \/ Scan(p.rules, call).asks
        \/ Scan(p.rules, call).allowed <=> Scan(q.rules, call).allowed
    BY <1>2, <1>3, <1>5 DEF SeesFirst
  <2>3. QED
    BY <1>1, <1>3, <1>5, <2>1, <2>2 DEF Evaluate
<1>6. QED
  BY <1>4, <1>5

-----------------------------------------------------------------------------
(***************************************************************************)
(* Precedence.                                                             *)
(***************************************************************************)

\* The policy of a session has the shape of the one it was given.
PolicyShape ==
    /\ policy = [rules |-> policy.rules, fallback |-> policy.fallback,
                 grants |-> policy.grants, privateAllowed |-> policy.privateAllowed]
    /\ Len(policy.rules) \in Nat
    /\ DOMAIN policy.rules = 1 .. Len(policy.rules)

LEMMA ShapeHolds == AnswerInv => PolicyShape
BY PoliciesAssumption DEF AnswerInv, PolicyShape

LEMMA SomeRuleIsAHit ==
    ASSUME PolicyShape, NEW call, NEW a
    PROVE  SomeRule(a, call) <=> Hit(policy.rules, call, a, Len(policy.rules))
BY DEF PolicyShape, SomeRule, Hit

LEMMA ShapeWithRules ==
    ASSUME PolicyShape, NEW rules
    PROVE  /\ WithRules(rules).rules = rules
           /\ WithRules(rules).fallback = policy.fallback
           /\ WithRules(rules).grants = policy.grants
           /\ WithRules(rules).privateAllowed = policy.privateAllowed
BY DEF PolicyShape, WithRules

\* The opposite order has the same hits.
LEMMA ReversedHits ==
    ASSUME NEW rules, Len(rules) \in Nat, DOMAIN rules = 1 .. Len(rules)
    PROVE  /\ Len(Reversed(rules)) = Len(rules)
           /\ \A call, a : Hit(Reversed(rules), call, a, Len(rules))
                              <=> Hit(rules, call, a, Len(rules))
<1> DEFINE L == Len(rules)
<1>1. Reversed(rules) = [i \in 1 .. L |-> rules[L + 1 - i]]
  BY DEF Reversed
<1>2. Len(Reversed(rules)) = L
  BY <1>1
<1>3. \A i \in 1 .. L : L + 1 - i \in 1 .. L /\ Reversed(rules)[i] = rules[L + 1 - i]
  BY <1>1
<1>4. \A i \in 1 .. L : rules[i] = Reversed(rules)[L + 1 - i]
  BY <1>1
<1> HIDE DEF L
<1>5. ASSUME NEW call, NEW a
      PROVE  Hit(Reversed(rules), call, a, L) <=> Hit(rules, call, a, L)
  BY <1>3, <1>4 DEF Hit
<1>6. QED
  BY <1>2, <1>5 DEF L

\* Removing a rule takes away its own hits and no other's.
LEMMA WithoutHits ==
    ASSUME NEW rules, Len(rules) \in Nat, NEW i \in 1 .. Len(rules), NEW call, NEW a,
           ~(rules[i].action = a /\ Matches(rules[i], call))
    PROVE  Hit(Without(rules, i), call, a, Len(rules) - 1)
              <=> Hit(rules, call, a, Len(rules))
<1> DEFINE L == Len(rules)
<1>1. \A j \in 1 .. (L - 1) :
         Without(rules, i)[j] = IF j < i THEN rules[j] ELSE rules[j + 1]
  BY DEF Without
<1>2. ASSUME NEW j \in 1 .. L, rules[j].action = a, Matches(rules[j], call)
      PROVE  Hit(Without(rules, i), call, a, L - 1)
  <2>1. j # i
    BY <1>2
  <2>2. CASE j < i
    <3>1. j \in 1 .. (L - 1) /\ Without(rules, i)[j] = rules[j]
      BY <1>1, <2>2
    <3>2. QED
      BY <1>2, <3>1 DEF Hit
  <2>3. CASE j > i
    <3>1. j - 1 \in 1 .. (L - 1) /\ Without(rules, i)[j - 1] = rules[j]
      BY <1>1, <2>3
    <3>2. QED
      BY <1>2, <3>1 DEF Hit
  <2>4. QED
    BY <2>1, <2>2, <2>3
<1>3. ASSUME NEW j \in 1 .. (L - 1), Without(rules, i)[j].action = a,
             Matches(Without(rules, i)[j], call)
      PROVE  Hit(rules, call, a, L)
  <2>1. CASE j < i
    BY <1>1, <1>3, <2>1 DEF Hit
  <2>2. CASE ~(j < i)
    <3>1. j + 1 \in 1 .. L /\ Without(rules, i)[j] = rules[j + 1]
      BY <1>1, <2>2
    <3>2. QED
      BY <1>3, <3>1 DEF Hit
  <2>3. QED
    BY <2>1, <2>2
<1>4. QED
  BY <1>2, <1>3 DEF Hit

LEMMA WithoutLength ==
    ASSUME NEW rules, Len(rules) \in Nat, NEW i \in 1 .. Len(rules)
    PROVE  Len(Without(rules, i)) = Len(rules) - 1
BY DEF Without

\* A deny rule that matches, wherever it stands and whatever was answered, and a
\* private destination are refusals.
LEMMA RefusalsHold == PolicyShape => RefusalsStand
<1>1. SUFFICES ASSUME PolicyShape, NEW call \in Calls,
                      SomeRule("deny", call) \/ RefusedDestination(policy, call)
               PROVE  Evaluate(policy, call) = "deny"
  BY DEF RefusalsStand
<1>2. SeesFirst(Scan(policy.rules, call), policy.rules, call, Len(policy.rules))
  BY <1>1, ScanFinds DEF PolicyShape
<1>3. QED
  BY <1>1, <1>2, SomeRuleIsAHit DEF SeesFirst, Evaluate

LEMMA OrderHolds == PolicyShape => OrderDoesNotMatter
<1>1. SUFFICES ASSUME PolicyShape, NEW call \in Calls
               PROVE  Evaluate(policy, call)
                         = Evaluate(WithRules(Reversed(policy.rules)), call)
  BY DEF OrderDoesNotMatter
<1> DEFINE q == WithRules(Reversed(policy.rules))
<1>2. /\ q.rules = Reversed(policy.rules) /\ q.fallback = policy.fallback
      /\ q.grants = policy.grants /\ q.privateAllowed = policy.privateAllowed
  BY <1>1, ShapeWithRules
<1>3. /\ Len(Reversed(policy.rules)) = Len(policy.rules)
      /\ \A c, a : Hit(Reversed(policy.rules), c, a, Len(policy.rules))
                      <=> Hit(policy.rules, c, a, Len(policy.rules))
  BY <1>1, ReversedHits DEF PolicyShape
<1> HIDE DEF q
<1>4. /\ Len(policy.rules) \in Nat /\ Len(q.rules) \in Nat
      /\ \A a : Hit(policy.rules, call, a, Len(policy.rules))
                   <=> Hit(q.rules, call, a, Len(q.rules))
  BY <1>1, <1>2, <1>3 DEF PolicyShape
<1>5. Evaluate(policy, call) = Evaluate(q, call)
  BY <1>2, <1>4, SameHitsSameVerdict
<1>6. QED
  BY <1>5 DEF q

\* What removing a rule may change: nothing, unless it matches the call or is an
\* allow with an ask or a deny beside it.
LEMMA RemovalHolds ==
    ASSUME PolicyShape, NEW call \in Calls, NEW i \in DOMAIN policy.rules,
           \/ ~Matches(policy.rules[i], call)
           \/ /\ policy.rules[i].action = "allow"
              /\ SomeRule("ask", call) \/ SomeRule("deny", call)
    PROVE  Evaluate(policy, call) = Evaluate(WithRules(Without(policy.rules, i)), call)
<1> DEFINE q == WithRules(Without(policy.rules, i))
<1>1. /\ q.rules = Without(policy.rules, i) /\ q.fallback = policy.fallback
      /\ q.grants = policy.grants /\ q.privateAllowed = policy.privateAllowed
  BY ShapeWithRules
<1>2. Len(policy.rules) \in Nat /\ i \in 1 .. Len(policy.rules)
  BY DEF PolicyShape
<1>3. Len(Without(policy.rules, i)) = Len(policy.rules) - 1
  BY <1>2, WithoutLength
<1> HIDE DEF q
<1>4. Len(q.rules) = Len(policy.rules) - 1 /\ Len(q.rules) \in Nat
  BY <1>1, <1>2, <1>3
<1>5. ASSUME NEW a, ~(policy.rules[i].action = a /\ Matches(policy.rules[i], call))
      PROVE  Hit(policy.rules, call, a, Len(policy.rules))
                <=> Hit(q.rules, call, a, Len(q.rules))
  BY <1>1, <1>2, <1>4, <1>5, WithoutHits
<1>6. \A a \in {"deny", "ask"} :
         Hit(policy.rules, call, a, Len(policy.rules))
            <=> Hit(q.rules, call, a, Len(q.rules))
  BY <1>5
<1>7. \/ Hit(policy.rules, call, "deny", Len(policy.rules))
      \/ Hit(policy.rules, call, "ask", Len(policy.rules))
      \/ Hit(policy.rules, call, "allow", Len(policy.rules))
            <=> Hit(q.rules, call, "allow", Len(q.rules))
  BY <1>5, SomeRuleIsAHit
<1>8. Evaluate(policy, call) = Evaluate(q, call)
  BY <1>1, <1>2, <1>4, <1>6, <1>7, SameHitsSameVerdict
<1>9. QED
  BY <1>8 DEF q

LEMMA NarrowRulesHold == PolicyShape => NarrowRulesNeedTheirArgument
<1>1. SUFFICES ASSUME PolicyShape, NEW call \in Calls, NEW i \in DOMAIN policy.rules,
                      policy.rules[i].when # NoMatch,
                      policy.rules[i].when.key \notin DOMAIN call.args
               PROVE  Evaluate(policy, call)
                         = Evaluate(WithRules(Without(policy.rules, i)), call)
  BY DEF NarrowRulesNeedTheirArgument
<1>2. ~Matches(policy.rules[i], call)
  BY <1>1 DEF Matches
<1>3. QED
  BY <1>1, <1>2, RemovalHolds

LEMMA AllowHolds == PolicyShape => AllowNeverWidens
<1>1. SUFFICES ASSUME PolicyShape, NEW call \in Calls, NEW i \in DOMAIN policy.rules,
                      policy.rules[i].action = "allow",
                      SomeRule("ask", call) \/ SomeRule("deny", call)
               PROVE  Evaluate(policy, call)
                         = Evaluate(WithRules(Without(policy.rules, i)), call)
  BY DEF AllowNeverWidens
<1>2. QED
  BY <1>1, RemovalHolds

\* For every list of rules of any length: a matching deny and a private
\* destination are refused whatever was answered, the order of the rules says
\* nothing, a rule that narrows on an argument the call lacks says nothing, and an
\* allow never lifts an ask or a deny.
THEOREM RulesKeepTheirPrecedence == Spec => []Precedence
<1>1. AnswerInv => Precedence
  BY ShapeHolds, RefusalsHold, OrderHolds, NarrowRulesHold, AllowHolds DEF Precedence
<1>2. QED
  BY <1>1, InitAnswerInv, AnswerInductive, PTL DEF Spec
=============================================================================
