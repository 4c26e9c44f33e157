----------------------------- MODULE StreamProofs -----------------------------
(***************************************************************************)
(* Theorems about what a window shows, for every set of sessions, messages  *)
(* and accounts: a conversation is shown as it was, whole, in order, and     *)
(* everything said once.                                                    *)
(***************************************************************************)
EXTENDS WindowProofs, FiniteSetTheorems, SequenceTheorems

Updates == [kind : {"note", "redirected", "text", "history", "earlier"},
            of : Prompts \cup {None}, n : Nat]
Lists   == Seq(Updates)
Streams == [Sessions -> Lists]

\* Who takes updates off the stream: a prompt's command, or an opening's.
Movers == Prompts \cup Sessions

-----------------------------------------------------------------------------
(***************************************************************************)
(* Sequences.                                                               *)
(***************************************************************************)

LEMMA EmptyList == <<>> \in Lists /\ Nothing \in Streams /\ \A s \in Sessions : Nothing[s] = <<>>
<1>1. <<>> \in Lists
  BY DEF Lists
<1> QED BY <1>1 DEF Nothing, Streams

LEMMA Joined2 ==
    ASSUME NEW S, NEW a \in Seq(S), NEW b \in Seq(S)
    PROVE  /\ a \o b \in Seq(S)
           /\ Range(a \o b) = Range(a) \cup Range(b)
           /\ Len(a) \in Nat /\ Len(b) \in Nat /\ Len(a \o b) = Len(a) + Len(b)
           /\ DOMAIN a = 1 .. Len(a) /\ DOMAIN b = 1 .. Len(b) /\ DOMAIN (a \o b) = 1 .. Len(a) + Len(b)
           /\ \A i \in 1 .. Len(a) : (a \o b)[i] = a[i]
           /\ \A i \in 1 .. Len(b) : (a \o b)[Len(a) + i] = b[i]
<1>1. /\ a \o b \in Seq(S) /\ Len(a) \in Nat /\ Len(b) \in Nat /\ Len(a \o b) = Len(a) + Len(b)
      /\ DOMAIN a = 1 .. Len(a) /\ DOMAIN b = 1 .. Len(b) /\ DOMAIN (a \o b) = 1 .. Len(a) + Len(b)
      /\ \A i \in 1 .. Len(a) + Len(b) : (a \o b)[i] = IF i <= Len(a) THEN a[i] ELSE b[i - Len(a)]
  BY ConcatProperties
<1>2. \A i \in 1 .. Len(a) : (a \o b)[i] = a[i]
  BY <1>1
<1>3. \A i \in 1 .. Len(b) : (a \o b)[Len(a) + i] = b[i]
  <2> SUFFICES ASSUME NEW i \in 1 .. Len(b) PROVE (a \o b)[Len(a) + i] = b[i]
    OBVIOUS
  <2>1. Len(a) + i \in 1 .. Len(a) + Len(b) /\ ~(Len(a) + i <= Len(a)) /\ (Len(a) + i) - Len(a) = i
    BY <1>1
  <2> QED BY <1>1, <2>1
<1>4. Range(a \o b) = Range(a) \cup Range(b)
  <2>1. Range(a \o b) \subseteq Range(a) \cup Range(b)
    <3> SUFFICES ASSUME NEW i \in 1 .. Len(a) + Len(b) PROVE (a \o b)[i] \in Range(a) \cup Range(b)
      BY <1>1 DEF Range
    <3>1. CASE i <= Len(a)
      BY <1>1, <3>1 DEF Range
    <3>2. CASE ~(i <= Len(a))
      <4>1. i - Len(a) \in 1 .. Len(b) /\ (a \o b)[i] = b[i - Len(a)]
        BY <1>1, <3>2
      <4> QED BY <1>1, <4>1 DEF Range
    <3> QED BY <3>1, <3>2
  <2>2. Range(a) \subseteq Range(a \o b)
    <3> SUFFICES ASSUME NEW i \in 1 .. Len(a) PROVE a[i] \in Range(a \o b)
      BY <1>1 DEF Range
    <3>1. i \in 1 .. Len(a) + Len(b) /\ a[i] = (a \o b)[i]
      BY <1>1, <1>2
    <3> QED BY <1>1, <3>1 DEF Range
  <2>3. Range(b) \subseteq Range(a \o b)
    <3> SUFFICES ASSUME NEW i \in 1 .. Len(b) PROVE b[i] \in Range(a \o b)
      BY <1>1 DEF Range
    <3>1. Len(a) + i \in 1 .. Len(a) + Len(b) /\ b[i] = (a \o b)[Len(a) + i]
      BY <1>1, <1>3
    <3> QED BY <1>1, <3>1 DEF Range
  <2> QED BY <2>1, <2>2, <2>3
<1> QED BY <1>1, <1>2, <1>3, <1>4

LEMMA EmptyRange == Range(<<>>) = {}
BY DEF Range

LEMMA PrefixIs ==
    ASSUME NEW S, NEW a \in Seq(S), NEW b \in Seq(S)
    PROVE  IsPrefix(a, a \o b)
<1>1. /\ a \o b \in Seq(S) /\ Len(a) \in Nat /\ Len(b) \in Nat /\ Len(a \o b) = Len(a) + Len(b)
      /\ \A i \in 1 .. Len(a) : (a \o b)[i] = a[i]
  BY Joined2
<1>2. SubSeq(a, 1, Len(a)) = [i \in 1 .. Len(a) |-> a[i]]
  BY <1>1
<1>3. SubSeq(a \o b, 1, Len(a)) = [i \in 1 .. Len(a) |-> (a \o b)[i]]
  BY <1>1
<1>4. SubSeq(a, 1, Len(a)) = SubSeq(a \o b, 1, Len(a))
  BY <1>1, <1>2, <1>3
<1> QED BY <1>1, <1>4 DEF IsPrefix

\* A set whose members are all equal has at most one.
LEMMA AtMostOne ==
    ASSUME NEW S, \A x, y \in S : x = y
    PROVE  IsFiniteSet(S) /\ Cardinality(S) <= 1
<1>1. CASE S = {}
  <2>1. IsFiniteSet({}) /\ Cardinality({}) = 0
    BY FS_EmptySet
  <2> QED BY <1>1, <2>1
<1>2. CASE S # {}
  <2>1. PICK x \in S : TRUE
    BY <1>2
  <2>2. S = {x}
    BY <2>1
  <2>3. IsFiniteSet({x}) /\ Cardinality({x}) = 1
    BY FS_Singleton
  <2> QED BY <2>2, <2>3
<1> QED BY <1>1, <1>2

-----------------------------------------------------------------------------
(***************************************************************************)
(* A flow: places that each hold a list, and what is poured from one to the  *)
(* other is nowhere twice that was not before.                              *)
(***************************************************************************)

Once(F, u) ==
    \A k \in DOMAIN F : \A l \in DOMAIN F : \A i \in DOMAIN F[k] : \A j \in DOMAIN F[l] :
        F[k][i] = u /\ F[l][j] = u => k = l /\ i = j
Present(F, u) == \E k \in DOMAIN F : u \in Range(F[k])

Poured(F, G, a, b) ==
    /\ DOMAIN F = DOMAIN G /\ a \in DOMAIN F /\ b \in DOMAIN F /\ a # b
    /\ G[b] = F[b] \o F[a] /\ G[a] = <<>>
    /\ \A k \in DOMAIN F : k \notin {a, b} => G[k] = F[k]
Spilt(F, G) ==
    DOMAIN F = DOMAIN G /\ \A k \in DOMAIN F : G[k] = F[k] \/ G[k] = <<>>
Added(F, G, b, list) ==
    /\ DOMAIN F = DOMAIN G /\ b \in DOMAIN F /\ G[b] = F[b] \o list
    /\ \A k \in DOMAIN F : k # b => G[k] = F[k]
Typed(F, S) == \A k \in DOMAIN F : F[k] \in Seq(S)

LEMMA PouredOnce ==
    ASSUME NEW S, NEW F, NEW G, NEW a, NEW b, NEW u, Typed(F, S), Poured(F, G, a, b), Once(F, u)
    PROVE  Once(G, u) /\ (Present(G, u) => Present(F, u)) /\ Typed(G, S)
<1>0. /\ DOMAIN F = DOMAIN G /\ a \in DOMAIN F /\ b \in DOMAIN F /\ a # b
      /\ G[b] = F[b] \o F[a] /\ G[a] = <<>>
      /\ \A k \in DOMAIN F : k \notin {a, b} => G[k] = F[k]
      /\ F[a] \in Seq(S) /\ F[b] \in Seq(S)
  BY DEF Poured, Typed
<1>1. PICK n \in Nat, m \in Nat : n = Len(F[b]) /\ m = Len(F[a])
  BY <1>0
<1>2. /\ DOMAIN F[b] = 1 .. n /\ DOMAIN F[a] = 1 .. m
      /\ DOMAIN G[b] = 1 .. n + m
      /\ \A i \in 1 .. n : G[b][i] = F[b][i]
      /\ \A i \in 1 .. m : G[b][n + i] = F[a][i]
      /\ Range(G[b]) = Range(F[b]) \cup Range(F[a]) /\ G[b] \in Seq(S)
  BY <1>0, <1>1, Joined2
<1>3. \A i \in 1 .. n + m : (i <= n \/ i - n \in 1 .. m) /\ (i <= n => i \in 1 .. n)
  OBVIOUS
<1> DEFINE Old(k, i) == IF k = b /\ ~(i <= n) THEN a ELSE k
           Nth(k, i) == IF k = b /\ ~(i <= n) THEN i - n ELSE i
<1>4. ASSUME NEW k \in DOMAIN G, NEW i \in DOMAIN G[k]
      PROVE  Old(k, i) \in DOMAIN F /\ Nth(k, i) \in DOMAIN F[Old(k, i)]
             /\ G[k][i] = F[Old(k, i)][Nth(k, i)] /\ k # a
  <2>1. k # a
    BY <1>0
  <2>2. CASE k = b /\ i <= n
    <3>1. i \in 1 .. n
      BY <1>2, <1>3, <2>2
    <3> QED BY <1>0, <1>2, <2>1, <2>2, <3>1
  <2>3. CASE k = b /\ ~(i <= n)
    <3>1. i \in 1 .. n + m
      BY <1>2, <2>3
    <3>2. ~(i <= n)
      BY <2>3
    <3>3. i - n \in 1 .. m /\ n + (i - n) = i
      BY <3>1, <3>2
    <3>4. G[b][n + (i - n)] = F[a][i - n]
      BY <1>2, <3>3
    <3> QED BY <1>0, <1>2, <2>1, <2>3, <3>3, <3>4
  <2>4. CASE k # b
    BY <1>0, <2>1, <2>4
  <2> QED BY <2>1, <2>2, <2>3, <2>4
<1>5. Once(G, u)
  <2> SUFFICES ASSUME NEW k \in DOMAIN G, NEW l \in DOMAIN G, NEW i \in DOMAIN G[k], NEW j \in DOMAIN G[l],
                      G[k][i] = u, G[l][j] = u
               PROVE  k = l /\ i = j
    BY DEF Once
  <2>1. Old(k, i) = Old(l, j) /\ Nth(k, i) = Nth(l, j)
    BY <1>4 DEF Once
  <2>2. k # a /\ l # a
    BY <1>4
  <2>3. k = b => i \in Nat
    BY <1>2
  <2>4. l = b => j \in Nat
    BY <1>2
  <2>5. CASE k = b /\ ~(i <= n)
    <3>1. l = b /\ ~(j <= n)
      BY <2>1, <2>2, <2>5
    <3>2. i - n = j - n
      BY <2>1, <2>5, <3>1
    <3> QED BY <1>1, <2>3, <2>4, <2>5, <3>1, <3>2
  <2>6. CASE ~(k = b /\ ~(i <= n))
    <3>1. ~(l = b /\ ~(j <= n))
      BY <2>1, <2>2, <2>6
    <3> QED BY <2>1, <2>6, <3>1
  <2> QED BY <2>5, <2>6
<1>6. Present(G, u) => Present(F, u)
  <2> SUFFICES ASSUME NEW k \in DOMAIN G, u \in Range(G[k]) PROVE \E l \in DOMAIN F : u \in Range(F[l])
    BY DEF Present
  <2>1. PICK i \in DOMAIN G[k] : G[k][i] = u
    BY DEF Range
  <2>2. F[Old(k, i)][Nth(k, i)] = u /\ Old(k, i) \in DOMAIN F /\ Nth(k, i) \in DOMAIN F[Old(k, i)]
    BY <1>4, <2>1
  <2>3. u \in Range(F[Old(k, i)])
    BY <2>2 DEF Range
  <2> QED BY <2>2, <2>3
<1>7. Typed(G, S)
  <2>1. <<>> \in Seq(S)
    OBVIOUS
  <2> QED BY <1>0, <1>2, <2>1 DEF Typed
<1> QED BY <1>5, <1>6, <1>7

LEMMA SpiltOnce ==
    ASSUME NEW S, NEW F, NEW G, NEW u, Typed(F, S), Spilt(F, G), Once(F, u)
    PROVE  Once(G, u) /\ (Present(G, u) => Present(F, u))
<1>1. \A k \in DOMAIN G : \A i \in DOMAIN G[k] : k \in DOMAIN F /\ i \in DOMAIN F[k] /\ G[k][i] = F[k][i]
  BY DEF Spilt
<1>2. Once(G, u)
  BY <1>1 DEF Once
<1>3. Present(G, u) => Present(F, u)
  BY <1>1 DEF Present, Range
<1> QED BY <1>2, <1>3

\* What was not there before may be added, once.
LEMMA AddedOnce ==
    ASSUME NEW S, NEW F, NEW G, NEW b, NEW list \in Seq(S), NEW u, Typed(F, S), Added(F, G, b, list),
           Once(F, u),
           \/ u \notin Range(list)
           \/ ~Present(F, u) /\ \A i, j \in DOMAIN list : list[i] = u /\ list[j] = u => i = j
    PROVE  Once(G, u) /\ (Present(G, u) => Present(F, u) \/ u \in Range(list)) /\ Typed(G, S)
<1>0. /\ DOMAIN F = DOMAIN G /\ b \in DOMAIN F /\ G[b] = F[b] \o list
      /\ \A k \in DOMAIN F : k # b => G[k] = F[k]
      /\ F[b] \in Seq(S)
  BY DEF Added, Typed
<1>1. PICK n \in Nat : n = Len(F[b])
  BY <1>0
<1>2. /\ DOMAIN F[b] = 1 .. n /\ DOMAIN list = 1 .. Len(list) /\ Len(list) \in Nat
      /\ DOMAIN G[b] = 1 .. n + Len(list)
      /\ \A i \in 1 .. n : G[b][i] = F[b][i]
      /\ \A i \in 1 .. Len(list) : G[b][n + i] = list[i]
      /\ Range(G[b]) = Range(F[b]) \cup Range(list) /\ G[b] \in Seq(S)
  BY <1>0, <1>1, Joined2
\* An update is where it was, or in what was added.
<1> DEFINE New(k, i) == k = b /\ ~(i <= n)
<1>3. ASSUME NEW k \in DOMAIN G, NEW i \in DOMAIN G[k], ~New(k, i)
      PROVE  k \in DOMAIN F /\ i \in DOMAIN F[k] /\ G[k][i] = F[k][i]
  <2>1. CASE k = b
    <3>1. i \in 1 .. n
      BY <1>1, <1>2, <1>3, <2>1
    <3> QED BY <1>0, <1>2, <2>1, <3>1
  <2>2. CASE k # b
    BY <1>0, <2>2
  <2> QED BY <2>1, <2>2
<1>4. ASSUME NEW k \in DOMAIN G, NEW i \in DOMAIN G[k], New(k, i)
      PROVE  k = b /\ i - n \in DOMAIN list /\ G[k][i] = list[i - n] /\ i \in Nat
  <2>1. k = b /\ i \in 1 .. n + Len(list) /\ ~(i <= n)
    BY <1>2, <1>4
  <2>2. i - n \in 1 .. Len(list) /\ n + (i - n) = i
    BY <1>1, <1>2, <2>1
  <2>3. G[b][n + (i - n)] = list[i - n]
    BY <1>2, <2>2
  <2> QED BY <1>2, <2>1, <2>2, <2>3
<1>5. Once(G, u)
  <2> SUFFICES ASSUME NEW k \in DOMAIN G, NEW l \in DOMAIN G, NEW i \in DOMAIN G[k], NEW j \in DOMAIN G[l],
                      G[k][i] = u, G[l][j] = u
               PROVE  k = l /\ i = j
    BY DEF Once
  <2>1. CASE ~New(k, i) /\ ~New(l, j)
    <3>1. /\ k \in DOMAIN F /\ i \in DOMAIN F[k] /\ F[k][i] = u
          /\ l \in DOMAIN F /\ j \in DOMAIN F[l] /\ F[l][j] = u
      BY <1>3, <2>1
    <3> QED BY <3>1 DEF Once
  <2>2. CASE New(k, i) /\ New(l, j)
    <3>1. /\ k = b /\ i - n \in DOMAIN list /\ list[i - n] = u /\ i \in Nat
          /\ l = b /\ j - n \in DOMAIN list /\ list[j - n] = u /\ j \in Nat
      BY <1>4, <2>2
    <3>2. u \in Range(list)
      BY <3>1 DEF Range
    <3>3. i - n = j - n
      BY <3>1, <3>2
    <3> QED BY <1>1, <3>1, <3>3
  <2>3. CASE New(k, i) /\ ~New(l, j)
    <3>1. u \in Range(list)
      <4>1. i - n \in DOMAIN list /\ list[i - n] = u
        BY <1>4, <2>3
      <4> QED BY <4>1 DEF Range
    <3>2. l \in DOMAIN F /\ j \in DOMAIN F[l] /\ F[l][j] = u
      BY <1>3, <2>3
    <3> QED BY <3>1, <3>2 DEF Present, Range
  <2>4. CASE ~New(k, i) /\ New(l, j)
    <3>1. u \in Range(list)
      <4>1. j - n \in DOMAIN list /\ list[j - n] = u
        BY <1>4, <2>4
      <4> QED BY <4>1 DEF Range
    <3>2. k \in DOMAIN F /\ i \in DOMAIN F[k] /\ F[k][i] = u
      BY <1>3, <2>4
    <3> QED BY <3>1, <3>2 DEF Present, Range
  <2> QED BY <2>1, <2>2, <2>3, <2>4
<1>6. Present(G, u) => Present(F, u) \/ u \in Range(list)
  <2> SUFFICES ASSUME NEW k \in DOMAIN G, u \in Range(G[k]), u \notin Range(list)
               PROVE  \E l \in DOMAIN F : u \in Range(F[l])
    BY DEF Present
  <2>1. CASE k = b
    BY <1>0, <1>2, <2>1
  <2>2. CASE k # b
    BY <1>0, <2>2
  <2> QED BY <2>1, <2>2
<1>7. Typed(G, S)
  BY <1>0, <1>2 DEF Typed
<1> QED BY <1>5, <1>6, <1>7

-----------------------------------------------------------------------------
(***************************************************************************)
(* The inductive invariant: where the updates of a session are.              *)
(***************************************************************************)

StreamTypes ==
    /\ updates \in Streams /\ inbox \in Streams /\ shown \in Streams /\ sent \in Streams
    /\ \A x \in Movers : Hand(x) \in Streams /\ \A s \in Sessions : Taken(x, s) \in Lists
    /\ raced \subseteq Sessions

\* A command holds what it took between two steps of it, and no longer.
HandsFit ==
    /\ \A p \in Prompts :
        /\ loop[p].pc \notin {"keep", "last keep"} => loop[p].held = Nothing
        /\ loop[p].pc \notin {"show", "last show"} => loop[p].taken = <<>>
    /\ \A s \in Sessions : opener[s].pc # "keep" => opener[s].held = Nothing

\* What was sent is what was shown, what the one who holds some holds, what the inbox keeps, and
\* what is on the stream; a window that was disconnected never gets the rest.
Cat(a, b) == a \o b
Whole(a, t, b, c, r) == Cat(a, Cat(t, Cat(b, Cat(c, r))))
InOrder(s, x) ==
    /\ Holders(s) \subseteq {x}
    /\ \E rest \in Lists :
          /\ sent[s] = Whole(shown[s], Taken(x, s), inbox[s], Hand(x)[s], rest)
          /\ engine => rest = updates[s]
OrderInv == \A s \in Sessions \ raced : \E x \in Movers : InOrder(s, x)

Pipeline == StreamTypes /\ HandsFit /\ OrderInv

\* As far as a command that drained everything can still get it on screen.
Reaches(e, s, x) == \/ e \in Range(shown[s]) \/ e \in Range(inbox[s]) \/ e \in Range(Hand(x)[s])
                    \/ \E y \in Movers : e \in Range(Taken(y, s))

\* What a command that comes back with how its turn ended must have shown.
Closed(p) == loop[p].result \notin {None, "error", "unheard"}
Due(p)    == {e \in Range(sent[Job[p].session]) : (e.kind = "text" /\ e.of = p) \/ e = Redirected(p)}

DueIsShown(p) ==
    LET s == Job[p].session IN
    s \notin raced /\ Closed(p) =>
        /\ loop[p].pc = "last keep" => \A e \in Due(p) : Reaches(e, s, p)
        /\ loop[p].pc = "last show" => Due(p) \subseteq Range(shown[s]) \cup Range(Taken(p, s))
        /\ loop[p].pc \in {"withdraw", "done"} => Due(p) \subseteq Range(shown[s])
ClosedWhen(p) ==
    Closed(p) => /\ loop[p].pc \in {"last", "last keep", "last show", "withdraw", "done"}
                 /\ loop[p].result = reply[p]
PromptsShown == \A p \in Prompts : DueIsShown(p) /\ ClosedWhen(p)

\* The history of a conversation.
Past == Range(Replay(mix.history, mix.replayLimit))
HistoryShown(s) ==
    /\ loaded[s] = "ok" \/ opener[s].pc \in {"drain", "keep", "open"} => Past \subseteq Range(sent[s])
    /\ s \notin raced => /\ opener[s].pc = "keep" => \A e \in Past : Reaches(e, s, s)
                         /\ opener[s].pc = "open" => Past \subseteq Range(shown[s])
HistoriesShown == \A s \in Sessions : HistoryShown(s)

(***************************************************************************)
(* Where they come from.                                                    *)
(***************************************************************************)

SaidOf(s) == IF session[s] = None THEN <<>> ELSE session[s].said
Echoes(s) == [i \in DOMAIN SaidOf(s) |-> Redirected(SaidOf(s)[i])]
EventsOf(x, s) == IF x \in Prompts /\ Job[x].session = s THEN events[x] ELSE <<>>

\* What a turn says is its own words and who joined it; it says nothing once it ended. A notice
\* is of a message of the session.
Own(q, e) == \/ e.kind = "text" /\ e.of = q
             \/ \E r \in Prompts : e = Redirected(r) /\ Job[r].session = Job[q].session
Noted(s, e) == \E r \in Prompts : (e = Note(r) \/ e = Redirected(r)) /\ Job[r].session = s
TurnsSay ==
    /\ events \in [Prompts -> Lists]
    /\ \A q \in Prompts :
        /\ ~Running(q) => events[q] = <<>>
        /\ \A e \in Range(events[q]) : Own(q, e)
        /\ turn[q].with # None =>
              turn[q].pc \in {"joined", "told", "ended"} /\ Job[turn[q].with].session = Job[q].session
    /\ \A s \in Sessions :
        /\ \A r \in Range(SaidOf(s)) : Job[r].session = s
        /\ \A e \in Range(sent[s]) : \/ e.kind = "text"
                                     \/ e.kind \in {"earlier", "history"} /\ e \in Past
                                     \/ Noted(s, e)

\* A message that joined a turn is waiting to be read, announced, or was announced - unless it is
\* told that it was not heard.
Announced(p) ==
    LET s == Job[p].session IN
    turn[p].with # None =>
        /\ turn[p].pc = "joined" => \/ p \in Range(SaidOf(s))
                                    \/ Redirected(p) \in Range(events[turn[p].with])
                                    \/ Redirected(p) \in Range(sent[s])
        /\ turn[p].pc = "told" /\ turn[p].why # "unheard" => Redirected(p) \in Range(sent[s])
        /\ turn[p].pc = "ended" => reply[p] = "unheard" \/ Redirected(p) \in Range(sent[s])
JoinersAnnounced == \A p \in Prompts : Announced(p)

\* A notice is of a prompt that started a turn, and once.
NotedOnce(p) ==
    LET s == Job[p].session IN
    /\ Note(p) \in Range(sent[s]) => turn[p].pc # "idle" /\ turn[p].with = None
    /\ \A i \in DOMAIN sent[s] : \A j \in DOMAIN sent[s] :
          sent[s][i] = Note(p) /\ sent[s][j] = Note(p) => i = j
NotesOnce == \A p \in Prompts : NotedOnce(p)

Origin == TurnsSay /\ JoinersAnnounced /\ NotesOnce

\* From what was said in a session to what is shown of it, and to what was sent.
Spots(s) == ({"events", "hand", "taken"} \X Movers) \cup ({"said", "updates", "inbox", "shown"} \X {s})
Flow(s) ==
    [k \in Spots(s) |->
        CASE k[1] = "said"    -> Echoes(s)
          [] k[1] = "events"  -> EventsOf(k[2], s)
          [] k[1] = "updates" -> updates[s]
          [] k[1] = "hand"    -> Hand(k[2])[s]
          [] k[1] = "inbox"   -> inbox[s]
          [] k[1] = "taken"   -> Taken(k[2], s)
          [] k[1] = "shown"   -> shown[s]]
Scenes(s) == ({"events"} \X Movers) \cup ({"said", "sent"} \X {s})
Tale(s) ==
    [k \in Scenes(s) |->
        CASE k[1] = "said"   -> Echoes(s)
          [] k[1] = "events" -> EventsOf(k[2], s)
          [] k[1] = "sent"   -> sent[s]]

AnnouncedOnce(p) ==
    LET s == Job[p].session IN
    /\ Once(Flow(s), Redirected(p)) /\ Once(Tale(s), Redirected(p))
    /\ Present(Flow(s), Redirected(p)) \/ Present(Tale(s), Redirected(p)) => turn[p].with # None
FlowInv == \A p \in Prompts : AnnouncedOnce(p)

\* A message the page echoed when nothing of its conversation was under way finds no turn there.
FindsNoTurn(p) ==
    LET s == Job[p].session IN
    loop[p].echo = "first" =>
        /\ loop[p].pc # "idle" /\ turn[p].with = None
        /\ \A i \in DOMAIN toAgent : toAgent[i].kind = "prompt" /\ toAgent[i].prompt = p =>
              /\ session[s] # None => session[s].turn = None
              /\ \A j \in DOMAIN toAgent : j < i /\ toAgent[j].kind = "prompt" => Job[toAgent[j].prompt].session # s
FirstsStart == \A p \in Prompts : FindsNoTurn(p)

SInv == Pipeline /\ PromptsShown /\ HistoriesShown /\ Origin /\ FlowInv /\ FirstsStart

-----------------------------------------------------------------------------
(***************************************************************************)
(* Lists that are put together, taken apart and put together again.          *)
(***************************************************************************)

LEMMA Put ==
    ASSUME NEW a \in Lists, NEW b \in Lists
    PROVE  Cat(a, b) \in Lists /\ Range(Cat(a, b)) = Range(a) \cup Range(b)
BY Joined2 DEF Lists, Cat

LEMMA PutNone ==
    ASSUME NEW a \in Lists
    PROVE  Cat(<<>>, a) = a /\ Cat(a, <<>>) = a
<1>1. a \in Seq(Updates)
  BY DEF Lists
<1> QED BY <1>1, ConcatEmptySeq DEF Cat

LEMMA Regroup ==
    ASSUME NEW a \in Lists, NEW b \in Lists, NEW c \in Lists
    PROVE  Cat(Cat(a, b), c) = Cat(a, Cat(b, c))
<1>1. a \in Seq(Updates) /\ b \in Seq(Updates) /\ c \in Seq(Updates)
  BY DEF Lists
<1> QED BY <1>1, ConcatAssociative DEF Cat

LEMMA WholeList ==
    ASSUME NEW a \in Lists, NEW t \in Lists, NEW b \in Lists, NEW c \in Lists, NEW r \in Lists
    PROVE  /\ Whole(a, t, b, c, r) \in Lists
           /\ Range(Whole(a, t, b, c, r)) = Range(a) \cup Range(t) \cup Range(b) \cup Range(c) \cup Range(r)
<1>1. Cat(c, r) \in Lists /\ Range(Cat(c, r)) = Range(c) \cup Range(r)
  BY Put
<1>2. PICK x \in Lists : x = Cat(c, r)
  BY <1>1
<1>3. PICK y \in Lists : y = Cat(b, x) /\ Range(y) = Range(b) \cup Range(x)
  BY Put
<1>4. PICK z \in Lists : z = Cat(t, y) /\ Range(z) = Range(t) \cup Range(y)
  BY Put
<1>5. Cat(a, z) \in Lists /\ Range(Cat(a, z)) = Range(a) \cup Range(z)
  BY Put
<1>6. Whole(a, t, b, c, r) = Cat(a, z)
  BY <1>2, <1>3, <1>4 DEF Whole
<1> QED BY <1>1, <1>2, <1>3, <1>4, <1>5, <1>6

\* Off the stream into a hand; out of the hand into the inbox, and what is the session's own out of
\* it; onto the screen.
LEMMA WholeMoves ==
    ASSUME NEW a \in Lists, NEW t \in Lists, NEW b \in Lists, NEW c \in Lists, NEW r \in Lists
    PROVE  /\ Whole(a, <<>>, b, <<>>, r) = Whole(a, <<>>, b, r, <<>>)
           /\ Whole(a, <<>>, b, c, r) = Whole(a, Cat(b, c), <<>>, <<>>, r)
           /\ Whole(a, <<>>, b, c, r) = Whole(a, <<>>, Cat(b, c), <<>>, r)
           /\ Whole(a, <<>>, b, c, r) = Whole(Cat(a, Cat(b, c)), <<>>, <<>>, <<>>, r)
           /\ Whole(a, t, b, c, r) = Whole(Cat(a, t), <<>>, b, c, r)
<1>0. \A x, y \in Lists : Cat(x, y) \in Lists
  BY Put
<1>1. \A x \in Lists : Cat(<<>>, x) = x /\ Cat(x, <<>>) = x
  BY PutNone
<1>2. \A x, y, z \in Lists : Cat(Cat(x, y), z) = Cat(x, Cat(y, z))
  BY Regroup
<1>3. PICK y \in Lists, z \in Lists : y = Cat(b, c) /\ z = Cat(b, Cat(c, r))
  BY <1>0
<1>4. Cat(y, r) = z
  BY <1>2, <1>3
<1>5. Whole(a, <<>>, b, c, r) = Cat(a, z)
  BY <1>1, <1>3 DEF Whole
<1>6. Whole(a, <<>>, b, <<>>, r) = Whole(a, <<>>, b, r, <<>>)
  BY <1>1 DEF Whole
<1>7. Whole(a, y, <<>>, <<>>, r) = Cat(a, z)
  BY <1>1, <1>4 DEF Whole
<1>8. Whole(a, <<>>, y, <<>>, r) = Cat(a, z)
  BY <1>1, <1>3, <1>4 DEF Whole
<1>9. Whole(Cat(a, y), <<>>, <<>>, <<>>, r) = Cat(a, z)
  <2>1. Cat(Cat(a, y), r) = Cat(a, z)
    BY <1>2, <1>4
  <2> QED BY <1>1, <2>1 DEF Whole
<1>10. Whole(a, t, b, c, r) = Whole(Cat(a, t), <<>>, b, c, r)
  <2>1. Cat(<<>>, z) = z /\ Cat(Cat(a, t), z) = Cat(a, Cat(t, z))
    BY <1>1, <1>2
  <2> QED BY <1>3, <2>1 DEF Whole
<1> QED BY <1>3, <1>5, <1>6, <1>7, <1>8, <1>9, <1>10

LEMMA WholeGrows ==
    ASSUME NEW a \in Lists, NEW t \in Lists, NEW b \in Lists, NEW c \in Lists, NEW r \in Lists,
           NEW list \in Lists
    PROVE  Cat(Whole(a, t, b, c, r), list) = Whole(a, t, b, c, Cat(r, list))
<1>1. \A x, y, z \in Lists : Cat(Cat(x, y), z) = Cat(x, Cat(y, z))
  BY Regroup
<1>2. PICK x \in Lists : x = Cat(c, r)
  BY Put
<1>3. PICK y \in Lists : y = Cat(b, x)
  BY Put
<1>4. PICK z \in Lists : z = Cat(t, y)
  BY Put
<1>5. /\ Cat(Cat(a, z), list) = Cat(a, Cat(z, list)) /\ Cat(z, list) = Cat(t, Cat(y, list))
      /\ Cat(y, list) = Cat(b, Cat(x, list)) /\ Cat(x, list) = Cat(c, Cat(r, list))
  BY <1>1, <1>2, <1>3, <1>4
<1> QED BY <1>2, <1>3, <1>4, <1>5 DEF Whole

-----------------------------------------------------------------------------
(***************************************************************************)
(* What a step does to the updates that are under way.                       *)
(***************************************************************************)

SameHand(x) == Hand(x)' = Hand(x) /\ \A s \in Sessions : Taken(x, s)' = Taken(x, s)
EmptyHanded(x) == \A s \in Sessions : Taken(x, s) = <<>>

Still == /\ UNCHANGED <<updates, inbox, shown, sent, raced, engine>>
         /\ \A x \in Movers : SameHand(x)

Sends(s, list) == /\ Send(s, list) /\ UNCHANGED <<inbox, shown, raced, engine>>
                  /\ \A x \in Movers : SameHand(x)

\* collect, its first lock: everything there is comes off the stream.
Draws(x, own) ==
    /\ engine /\ UNCHANGED <<inbox, shown, sent, engine>>
    /\ Hand(x) = Nothing /\ EmptyHanded(x)
    /\ Hand(x)' = updates /\ \A s \in Sessions : Taken(x, s)' = <<>>
    /\ updates' = Nothing /\ Race(x, own, updates)
    /\ \A y \in Movers : y # x => SameHand(y)

\* collect, its second: what is another's is kept, and what is one's own is taken, or shown.
Stows(x, own) ==
    /\ UNCHANGED <<updates, sent, engine>>
    /\ EmptyHanded(x)
    /\ inbox' = [Absorb(Hand(x)) EXCEPT ![own] = <<>>]
    /\ Hand(x)' = Nothing /\ Race(x, own, Hand(x))
    /\ \A y \in Movers : y # x => SameHand(y)
Takes(x, own) ==
    /\ UNCHANGED shown
    /\ \A s \in Sessions : Taken(x, s)' = IF s = own THEN Absorb(Hand(x))[s] ELSE <<>>
ShowsAtOnce(x, own) ==
    /\ shown' = [shown EXCEPT ![own] = @ \o Absorb(Hand(x))[own]]
    /\ \A s \in Sessions : Taken(x, s)' = <<>>

Puts(x, own) ==
    /\ UNCHANGED <<updates, inbox, sent, raced, engine>>
    /\ \A s \in Sessions : s # own => Taken(x, s) = <<>>
    /\ shown' = [shown EXCEPT ![own] = @ \o Taken(x, own)]
    /\ Hand(x)' = Hand(x) /\ \A s \in Sessions : Taken(x, s)' = <<>>
    /\ \A y \in Movers : y # x => SameHand(y)

Forgets ==
    /\ UNCHANGED <<shown, sent>> /\ engine' = FALSE
    /\ updates' = Nothing /\ inbox' = Nothing
    /\ raced' = raced \cup {s \in Sessions : inbox[s] # <<>>}
    /\ \A x \in Movers : SameHand(x)

\* A list of a session.
LEMMA ListOf ==
    ASSUME StreamTypes, NEW s \in Sessions
    PROVE  /\ updates[s] \in Lists /\ inbox[s] \in Lists /\ shown[s] \in Lists /\ sent[s] \in Lists
           /\ \A x \in Movers : Hand(x)[s] \in Lists /\ Taken(x, s) \in Lists
BY DEF StreamTypes, Streams

LEMMA StillFlows ==
    ASSUME StreamTypes, OrderInv, Still
    PROVE  StreamTypes' /\ OrderInv'
<1>1. \A x \in Movers : Hand(x)' = Hand(x) /\ \A s \in Sessions : Taken(x, s)' = Taken(x, s)
  BY DEF Still, SameHand
<1>2. UNCHANGED <<updates, inbox, shown, sent, raced, engine>>
  BY DEF Still
<1>3. StreamTypes'
  BY <1>1, <1>2 DEF StreamTypes
<1>4. ASSUME NEW s \in Sessions \ raced', NEW x \in Movers, InOrder(s, x)
      PROVE  InOrder(s, x)'
  <2>1. Holders(s)' = Holders(s)
    BY <1>1 DEF Holders, Movers
  <2> QED BY <1>1, <1>2, <1>4, <2>1 DEF InOrder
<1>5. OrderInv'
  BY <1>2, <1>4 DEF OrderInv
<1> QED BY <1>3, <1>5

LEMMA SendIs ==
    ASSUME StreamTypes, NEW s \in Sessions, NEW list \in Lists, Send(s, list)
    PROVE  /\ updates' \in Streams /\ sent' \in Streams
           /\ updates'[s] = Cat(updates[s], list) /\ sent'[s] = Cat(sent[s], list)
           /\ \A z \in Sessions : z # s => updates'[z] = updates[z] /\ sent'[z] = sent[z]
<1>1. updates \in Streams /\ sent \in Streams /\ updates[s] \in Lists /\ sent[s] \in Lists
  BY ListOf DEF StreamTypes
<1>2. Cat(updates[s], list) \in Lists /\ Cat(sent[s], list) \in Lists
  BY <1>1, Put
<1>3. /\ updates' = [updates EXCEPT ![s] = Cat(updates[s], list)]
      /\ sent' = [sent EXCEPT ![s] = Cat(sent[s], list)]
  BY DEF Send, Cat
<1> QED BY <1>1, <1>2, <1>3 DEF Streams

LEMMA SendFlows ==
    ASSUME StreamTypes, OrderInv, NEW s \in Sessions, NEW list \in Lists, Sends(s, list)
    PROVE  StreamTypes' /\ OrderInv'
<1>1. \A x \in Movers : Hand(x)' = Hand(x) /\ \A z \in Sessions : Taken(x, z)' = Taken(x, z)
  BY DEF Sends, SameHand
<1>2. UNCHANGED <<inbox, shown, raced, engine>> /\ Send(s, list)
  BY DEF Sends
<1>3. /\ updates' \in Streams /\ sent' \in Streams
      /\ updates'[s] = Cat(updates[s], list) /\ sent'[s] = Cat(sent[s], list)
      /\ \A z \in Sessions : z # s => updates'[z] = updates[z] /\ sent'[z] = sent[z]
  BY <1>2, SendIs
<1>4. StreamTypes'
  BY <1>1, <1>2, <1>3 DEF StreamTypes
<1>5. ASSUME NEW z \in Sessions \ raced', NEW x \in Movers, InOrder(z, x)
      PROVE  InOrder(z, x)'
  <2>1. Holders(z)' = Holders(z)
    BY <1>1 DEF Holders, Movers
  <2>2. PICK rest \in Lists : /\ sent[z] = Whole(shown[z], Taken(x, z), inbox[z], Hand(x)[z], rest)
                              /\ engine => rest = updates[z]
    BY <1>5 DEF InOrder
  <2>3. CASE z = s
    <3>1. Cat(rest, list) \in Lists
      BY Put
    <3>2. /\ shown[z] \in Lists /\ Taken(x, z) \in Lists /\ inbox[z] \in Lists /\ Hand(x)[z] \in Lists
      BY ListOf
    <3>3. sent'[z] = Whole(shown[z], Taken(x, z), inbox[z], Hand(x)[z], Cat(rest, list))
      <4>1. \A a, t, b, c, r \in Lists : Cat(Whole(a, t, b, c, r), list) = Whole(a, t, b, c, Cat(r, list))
        BY WholeGrows
      <4>2. sent'[z] = Cat(Whole(shown[z], Taken(x, z), inbox[z], Hand(x)[z], rest), list)
        BY <1>3, <2>2, <2>3
      <4> QED BY <3>2, <4>1, <4>2
    <3>4. engine' => Cat(rest, list) = updates'[z]
      BY <1>2, <1>3, <2>2, <2>3
    <3> QED BY <1>1, <1>2, <1>5, <2>1, <3>1, <3>3, <3>4 DEF InOrder
  <2>4. CASE z # s
    <3>1. sent'[z] = Whole(shown'[z], Taken(x, z)', inbox'[z], Hand(x)'[z], rest)
      BY <1>1, <1>2, <1>3, <2>2, <2>4
    <3>2. engine' => rest = updates'[z]
      BY <1>2, <1>3, <2>2, <2>4
    <3> QED BY <1>5, <2>1, <3>1, <3>2 DEF InOrder
  <2> QED BY <2>3, <2>4
<1>6. OrderInv'
  BY <1>2, <1>5 DEF OrderInv
<1> QED BY <1>4, <1>6

\* Nobody holds updates of a session but perhaps one.
LEMMA NoOther ==
    ASSUME StreamTypes, NEW s \in Sessions, NEW x \in Movers, NEW y \in Movers,
           InOrder(s, y), Holders(s) \ {x} = {}
    PROVE  InOrder(s, x) /\ \A z \in Movers : z # x => Hand(z)[s] = <<>> /\ Taken(z, s) = <<>>
<1>1. \A z \in Movers : z # x => Hand(z)[s] = <<>> /\ Taken(z, s) = <<>>
  BY DEF Holders, Movers
<1>2. CASE y = x
  BY <1>1, <1>2
<1>3. CASE y # x
  <2>1. Hand(x)[s] = <<>> /\ Taken(x, s) = <<>> /\ Hand(y)[s] = <<>> /\ Taken(y, s) = <<>>
    BY <1>1, <1>3 DEF InOrder, Holders, Movers
  <2>2. Holders(s) \subseteq {x}
    OBVIOUS
  <2> QED BY <1>1, <2>1, <2>2 DEF InOrder
<1> QED BY <1>2, <1>3

\* A session of which nothing moved.
Unmoved(s) == /\ updates'[s] = updates[s] /\ inbox'[s] = inbox[s] /\ shown'[s] = shown[s] /\ sent'[s] = sent[s]
              /\ \A x \in Movers : Hand(x)'[s] = Hand(x)[s] /\ Taken(x, s)' = Taken(x, s)

LEMMA UnmovedFlows ==
    ASSUME NEW s \in Sessions, NEW x \in Movers, InOrder(s, x), Unmoved(s), engine' => engine
    PROVE  InOrder(s, x)'
<1>1. Holders(s)' = Holders(s)
  BY DEF Unmoved, Holders, Movers
<1> QED BY <1>1 DEF Unmoved, InOrder

LEMMA RaceTyped ==
    ASSUME StreamTypes, NEW x, NEW own, NEW list, Race(x, own, list)
    PROVE  /\ raced' \subseteq Sessions /\ raced \subseteq raced'
           /\ \A s \in Sessions \ raced' : s = own \/ list[s] # <<>> => Holders(s) \ {x} = {}
BY DEF Race, StreamTypes

LEMMA DrawFlows ==
    ASSUME StreamTypes, OrderInv, NEW x \in Movers, NEW own \in Sessions, Draws(x, own)
    PROVE  StreamTypes' /\ OrderInv'
<1>1. /\ engine /\ UNCHANGED <<inbox, shown, sent, engine>>
      /\ Hand(x) = Nothing /\ \A s \in Sessions : Taken(x, s) = <<>>
      /\ Hand(x)' = updates /\ \A s \in Sessions : Taken(x, s)' = <<>>
      /\ updates' = Nothing
      /\ \A y \in Movers : y # x => Hand(y)' = Hand(y) /\ \A s \in Sessions : Taken(y, s)' = Taken(y, s)
  BY DEF Draws, EmptyHanded, SameHand
<1>2. /\ raced' \subseteq Sessions /\ raced \subseteq raced'
      /\ \A s \in Sessions \ raced' : s = own \/ updates[s] # <<>> => Holders(s) \ {x} = {}
  BY RaceTyped DEF Draws
<1>3. StreamTypes'
  BY <1>1, <1>2, EmptyList DEF StreamTypes
<1>4. ASSUME NEW s \in Sessions \ raced', NEW y \in Movers, InOrder(s, y)
      PROVE  \E z \in Movers : InOrder(s, z)'
  <2>1. CASE s # own /\ updates[s] = <<>>
    <3>1. Unmoved(s)
      BY <1>1, <2>1, EmptyList DEF Unmoved
    <3> QED BY <1>1, <1>4, <3>1, UnmovedFlows
  <2>2. CASE s = own \/ updates[s] # <<>>
    <3>1. Holders(s) \ {x} = {}
      BY <1>2, <2>2
    <3>2. InOrder(s, x) /\ \A z \in Movers : z # x => Hand(z)[s] = <<>> /\ Taken(z, s) = <<>>
      BY <1>4, <3>1, NoOther
    <3>3. PICK rest \in Lists : /\ sent[s] = Whole(shown[s], Taken(x, s), inbox[s], Hand(x)[s], rest)
                                /\ rest = updates[s]
      BY <1>1, <3>2 DEF InOrder
    <3>4. Taken(x, s) = <<>> /\ Hand(x)[s] = <<>>
      BY <1>1, EmptyList
    <3>5. shown[s] \in Lists /\ inbox[s] \in Lists
      BY ListOf
    <3>6. \A a, b, r \in Lists : Whole(a, <<>>, b, <<>>, r) = Whole(a, <<>>, b, r, <<>>)
      BY WholeMoves
    <3>7. sent[s] = Whole(shown[s], <<>>, inbox[s], updates[s], <<>>)
      BY <3>3, <3>4, <3>5, <3>6
    <3>8. Holders(s)' \subseteq {x}
      BY <1>1, <3>2 DEF Holders, Movers
    <3>9. /\ sent'[s] = Whole(shown'[s], Taken(x, s)', inbox'[s], Hand(x)'[s], <<>>)
          /\ <<>> = updates'[s] /\ <<>> \in Lists
      BY <1>1, <3>7, EmptyList
    <3>10. InOrder(s, x)'
      BY <3>8, <3>9 DEF InOrder
    <3> QED BY <3>10
  <2> QED BY <2>1, <2>2
<1>5. OrderInv'
  BY <1>2, <1>4 DEF OrderInv
<1> QED BY <1>3, <1>5

LEMMA ForgetFlows ==
    ASSUME StreamTypes, OrderInv, Forgets
    PROVE  StreamTypes' /\ OrderInv'
<1>1. /\ UNCHANGED <<shown, sent>> /\ engine' = FALSE
      /\ updates' = Nothing /\ inbox' = Nothing
      /\ raced' = raced \cup {s \in Sessions : inbox[s] # <<>>}
      /\ \A x \in Movers : Hand(x)' = Hand(x) /\ \A s \in Sessions : Taken(x, s)' = Taken(x, s)
  BY DEF Forgets, SameHand
<1>2. StreamTypes'
  BY <1>1, EmptyList DEF StreamTypes
<1>3. ASSUME NEW s \in Sessions \ raced', NEW x \in Movers, InOrder(s, x)
      PROVE  InOrder(s, x)'
  <2>1. Holders(s)' = Holders(s)
    BY <1>1 DEF Holders, Movers
  <2>2. inbox'[s] = inbox[s]
    BY <1>1, EmptyList
  <2> QED BY <1>1, <1>3, <2>1, <2>2 DEF InOrder
<1>4. OrderInv'
  BY <1>1, <1>3 DEF OrderInv
<1> QED BY <1>2, <1>4

LEMMA PutFlows ==
    ASSUME StreamTypes, OrderInv, NEW x \in Movers, NEW own \in Sessions, Puts(x, own)
    PROVE  /\ StreamTypes' /\ OrderInv'
           /\ shown'[own] = Cat(shown[own], Taken(x, own))
           /\ \A s \in Sessions : s # own => shown'[s] = shown[s]
<1>1. /\ UNCHANGED <<updates, inbox, sent, raced, engine>>
      /\ \A s \in Sessions : s # own => Taken(x, s) = <<>>
      /\ shown' = [shown EXCEPT ![own] = Cat(shown[own], Taken(x, own))]
      /\ Hand(x)' = Hand(x) /\ \A s \in Sessions : Taken(x, s)' = <<>>
      /\ \A y \in Movers : y # x => Hand(y)' = Hand(y) /\ \A s \in Sessions : Taken(y, s)' = Taken(y, s)
  BY DEF Puts, SameHand, Cat
<1>2. /\ shown'[own] = Cat(shown[own], Taken(x, own))
      /\ \A s \in Sessions : s # own => shown'[s] = shown[s]
      /\ shown' \in Streams
  <2>1. shown \in Streams /\ shown[own] \in Lists /\ Taken(x, own) \in Lists
    BY ListOf DEF StreamTypes
  <2>2. Cat(shown[own], Taken(x, own)) \in Lists
    BY <2>1, Put
  <2> QED BY <1>1, <2>1, <2>2 DEF Streams
<1>3. StreamTypes'
  BY <1>1, <1>2, EmptyList DEF StreamTypes
<1>4. ASSUME NEW s \in Sessions \ raced', NEW y \in Movers, InOrder(s, y)
      PROVE  InOrder(s, y)'
  <2>1. CASE s # own
    <3>1. Unmoved(s)
      BY <1>1, <1>2, <2>1 DEF Unmoved
    <3> QED BY <1>1, <1>4, <3>1, UnmovedFlows
  <2>2. CASE s = own /\ y # x
    <3>1. Taken(x, s) = <<>> /\ shown[s] \in Lists
      BY <1>4, <2>2, ListOf DEF InOrder, Holders, Movers
    <3>2. shown'[s] = shown[s]
      BY <1>2, <2>2, <3>1, PutNone
    <3>3. Unmoved(s)
      BY <1>1, <3>1, <3>2 DEF Unmoved
    <3> QED BY <1>1, <1>4, <3>3, UnmovedFlows
  <2>3. CASE s = own /\ y = x
    <3>1. PICK rest \in Lists : /\ sent[s] = Whole(shown[s], Taken(x, s), inbox[s], Hand(x)[s], rest)
                                /\ engine => rest = updates[s]
      BY <1>4, <2>3 DEF InOrder
    <3>2. /\ shown[s] \in Lists /\ Taken(x, s) \in Lists /\ inbox[s] \in Lists /\ Hand(x)[s] \in Lists
      BY ListOf
    <3>3. \A a, t, b, c, r \in Lists : Whole(a, t, b, c, r) = Whole(Cat(a, t), <<>>, b, c, r)
      BY WholeMoves
    <3>4. sent[s] = Whole(Cat(shown[s], Taken(x, s)), <<>>, inbox[s], Hand(x)[s], rest)
      BY <3>1, <3>2, <3>3
    <3>5. Holders(s)' \subseteq {x}
      BY <1>1, <1>4, <2>3 DEF InOrder, Holders, Movers
    <3>6. /\ sent'[s] = Whole(shown'[s], Taken(x, s)', inbox'[s], Hand(x)'[s], rest)
          /\ engine' => rest = updates'[s]
      BY <1>1, <1>2, <2>3, <3>1, <3>4
    <3> QED BY <2>3, <3>5, <3>6 DEF InOrder
  <2> QED BY <2>1, <2>2, <2>3
<1>5. OrderInv'
  BY <1>1, <1>4 DEF OrderInv
<1> QED BY <1>2, <1>3, <1>5

LEMMA AbsorbIs ==
    ASSUME StreamTypes, NEW x \in Movers, NEW s \in Sessions
    PROVE  /\ Absorb(Hand(x))[s] = Cat(inbox[s], Hand(x)[s]) /\ Absorb(Hand(x))[s] \in Lists
           /\ Range(Absorb(Hand(x))[s]) = Range(inbox[s]) \cup Range(Hand(x)[s])
<1>1. inbox[s] \in Lists /\ Hand(x)[s] \in Lists
  BY ListOf
<1>2. Absorb(Hand(x))[s] = Cat(inbox[s], Hand(x)[s])
  BY DEF Absorb, Cat
<1> QED BY <1>1, <1>2, Put

LEMMA StowIs ==
    ASSUME StreamTypes, NEW x \in Movers, NEW own \in Sessions, Stows(x, own)
    PROVE  /\ UNCHANGED <<updates, sent, engine>> /\ \A s \in Sessions : Taken(x, s) = <<>>
           /\ inbox' \in Streams /\ inbox'[own] = <<>>
           /\ \A s \in Sessions : s # own => inbox'[s] = Cat(inbox[s], Hand(x)[s])
           /\ Hand(x)' = Nothing
           /\ \A y \in Movers : y # x => Hand(y)' = Hand(y) /\ \A s \in Sessions : Taken(y, s)' = Taken(y, s)
           /\ raced' \subseteq Sessions /\ raced \subseteq raced'
           /\ \A s \in Sessions \ raced' : s = own \/ Hand(x)[s] # <<>> => Holders(s) \ {x} = {}
<1>1. \A s \in Sessions : Absorb(Hand(x))[s] = Cat(inbox[s], Hand(x)[s]) /\ Absorb(Hand(x))[s] \in Lists
  BY AbsorbIs
<1>2. DOMAIN Absorb(Hand(x)) = Sessions
  BY DEF Absorb
<1>3. Absorb(Hand(x)) \in Streams
  <2>1. Absorb(Hand(x)) = [s \in Sessions |-> Absorb(Hand(x))[s]]
    BY DEF Absorb
  <2> QED BY <1>1, <2>1 DEF Streams
<1>4. inbox' = [Absorb(Hand(x)) EXCEPT ![own] = <<>>]
  BY DEF Stows
<1>5. /\ inbox' \in Streams /\ inbox'[own] = <<>>
      /\ \A s \in Sessions : s # own => inbox'[s] = Absorb(Hand(x))[s]
  <2> HIDE DEF Absorb
  <2>1. PICK a \in Streams : a = Absorb(Hand(x))
    BY <1>3
  <2>2. inbox' = [a EXCEPT ![own] = <<>>]
    BY <1>4, <2>1
  <2>3. /\ inbox' \in Streams /\ inbox'[own] = <<>>
        /\ \A s \in Sessions : s # own => inbox'[s] = a[s]
    BY <2>2, EmptyList DEF Streams
  <2> QED BY <2>1, <2>3
<1>6. /\ raced' \subseteq Sessions /\ raced \subseteq raced'
      /\ \A s \in Sessions \ raced' : s = own \/ Hand(x)[s] # <<>> => Holders(s) \ {x} = {}
  BY RaceTyped DEF Stows
<1> QED BY <1>1, <1>5, <1>6 DEF Stows, EmptyHanded, SameHand

LEMMA KeepFlows ==
    ASSUME StreamTypes, OrderInv, NEW x \in Movers, NEW own \in Sessions, Stows(x, own), Takes(x, own)
    PROVE  StreamTypes' /\ OrderInv'
<1>1. /\ UNCHANGED <<updates, sent, engine>> /\ \A s \in Sessions : Taken(x, s) = <<>>
      /\ inbox' \in Streams /\ inbox'[own] = <<>>
      /\ \A s \in Sessions : s # own => inbox'[s] = Cat(inbox[s], Hand(x)[s])
      /\ Hand(x)' = Nothing
      /\ \A y \in Movers : y # x => Hand(y)' = Hand(y) /\ \A s \in Sessions : Taken(y, s)' = Taken(y, s)
      /\ raced' \subseteq Sessions /\ raced \subseteq raced'
      /\ \A s \in Sessions \ raced' : s = own \/ Hand(x)[s] # <<>> => Holders(s) \ {x} = {}
  BY StowIs
<1>2. /\ UNCHANGED shown
      /\ \A s \in Sessions : s # own => Taken(x, s)' = <<>>
      /\ Taken(x, own)' = Cat(inbox[own], Hand(x)[own]) /\ Taken(x, own)' \in Lists
  BY AbsorbIs DEF Takes
<1>3. StreamTypes'
  <2>1. \A y \in Movers : Hand(y)' \in Streams /\ \A s \in Sessions : Taken(y, s)' \in Lists
    BY <1>1, <1>2, EmptyList DEF StreamTypes
  <2> QED BY <1>1, <1>2, <2>1 DEF StreamTypes
<1>4. ASSUME NEW s \in Sessions \ raced', NEW y \in Movers, InOrder(s, y)
      PROVE  \E z \in Movers : InOrder(s, z)'
  <2>0. shown[s] \in Lists /\ inbox[s] \in Lists /\ Hand(x)[s] \in Lists
    BY ListOf
  <2>1. CASE s # own /\ Hand(x)[s] = <<>>
    <3>1. inbox'[s] = inbox[s]
      BY <1>1, <2>0, <2>1, PutNone
    <3>2. Hand(x)'[s] = Hand(x)[s] /\ Taken(x, s)' = Taken(x, s)
      BY <1>1, <1>2, <2>1, EmptyList
    <3>3. Unmoved(s)
      BY <1>1, <1>2, <3>1, <3>2 DEF Unmoved
    <3> QED BY <1>1, <1>4, <3>3, UnmovedFlows
  <2>2. CASE s = own \/ Hand(x)[s] # <<>>
    <3>1. Holders(s) \ {x} = {}
      BY <1>1, <2>2
    <3>2. InOrder(s, x) /\ \A z \in Movers : z # x => Hand(z)[s] = <<>> /\ Taken(z, s) = <<>>
      BY <1>4, <3>1, NoOther
    <3>3. PICK rest \in Lists : /\ sent[s] = Whole(shown[s], Taken(x, s), inbox[s], Hand(x)[s], rest)
                                /\ engine => rest = updates[s]
      BY <3>2 DEF InOrder
    <3>4. \A a, b, c, r \in Lists : /\ Whole(a, <<>>, b, c, r) = Whole(a, Cat(b, c), <<>>, <<>>, r)
                                    /\ Whole(a, <<>>, b, c, r) = Whole(a, <<>>, Cat(b, c), <<>>, r)
      BY WholeMoves
    <3>5. Taken(x, s) = <<>> /\ Hand(x)'[s] = <<>>
      BY <1>1, EmptyList
    <3>6. /\ sent[s] = Whole(shown[s], Cat(inbox[s], Hand(x)[s]), <<>>, <<>>, rest)
          /\ sent[s] = Whole(shown[s], <<>>, Cat(inbox[s], Hand(x)[s]), <<>>, rest)
      BY <2>0, <3>3, <3>4, <3>5
    <3>7. sent'[s] = Whole(shown'[s], Taken(x, s)', inbox'[s], Hand(x)'[s], rest)
      <4>1. CASE s = own
        BY <1>1, <1>2, <3>5, <3>6, <4>1
      <4>2. CASE s # own
        BY <1>1, <1>2, <3>5, <3>6, <4>2
      <4> QED BY <4>1, <4>2
    <3>8. Holders(s)' \subseteq {x}
      BY <1>1, <3>2 DEF Holders, Movers
    <3>9. engine' => rest = updates'[s]
      BY <1>1, <3>3
    <3>10. InOrder(s, x)'
      BY <3>7, <3>8, <3>9 DEF InOrder
    <3> QED BY <3>10
  <2> QED BY <2>1, <2>2
<1>5. OrderInv'
  BY <1>1, <1>4 DEF OrderInv
<1> QED BY <1>3, <1>5

LEMMA KeepHistoryFlows ==
    ASSUME StreamTypes, OrderInv, NEW x \in Movers, NEW own \in Sessions, Stows(x, own), ShowsAtOnce(x, own)
    PROVE  /\ StreamTypes' /\ OrderInv'
           /\ shown'[own] = Cat(shown[own], Cat(inbox[own], Hand(x)[own]))
           /\ \A s \in Sessions : s # own => shown'[s] = shown[s]
<1>1. /\ UNCHANGED <<updates, sent, engine>> /\ \A s \in Sessions : Taken(x, s) = <<>>
      /\ inbox' \in Streams /\ inbox'[own] = <<>>
      /\ \A s \in Sessions : s # own => inbox'[s] = Cat(inbox[s], Hand(x)[s])
      /\ Hand(x)' = Nothing
      /\ \A y \in Movers : y # x => Hand(y)' = Hand(y) /\ \A s \in Sessions : Taken(y, s)' = Taken(y, s)
      /\ raced' \subseteq Sessions /\ raced \subseteq raced'
      /\ \A s \in Sessions \ raced' : s = own \/ Hand(x)[s] # <<>> => Holders(s) \ {x} = {}
  BY StowIs
<1>2. /\ shown'[own] = Cat(shown[own], Cat(inbox[own], Hand(x)[own])) /\ shown' \in Streams
      /\ \A s \in Sessions : s # own => shown'[s] = shown[s]
  <2>1. shown \in Streams /\ shown[own] \in Lists
    BY ListOf DEF StreamTypes
  <2>2. PICK l \in Lists : l = Absorb(Hand(x))[own] /\ l = Cat(inbox[own], Hand(x)[own])
    BY AbsorbIs
  <2>3. shown' = [shown EXCEPT ![own] = Cat(shown[own], l)] /\ Cat(shown[own], l) \in Lists
    BY <2>1, <2>2, Put DEF ShowsAtOnce, Cat
  <2> QED BY <2>1, <2>2, <2>3 DEF Streams
<1>3. \A s \in Sessions : Taken(x, s)' = <<>>
  BY DEF ShowsAtOnce
<1>4. StreamTypes'
  <2>1. \A y \in Movers : Hand(y)' \in Streams /\ \A s \in Sessions : Taken(y, s)' \in Lists
    BY <1>1, <1>3, EmptyList DEF StreamTypes
  <2> QED BY <1>1, <1>2, <2>1 DEF StreamTypes
<1>5. ASSUME NEW s \in Sessions \ raced', NEW y \in Movers, InOrder(s, y)
      PROVE  \E z \in Movers : InOrder(s, z)'
  <2>0. shown[s] \in Lists /\ inbox[s] \in Lists /\ Hand(x)[s] \in Lists
    BY ListOf
  <2>1. CASE s # own /\ Hand(x)[s] = <<>>
    <3>1. inbox'[s] = inbox[s]
      BY <1>1, <2>0, <2>1, PutNone
    <3>2. Hand(x)'[s] = Hand(x)[s] /\ Taken(x, s)' = Taken(x, s)
      BY <1>1, <1>3, <2>1, EmptyList
    <3>3. Unmoved(s)
      BY <1>1, <1>2, <2>1, <3>1, <3>2 DEF Unmoved
    <3> QED BY <1>1, <1>5, <3>3, UnmovedFlows
  <2>2. CASE s = own \/ Hand(x)[s] # <<>>
    <3>1. Holders(s) \ {x} = {}
      BY <1>1, <2>2
    <3>2. InOrder(s, x) /\ \A z \in Movers : z # x => Hand(z)[s] = <<>> /\ Taken(z, s) = <<>>
      BY <1>5, <3>1, NoOther
    <3>3. PICK rest \in Lists : /\ sent[s] = Whole(shown[s], Taken(x, s), inbox[s], Hand(x)[s], rest)
                                /\ engine => rest = updates[s]
      BY <3>2 DEF InOrder
    <3>4. \A a, b, c, r \in Lists : /\ Whole(a, <<>>, b, c, r) = Whole(Cat(a, Cat(b, c)), <<>>, <<>>, <<>>, r)
                                    /\ Whole(a, <<>>, b, c, r) = Whole(a, <<>>, Cat(b, c), <<>>, r)
      BY WholeMoves
    <3>5. Taken(x, s) = <<>> /\ Hand(x)'[s] = <<>>
      BY <1>1, EmptyList
    <3>6. /\ sent[s] = Whole(Cat(shown[s], Cat(inbox[s], Hand(x)[s])), <<>>, <<>>, <<>>, rest)
          /\ sent[s] = Whole(shown[s], <<>>, Cat(inbox[s], Hand(x)[s]), <<>>, rest)
      BY <2>0, <3>3, <3>4, <3>5
    <3>7. sent'[s] = Whole(shown'[s], Taken(x, s)', inbox'[s], Hand(x)'[s], rest)
      <4>1. CASE s = own
        BY <1>1, <1>2, <1>3, <3>5, <3>6, <4>1
      <4>2. CASE s # own
        BY <1>1, <1>2, <1>3, <3>5, <3>6, <4>2
      <4> QED BY <4>1, <4>2
    <3>8. Holders(s)' \subseteq {x}
      BY <1>1, <1>3, <3>2 DEF Holders, Movers
    <3>9. engine' => rest = updates'[s]
      BY <1>1, <3>3
    <3>10. InOrder(s, x)'
      BY <3>7, <3>8, <3>9 DEF InOrder
    <3> QED BY <3>10
  <2> QED BY <2>1, <2>2
<1>6. OrderInv'
  BY <1>1, <1>5 DEF OrderInv
<1> QED BY <1>2, <1>4, <1>6

-----------------------------------------------------------------------------
(***************************************************************************)
(* What a step does to the places an announcement can be.                    *)
(***************************************************************************)

FlowIs(s) ==
    /\ DOMAIN Flow(s) = Spots(s)
    /\ Flow(s)[<<"said", s>>] = Echoes(s) /\ Flow(s)[<<"updates", s>>] = updates[s]
    /\ Flow(s)[<<"inbox", s>>] = inbox[s] /\ Flow(s)[<<"shown", s>>] = shown[s]
    /\ \A x \in Movers : /\ Flow(s)[<<"events", x>>] = EventsOf(x, s)
                         /\ Flow(s)[<<"hand", x>>] = Hand(x)[s]
                         /\ Flow(s)[<<"taken", x>>] = Taken(x, s)
TaleIs(s) ==
    /\ DOMAIN Tale(s) = Scenes(s)
    /\ Tale(s)[<<"said", s>>] = Echoes(s) /\ Tale(s)[<<"sent", s>>] = sent[s]
    /\ \A x \in Movers : Tale(s)[<<"events", x>>] = EventsOf(x, s)
FlowsAre == \A s \in Sessions : FlowIs(s) /\ TaleIs(s)

LEMMA SpotsAre ==
    ASSUME NEW s \in Sessions
    PROVE  /\ \A k \in Spots(s) : \/ k \in {<<"said", s>>, <<"updates", s>>, <<"inbox", s>>, <<"shown", s>>}
                                  \/ \E x \in Movers : k \in {<<"events", x>>, <<"hand", x>>, <<"taken", x>>}
           /\ {<<"said", s>>, <<"updates", s>>, <<"inbox", s>>, <<"shown", s>>} \subseteq Spots(s)
           /\ \A x \in Movers : {<<"events", x>>, <<"hand", x>>, <<"taken", x>>} \subseteq Spots(s)
           /\ \A k \in Scenes(s) : k \in {<<"said", s>>, <<"sent", s>>} \/ \E x \in Movers : k = <<"events", x>>
           /\ {<<"said", s>>, <<"sent", s>>} \subseteq Scenes(s)
           /\ \A x \in Movers : <<"events", x>> \in Scenes(s)
BY DEF Spots, Scenes

LEMMA SpotIs ==
    ASSUME NEW s \in Sessions, NEW k \in Spots(s)
    PROVE  \/ k = <<"said", s>> \/ k = <<"updates", s>> \/ k = <<"inbox", s>> \/ k = <<"shown", s>>
           \/ \E x \in Movers : k = <<"events", x>> \/ k = <<"hand", x>> \/ k = <<"taken", x>>
BY DEF Spots

LEMMA SceneIs ==
    ASSUME NEW s \in Sessions, NEW k \in Scenes(s)
    PROVE  k = <<"said", s>> \/ k = <<"sent", s>> \/ \E x \in Movers : k = <<"events", x>>
BY DEF Scenes

LEMMA Flows == FlowsAre
<1> SUFFICES ASSUME NEW s \in Sessions PROVE FlowIs(s) /\ TaleIs(s)
  BY DEF FlowsAre
<1>1. DOMAIN Flow(s) = Spots(s) /\ DOMAIN Tale(s) = Scenes(s)
  BY DEF Flow, Tale
<1>2. /\ Flow(s)[<<"said", s>>] = Echoes(s) /\ Flow(s)[<<"updates", s>>] = updates[s]
      /\ Flow(s)[<<"inbox", s>>] = inbox[s] /\ Flow(s)[<<"shown", s>>] = shown[s]
  <2>1. Flow(s)[<<"said", s>>] = Echoes(s)
    BY SpotsAre DEF Flow
  <2>2. Flow(s)[<<"updates", s>>] = updates[s]
    BY SpotsAre DEF Flow
  <2>3. Flow(s)[<<"inbox", s>>] = inbox[s]
    BY SpotsAre DEF Flow
  <2>4. Flow(s)[<<"shown", s>>] = shown[s]
    BY SpotsAre DEF Flow
  <2> QED BY <2>1, <2>2, <2>3, <2>4
<1>3. ASSUME NEW x \in Movers
      PROVE  /\ Flow(s)[<<"events", x>>] = EventsOf(x, s)
             /\ Flow(s)[<<"hand", x>>] = Hand(x)[s]
             /\ Flow(s)[<<"taken", x>>] = Taken(x, s)
             /\ Tale(s)[<<"events", x>>] = EventsOf(x, s)
  <2>1. Flow(s)[<<"events", x>>] = EventsOf(x, s)
    BY SpotsAre DEF Flow
  <2>2. Flow(s)[<<"hand", x>>] = Hand(x)[s]
    BY SpotsAre DEF Flow
  <2>3. Flow(s)[<<"taken", x>>] = Taken(x, s)
    BY SpotsAre DEF Flow
  <2>4. Tale(s)[<<"events", x>>] = EventsOf(x, s)
    BY SpotsAre DEF Tale
  <2> QED BY <2>1, <2>2, <2>3, <2>4
<1>4. Tale(s)[<<"said", s>>] = Echoes(s) /\ Tale(s)[<<"sent", s>>] = sent[s]
  BY SpotsAre DEF Tale
<1> QED BY <1>1, <1>2, <1>3, <1>4 DEF FlowIs, TaleIs

LEMMA FlowsNext == FlowsAre'
BY Flows, PTL

FlowEqs(s) ==
    /\ DOMAIN Flow(s) = Spots(s) /\ DOMAIN Flow(s)' = Spots(s)
    /\ DOMAIN Tale(s) = Scenes(s) /\ DOMAIN Tale(s)' = Scenes(s)
    /\ Flow(s)[<<"said", s>>] = Echoes(s) /\ Flow(s)'[<<"said", s>>] = Echoes(s)'
    /\ Flow(s)[<<"updates", s>>] = updates[s] /\ Flow(s)'[<<"updates", s>>] = updates'[s]
    /\ Flow(s)[<<"inbox", s>>] = inbox[s] /\ Flow(s)'[<<"inbox", s>>] = inbox'[s]
    /\ Flow(s)[<<"shown", s>>] = shown[s] /\ Flow(s)'[<<"shown", s>>] = shown'[s]
    /\ \A x \in Movers :
          /\ Flow(s)[<<"events", x>>] = EventsOf(x, s) /\ Flow(s)'[<<"events", x>>] = EventsOf(x, s)'
          /\ Flow(s)[<<"hand", x>>] = Hand(x)[s] /\ Flow(s)'[<<"hand", x>>] = Hand(x)'[s]
          /\ Flow(s)[<<"taken", x>>] = Taken(x, s) /\ Flow(s)'[<<"taken", x>>] = Taken(x, s)'
          /\ Tale(s)[<<"events", x>>] = EventsOf(x, s) /\ Tale(s)'[<<"events", x>>] = EventsOf(x, s)'
    /\ Tale(s)[<<"said", s>>] = Echoes(s) /\ Tale(s)'[<<"said", s>>] = Echoes(s)'
    /\ Tale(s)[<<"sent", s>>] = sent[s] /\ Tale(s)'[<<"sent", s>>] = sent'[s]

LEMMA FlowNow ==
    ASSUME NEW s \in Sessions
    PROVE  FlowEqs(s)
<1>1. FlowIs(s) /\ TaleIs(s)
  BY Flows DEF FlowsAre
<1>2. (FlowIs(s) /\ TaleIs(s))'
  BY FlowsNext DEF FlowsAre
<1>3. Spots(s)' = Spots(s) /\ Scenes(s)' = Scenes(s) /\ Movers' = Movers
  BY DEF Spots, Scenes, Movers
<1> QED BY <1>1, <1>2, <1>3 DEF FlowIs, TaleIs, FlowEqs

LEMMA NoticesTyped ==
    ASSUME NEW p \in Prompts
    PROVE  Redirected(p) \in Updates /\ Note(p) \in Updates /\ Note(p) # Redirected(p)
           /\ \A q \in Prompts : /\ Redirected(p) = Redirected(q) => p = q
                                 /\ Note(p) = Note(q) => p = q
                                 /\ Note(p) # Redirected(q)
BY DEF Redirected, Note, Updates

LEMMA SaidTyped ==
    ASSUME AgentTypes, NEW s \in Sessions
    PROVE  SaidOf(s) \in Seq(Prompts) /\ Echoes(s) \in Lists
<1>1. SaidOf(s) \in Seq(Prompts)
  <2>1. CASE session[s] = None
    <3>1. <<>> \in Seq(Prompts)
      OBVIOUS
    <3> QED BY <2>1, <3>1 DEF SaidOf
  <2>2. CASE session[s] # None
    <3>1. session[s] \in SessionRecords
      BY <2>2 DEF AgentTypes
    <3> QED BY <2>2, <3>1, SessionFields DEF SaidOf
  <2> QED BY <2>1, <2>2
<1>2. PICK q \in Seq(Prompts) : q = SaidOf(s)
  BY <1>1
<1> DEFINE n == Len(q)
<1>a. n \in Nat /\ q \in [1 .. n -> Prompts]
  OBVIOUS
<1> HIDE DEF n
<1>3. Echoes(s) = [i \in 1 .. n |-> Redirected(q[i])]
  BY <1>2, <1>a DEF Echoes
<1>4. Echoes(s) \in [1 .. n -> Updates]
  BY <1>3, <1>a, NoticesTyped
<1>5. Echoes(s) \in Seq(Updates)
  BY <1>a, <1>4
<1> QED BY <1>1, <1>5 DEF Lists

LEMMA FlowTyped ==
    ASSUME AgentTypes, StreamTypes, events \in [Prompts -> Lists], NEW s \in Sessions
    PROVE  Typed(Flow(s), Updates) /\ Typed(Tale(s), Updates)
<1>0. FlowEqs(s)
  BY FlowNow
<1>1. Echoes(s) \in Lists
  BY SaidTyped
<1>2. \A x \in Movers : EventsOf(x, s) \in Lists
  BY EmptyList DEF EventsOf
<1>3. /\ updates[s] \in Lists /\ inbox[s] \in Lists /\ shown[s] \in Lists /\ sent[s] \in Lists
      /\ \A x \in Movers : Hand(x)[s] \in Lists /\ Taken(x, s) \in Lists
  BY ListOf
<1>4. ASSUME NEW k \in Spots(s)
      PROVE  Flow(s)[k] \in Lists
  <2>1. CASE k = <<"said", s>> \/ k = <<"updates", s>> \/ k = <<"inbox", s>> \/ k = <<"shown", s>>
    BY <1>1, <1>3, <2>1, <1>0 DEF FlowEqs
  <2>2. CASE \E x \in Movers : k = <<"events", x>> \/ k = <<"hand", x>> \/ k = <<"taken", x>>
    BY <1>2, <1>3, <2>2, <1>0 DEF FlowEqs
  <2> QED BY <2>1, <2>2, SpotIs
<1>5. ASSUME NEW k \in Scenes(s)
      PROVE  Tale(s)[k] \in Lists
  <2>1. k = <<"said", s>> \/ k = <<"sent", s>> \/ \E x \in Movers : k = <<"events", x>>
    BY SceneIs
  <2> QED BY <1>0, <1>1, <1>2, <1>3, <2>1 DEF FlowEqs
<1> QED BY <1>4, <1>5, <1>0 DEF Typed, Lists, FlowEqs

FlowKept(s) ==
    \A p \in Prompts : Once(Flow(s), Redirected(p)) =>
        /\ Once(Flow(s)', Redirected(p))
        /\ Present(Flow(s)', Redirected(p)) => Present(Flow(s), Redirected(p))
TaleKept(s) ==
    \A p \in Prompts : Once(Tale(s), Redirected(p)) =>
        /\ Once(Tale(s)', Redirected(p))
        /\ Present(Tale(s)', Redirected(p)) => Present(Tale(s), Redirected(p))
Kept2(s) == FlowKept(s) /\ TaleKept(s)

\* What was said in a session and by its turns is where it was.
SameSource(s) == Echoes(s)' = Echoes(s) /\ \A x \in Movers : EventsOf(x, s)' = EventsOf(x, s)

LEMMA SameTale ==
    ASSUME NEW s \in Sessions, SameSource(s), sent'[s] = sent[s]
    PROVE  Tale(s)' = Tale(s)
<1>0. FlowEqs(s)
  BY FlowNow
<1>1. ASSUME NEW k \in Scenes(s)
      PROVE  Tale(s)'[k] = Tale(s)[k]
  <2>1. k = <<"said", s>> \/ k = <<"sent", s>> \/ \E x \in Movers : k = <<"events", x>>
    BY SceneIs
  <2> QED BY <1>0, <2>1 DEF SameSource, FlowEqs
<1> QED BY <1>1 DEF Tale, Scenes, Movers

LEMMA TaleSame ==
    ASSUME NEW s \in Sessions, SameSource(s), sent'[s] = sent[s]
    PROVE  TaleKept(s)
BY SameTale DEF TaleKept

LEMMA PlaceSame ==
    ASSUME NEW s \in Sessions, NEW x \in Movers
    PROVE  /\ EventsOf(x, s)' = EventsOf(x, s) => Flow(s)'[<<"events", x>>] = Flow(s)[<<"events", x>>]
           /\ Hand(x)'[s] = Hand(x)[s] => Flow(s)'[<<"hand", x>>] = Flow(s)[<<"hand", x>>]
           /\ Taken(x, s)' = Taken(x, s) => Flow(s)'[<<"taken", x>>] = Flow(s)[<<"taken", x>>]
<1>1. FlowEqs(s)
  BY FlowNow
<1> QED BY <1>1 DEF FlowEqs

LEMMA MoverSame ==
    ASSUME NEW s \in Sessions, NEW x \in Movers,
           Hand(x)'[s] = Hand(x)[s], Taken(x, s)' = Taken(x, s), EventsOf(x, s)' = EventsOf(x, s),
           NEW k, k = <<"events", x>> \/ k = <<"hand", x>> \/ k = <<"taken", x>>
    PROVE  Flow(s)'[k] = Flow(s)[k]
BY PlaceSame

LEMMA StillKept ==
    ASSUME AgentTypes, StreamTypes, events \in [Prompts -> Lists], NEW s \in Sessions, SameSource(s), Unmoved(s)
    PROVE  Kept2(s)
<1>0. FlowEqs(s)
  BY FlowNow
<1>1. \A k \in Spots(s) : Flow(s)'[k] = Flow(s)[k]
  <2> SUFFICES ASSUME NEW k \in Spots(s) PROVE Flow(s)'[k] = Flow(s)[k]
    OBVIOUS
  <2>1. CASE k = <<"said", s>> \/ k = <<"updates", s>> \/ k = <<"inbox", s>> \/ k = <<"shown", s>>
    BY <2>1, <1>0 DEF SameSource, Unmoved, FlowEqs
  <2>2. CASE \E x \in Movers : k = <<"events", x>> \/ k = <<"hand", x>> \/ k = <<"taken", x>>
    <3>1. PICK x \in Movers : k = <<"events", x>> \/ k = <<"hand", x>> \/ k = <<"taken", x>>
      BY <2>2
    <3>2. Hand(x)'[s] = Hand(x)[s] /\ Taken(x, s)' = Taken(x, s) /\ EventsOf(x, s)' = EventsOf(x, s)
      BY DEF SameSource, Unmoved
    <3> QED BY <3>1, <3>2, MoverSame
  <2> QED BY <2>1, <2>2, SpotIs
<1>2. Spilt(Flow(s), Flow(s)')
  BY <1>1, <1>0 DEF Spilt, FlowEqs
<1>3. FlowKept(s)
  BY <1>2, FlowTyped, SpiltOnce DEF FlowKept
<1>4. TaleKept(s)
  BY TaleSame DEF Unmoved
<1> QED BY <1>3, <1>4 DEF Kept2

LEMMA DrawKept ==
    ASSUME AgentTypes, StreamTypes, events \in [Prompts -> Lists], NEW s \in Sessions, SameSource(s),
           NEW x \in Movers, NEW own \in Sessions, Draws(x, own)
    PROVE  Kept2(s)
<1>0. FlowEqs(s)
  BY FlowNow
<1>1. /\ UNCHANGED <<inbox, shown, sent, engine>>
      /\ Hand(x) = Nothing /\ \A z \in Sessions : Taken(x, z) = <<>>
      /\ Hand(x)' = updates /\ \A z \in Sessions : Taken(x, z)' = <<>>
      /\ updates' = Nothing
      /\ \A y \in Movers : y # x => Hand(y)' = Hand(y) /\ \A z \in Sessions : Taken(y, z)' = Taken(y, z)
  BY DEF Draws, EmptyHanded, SameHand
<1> DEFINE a == <<"updates", s>>
           b == <<"hand", x>>
<1>2. a \in Spots(s) /\ b \in Spots(s) /\ a # b
  BY SpotsAre
<1>3. Flow(s)'[b] = Flow(s)[b] \o Flow(s)[a] /\ Flow(s)'[a] = <<>>
  <2>1. Hand(x)[s] = <<>> /\ updates'[s] = <<>> /\ Hand(x)'[s] = updates[s] /\ updates[s] \in Lists
    BY <1>1, EmptyList, ListOf
  <2>2. Cat(<<>>, updates[s]) = updates[s]
    BY <2>1, PutNone
  <2> QED BY <2>1, <2>2, <1>0 DEF Cat, FlowEqs
<1>4. ASSUME NEW k \in Spots(s), k \notin {a, b}
      PROVE  Flow(s)'[k] = Flow(s)[k]
  <2>1. CASE k = <<"said", s>> \/ k = <<"updates", s>> \/ k = <<"inbox", s>> \/ k = <<"shown", s>>
    BY <1>1, <1>4, <2>1, <1>0 DEF SameSource, FlowEqs
  <2>2. CASE \E y \in Movers : k = <<"events", y>> \/ k = <<"hand", y>> \/ k = <<"taken", y>>
    <3>1. PICK y \in Movers : k = <<"events", y>> \/ k = <<"hand", y>> \/ k = <<"taken", y>>
      BY <2>2
    <3>2. CASE y = x
      <4>1. k = <<"events", x>> \/ k = <<"taken", x>>
        BY <1>4, <3>1, <3>2
      <4>2. EventsOf(x, s)' = EventsOf(x, s) /\ Taken(x, s)' = Taken(x, s)
        BY <1>1 DEF SameSource
      <4> QED BY <4>1, <4>2, PlaceSame
    <3>3. CASE y # x
      <4>1. Hand(y)'[s] = Hand(y)[s] /\ Taken(y, s)' = Taken(y, s) /\ EventsOf(y, s)' = EventsOf(y, s)
        BY <1>1, <3>3 DEF SameSource
      <4> QED BY <3>1, <4>1, MoverSame
    <3> QED BY <3>2, <3>3
  <2> QED BY <2>1, <2>2, SpotIs
<1>5. Poured(Flow(s), Flow(s)', a, b)
  BY <1>2, <1>3, <1>4, <1>0 DEF Poured, FlowEqs
<1>6. FlowKept(s)
  BY <1>5, FlowTyped, PouredOnce DEF FlowKept
<1>7. TaleKept(s)
  BY <1>1, TaleSame
<1> QED BY <1>6, <1>7 DEF Kept2

LEMMA ForgetKept ==
    ASSUME AgentTypes, StreamTypes, events \in [Prompts -> Lists], NEW s \in Sessions, SameSource(s), Forgets
    PROVE  Kept2(s)
<1>0. FlowEqs(s)
  BY FlowNow
<1>1. /\ UNCHANGED <<shown, sent>> /\ updates' = Nothing /\ inbox' = Nothing
      /\ \A x \in Movers : Hand(x)' = Hand(x) /\ \A z \in Sessions : Taken(x, z)' = Taken(x, z)
  BY DEF Forgets, SameHand
<1>2. ASSUME NEW k \in Spots(s)
      PROVE  Flow(s)'[k] = Flow(s)[k] \/ Flow(s)'[k] = <<>>
  <2>1. CASE k = <<"said", s>> \/ k = <<"updates", s>> \/ k = <<"inbox", s>> \/ k = <<"shown", s>>
    BY <1>0, <1>1, <2>1, EmptyList DEF SameSource, FlowEqs
  <2>2. CASE \E x \in Movers : k = <<"events", x>> \/ k = <<"hand", x>> \/ k = <<"taken", x>>
    <3>1. PICK x \in Movers : k = <<"events", x>> \/ k = <<"hand", x>> \/ k = <<"taken", x>>
      BY <2>2
    <3>2. Hand(x)'[s] = Hand(x)[s] /\ Taken(x, s)' = Taken(x, s) /\ EventsOf(x, s)' = EventsOf(x, s)
      BY <1>1 DEF SameSource
    <3> QED BY <3>1, <3>2, MoverSame
  <2> QED BY <2>1, <2>2, SpotIs
<1>3. Spilt(Flow(s), Flow(s)')
  BY <1>0, <1>2 DEF Spilt, FlowEqs
<1>4. FlowKept(s)
  BY <1>3, FlowTyped, SpiltOnce DEF FlowKept
<1>5. TaleKept(s)
  BY <1>1, TaleSame
<1> QED BY <1>4, <1>5 DEF Kept2

LEMMA PutKept ==
    ASSUME AgentTypes, StreamTypes, events \in [Prompts -> Lists], NEW s \in Sessions, SameSource(s),
           NEW x \in Movers, NEW own \in Sessions, Puts(x, own)
    PROVE  Kept2(s)
<1>0. FlowEqs(s)
  BY FlowNow
<1>1. /\ UNCHANGED <<updates, inbox, sent, raced, engine>>
      /\ \A z \in Sessions : z # own => Taken(x, z) = <<>>
      /\ shown' = [shown EXCEPT ![own] = shown[own] \o Taken(x, own)]
      /\ Hand(x)' = Hand(x) /\ \A z \in Sessions : Taken(x, z)' = <<>>
      /\ \A y \in Movers : y # x => Hand(y)' = Hand(y) /\ \A z \in Sessions : Taken(y, z)' = Taken(y, z)
  BY DEF Puts, SameHand
<1>2. shown \in Streams /\ shown[s] \in Lists
  BY ListOf DEF StreamTypes
<1>3. shown'[s] = shown[s] \o Taken(x, s)
  <2>1. CASE s = own
    BY <1>1, <1>2, <2>1 DEF Streams
  <2>2. CASE s # own
    <3>1. shown'[s] = shown[s] /\ Taken(x, s) = <<>>
      BY <1>1, <1>2, <2>2 DEF Streams
    <3> QED BY <1>2, <3>1, PutNone DEF Cat
  <2> QED BY <2>1, <2>2
<1> DEFINE a == <<"taken", x>>
           b == <<"shown", s>>
<1>4. a \in Spots(s) /\ b \in Spots(s) /\ a # b
  BY SpotsAre
<1>5. Flow(s)'[b] = Flow(s)[b] \o Flow(s)[a] /\ Flow(s)'[a] = <<>>
  BY <1>0, <1>1, <1>3 DEF FlowEqs
<1>6. ASSUME NEW k \in Spots(s), k \notin {a, b}
      PROVE  Flow(s)'[k] = Flow(s)[k]
  <2>1. CASE k = <<"said", s>> \/ k = <<"updates", s>> \/ k = <<"inbox", s>> \/ k = <<"shown", s>>
    BY <1>0, <1>1, <1>6, <2>1 DEF SameSource, FlowEqs
  <2>2. CASE \E y \in Movers : k = <<"events", y>> \/ k = <<"hand", y>> \/ k = <<"taken", y>>
    <3>1. PICK y \in Movers : k = <<"events", y>> \/ k = <<"hand", y>> \/ k = <<"taken", y>>
      BY <2>2
    <3>2. CASE y = x
      <4>1. k = <<"events", x>> \/ k = <<"hand", x>>
        BY <1>6, <3>1, <3>2
      <4>2. EventsOf(x, s)' = EventsOf(x, s) /\ Hand(x)'[s] = Hand(x)[s]
        BY <1>1 DEF SameSource
      <4> QED BY <4>1, <4>2, PlaceSame
    <3>3. CASE y # x
      <4>1. Hand(y)'[s] = Hand(y)[s] /\ Taken(y, s)' = Taken(y, s) /\ EventsOf(y, s)' = EventsOf(y, s)
        BY <1>1, <3>3 DEF SameSource
      <4> QED BY <3>1, <4>1, MoverSame
    <3> QED BY <3>2, <3>3
  <2> QED BY <2>1, <2>2, SpotIs
<1>7. Poured(Flow(s), Flow(s)', a, b)
  BY <1>0, <1>4, <1>5, <1>6 DEF Poured, FlowEqs
<1>8. FlowKept(s)
  BY <1>7, FlowTyped, PouredOnce DEF FlowKept
<1>9. TaleKept(s)
  BY <1>1, TaleSame
<1> QED BY <1>8, <1>9 DEF Kept2

\* In between the two halves of a command's second lock.
Stowed(s, x) ==
    [k \in Spots(s) |-> IF k = <<"hand", x>> THEN <<>>
                        ELSE IF k = <<"inbox", s>> THEN Absorb(Hand(x))[s] ELSE Flow(s)[k]]

LEMMA StowedOnce ==
    ASSUME AgentTypes, StreamTypes, events \in [Prompts -> Lists], NEW s \in Sessions, NEW x \in Movers
    PROVE  /\ Typed(Stowed(s, x), Updates) /\ DOMAIN Stowed(s, x) = Spots(s)
           /\ \A u : Once(Flow(s), u) => /\ Once(Stowed(s, x), u)
                                         /\ Present(Stowed(s, x), u) => Present(Flow(s), u)
<1>0. FlowEqs(s)
  BY FlowNow
<1> DEFINE a == <<"hand", x>>
           b == <<"inbox", s>>
<1>1. a \in Spots(s) /\ b \in Spots(s) /\ a # b
  BY SpotsAre
<1>2. Stowed(s, x)[b] = Flow(s)[b] \o Flow(s)[a] /\ Stowed(s, x)[a] = <<>>
  <2>1. Stowed(s, x)[b] = Absorb(Hand(x))[s] /\ Stowed(s, x)[a] = <<>>
    BY <1>1 DEF Stowed
  <2>2. Absorb(Hand(x))[s] = inbox[s] \o Hand(x)[s]
    BY DEF Absorb
  <2> QED BY <1>0, <2>1, <2>2 DEF FlowEqs
<1>3. \A k \in Spots(s) : k \notin {a, b} => Stowed(s, x)[k] = Flow(s)[k]
  BY DEF Stowed
<1>4. DOMAIN Stowed(s, x) = Spots(s)
  BY DEF Stowed
<1>5. Poured(Flow(s), Stowed(s, x), a, b)
  BY <1>0, <1>1, <1>2, <1>3, <1>4 DEF Poured, FlowEqs
<1>6. Typed(Flow(s), Updates)
  BY FlowTyped
<1>7. Typed(Stowed(s, x), Updates)
  <2>1. \A k \in Spots(s) : Stowed(s, x)[k] \in Lists
    <3>1. Absorb(Hand(x))[s] \in Lists /\ <<>> \in Lists
      BY AbsorbIs, EmptyList
    <3>2. \A k \in Spots(s) : Flow(s)[k] \in Lists
      BY <1>0, <1>6 DEF Typed, Lists, FlowEqs
    <3> QED BY <3>1, <3>2 DEF Stowed
  <2> QED BY <1>4, <2>1 DEF Typed, Lists
<1>8. ASSUME NEW u, Once(Flow(s), u)
      PROVE  Once(Stowed(s, x), u) /\ (Present(Stowed(s, x), u) => Present(Flow(s), u))
  BY <1>5, <1>6, <1>8, PouredOnce
<1> QED BY <1>4, <1>7, <1>8

\* What is where it was after both halves.
LEMMA StowedSame ==
    ASSUME AgentTypes, StreamTypes, events \in [Prompts -> Lists], NEW s \in Sessions, SameSource(s),
           NEW x \in Movers, NEW own \in Sessions, Stows(x, own), NEW k \in Spots(s),
           k # <<"taken", x>>, k # <<"shown", s>>, k # <<"inbox", s>> \/ s # own
    PROVE  Flow(s)'[k] = Stowed(s, x)[k]
<1>0. FlowEqs(s)
  BY FlowNow
<1>1. /\ UNCHANGED <<updates, sent, engine>>
      /\ \A z \in Sessions : z # own => inbox'[z] = Cat(inbox[z], Hand(x)[z])
      /\ Hand(x)' = Nothing
      /\ \A y \in Movers : y # x => Hand(y)' = Hand(y) /\ \A z \in Sessions : Taken(y, z)' = Taken(y, z)
  BY StowIs
<1>2. CASE k = <<"hand", x>>
  <2>1. Flow(s)'[<<"hand", x>>] = <<>>
    BY <1>0, <1>1, EmptyList DEF FlowEqs
  <2> QED BY <1>2, <2>1 DEF Stowed
<1>3. CASE k = <<"inbox", s>>
  <2>1. Flow(s)'[<<"inbox", s>>] = Absorb(Hand(x))[s]
    BY <1>0, <1>1, <1>3, AbsorbIs DEF FlowEqs
  <2> QED BY <1>3, <2>1 DEF Stowed
<1>4. CASE k # <<"hand", x>> /\ k # <<"inbox", s>>
  <2>0. Stowed(s, x)[k] = Flow(s)[k]
    BY <1>4 DEF Stowed
  <2>1. CASE k = <<"said", s>> \/ k = <<"updates", s>>
    BY <1>0, <1>1, <2>0, <2>1 DEF SameSource, FlowEqs
  <2>2. CASE \E y \in Movers : k = <<"events", y>> \/ k = <<"hand", y>> \/ k = <<"taken", y>>
    <3>1. PICK y \in Movers : k = <<"events", y>> \/ k = <<"hand", y>> \/ k = <<"taken", y>>
      BY <2>2
    <3>2. CASE y = x
      <4>1. k = <<"events", x>>
        BY <1>4, <3>1, <3>2
      <4>2. EventsOf(x, s)' = EventsOf(x, s)
        BY DEF SameSource
      <4> QED BY <2>0, <4>1, <4>2, PlaceSame
    <3>3. CASE y # x
      <4>1. Hand(y)'[s] = Hand(y)[s] /\ Taken(y, s)' = Taken(y, s) /\ EventsOf(y, s)' = EventsOf(y, s)
        BY <1>1, <3>3 DEF SameSource
      <4> QED BY <2>0, <3>1, <4>1, MoverSame
    <3> QED BY <3>2, <3>3
  <2> QED BY <1>4, <2>1, <2>2, SpotIs
<1> QED BY <1>2, <1>3, <1>4

LEMMA StowedPlaces ==
    ASSUME StreamTypes, NEW s \in Sessions, NEW x \in Movers, Taken(x, s) = <<>>
    PROVE  /\ Stowed(s, x)[<<"taken", x>>] = <<>> /\ Stowed(s, x)[<<"shown", s>>] = shown[s]
           /\ Stowed(s, x)[<<"inbox", s>>] = Absorb(Hand(x))[s]
<1>0. FlowEqs(s)
  BY FlowNow
<1>1. <<"taken", x>> \in Spots(s) /\ <<"shown", s>> \in Spots(s) /\ <<"inbox", s>> \in Spots(s)
  BY SpotsAre
<1> QED BY <1>0, <1>1 DEF Stowed, FlowEqs

LEMMA KeepKept ==
    ASSUME AgentTypes, StreamTypes, events \in [Prompts -> Lists], NEW s \in Sessions, SameSource(s),
           NEW x \in Movers, NEW own \in Sessions, Stows(x, own), Takes(x, own)
    PROVE  Kept2(s)
<1>0. FlowEqs(s)
  BY FlowNow
<1>1. /\ UNCHANGED <<sent, shown>> /\ Taken(x, s) = <<>> /\ inbox'[own] = <<>>
      /\ Taken(x, s)' = IF s = own THEN Absorb(Hand(x))[s] ELSE <<>>
  BY StowIs DEF Takes
<1>2. /\ Stowed(s, x)[<<"taken", x>>] = <<>> /\ Stowed(s, x)[<<"shown", s>>] = shown[s]
      /\ Stowed(s, x)[<<"inbox", s>>] = Absorb(Hand(x))[s]
  BY <1>1, StowedPlaces
<1>3. /\ Typed(Stowed(s, x), Updates) /\ DOMAIN Stowed(s, x) = Spots(s)
      /\ \A u : Once(Flow(s), u) => /\ Once(Stowed(s, x), u)
                                    /\ Present(Stowed(s, x), u) => Present(Flow(s), u)
  BY StowedOnce
<1>4. Flow(s)'[<<"shown", s>>] = Stowed(s, x)[<<"shown", s>>]
  BY <1>0, <1>1, <1>2 DEF FlowEqs
<1>5. FlowKept(s)
  <2>1. CASE s = own
    <3> DEFINE a == <<"inbox", s>>
               b == <<"taken", x>>
    <3>1. a \in Spots(s) /\ b \in Spots(s) /\ a # b
      BY SpotsAre
    <3>2. Flow(s)'[b] = Stowed(s, x)[b] \o Stowed(s, x)[a] /\ Flow(s)'[a] = <<>>
      <4>1. Absorb(Hand(x))[s] \in Lists
        BY AbsorbIs
      <4>2. <<>> \o Absorb(Hand(x))[s] = Absorb(Hand(x))[s]
        BY <4>1, PutNone DEF Cat
      <4> QED BY <1>0, <1>1, <1>2, <2>1, <4>2 DEF FlowEqs
    <3>3. \A k \in Spots(s) : k \notin {a, b} => Flow(s)'[k] = Stowed(s, x)[k]
      BY <1>4, StowedSame
    <3>4. Poured(Stowed(s, x), Flow(s)', a, b)
      BY <1>0, <1>3, <3>1, <3>2, <3>3 DEF Poured, FlowEqs
    <3> QED BY <1>3, <3>4, PouredOnce DEF FlowKept
  <2>2. CASE s # own
    <3>1. Flow(s)'[<<"taken", x>>] = Stowed(s, x)[<<"taken", x>>]
      BY <1>0, <1>1, <1>2, <2>2 DEF FlowEqs
    <3>2. \A k \in Spots(s) : Flow(s)'[k] = Stowed(s, x)[k]
      BY <1>4, <2>2, <3>1, StowedSame
    <3>3. Spilt(Stowed(s, x), Flow(s)')
      BY <1>0, <1>3, <3>2 DEF Spilt, FlowEqs
    <3> QED BY <1>3, <3>3, SpiltOnce DEF FlowKept
  <2> QED BY <2>1, <2>2
<1>6. TaleKept(s)
  BY <1>1, TaleSame
<1> QED BY <1>5, <1>6 DEF Kept2

LEMMA HistoryKept ==
    ASSUME AgentTypes, StreamTypes, events \in [Prompts -> Lists], NEW s \in Sessions, SameSource(s),
           NEW x \in Movers, NEW own \in Sessions, Stows(x, own), ShowsAtOnce(x, own)
    PROVE  Kept2(s)
<1>0. FlowEqs(s)
  BY FlowNow
<1>1. /\ UNCHANGED sent /\ Taken(x, s) = <<>> /\ inbox'[own] = <<>> /\ Taken(x, s)' = <<>>
      /\ shown' = [shown EXCEPT ![own] = shown[own] \o Absorb(Hand(x))[own]]
      /\ shown \in Streams
  BY StowIs DEF ShowsAtOnce, StreamTypes
<1>2. /\ Stowed(s, x)[<<"taken", x>>] = <<>> /\ Stowed(s, x)[<<"shown", s>>] = shown[s]
      /\ Stowed(s, x)[<<"inbox", s>>] = Absorb(Hand(x))[s]
  BY <1>1, StowedPlaces
<1>3. /\ Typed(Stowed(s, x), Updates) /\ DOMAIN Stowed(s, x) = Spots(s)
      /\ \A u : Once(Flow(s), u) => /\ Once(Stowed(s, x), u)
                                    /\ Present(Stowed(s, x), u) => Present(Flow(s), u)
  BY StowedOnce
<1>4. Flow(s)'[<<"taken", x>>] = Stowed(s, x)[<<"taken", x>>]
  BY <1>0, <1>1, <1>2 DEF FlowEqs
<1>5. FlowKept(s)
  <2>1. CASE s = own
    <3> DEFINE a == <<"inbox", s>>
               b == <<"shown", s>>
    <3>1. a \in Spots(s) /\ b \in Spots(s) /\ a # b
      BY SpotsAre
    <3>2. Flow(s)'[b] = Stowed(s, x)[b] \o Stowed(s, x)[a] /\ Flow(s)'[a] = <<>>
      <4>1. shown'[s] = shown[s] \o Absorb(Hand(x))[s]
        BY <1>1, <2>1 DEF Streams
      <4> QED BY <1>0, <1>1, <1>2, <2>1, <4>1 DEF FlowEqs
    <3>3. \A k \in Spots(s) : k \notin {a, b} => Flow(s)'[k] = Stowed(s, x)[k]
      BY <1>4, StowedSame
    <3>4. Poured(Stowed(s, x), Flow(s)', a, b)
      BY <1>0, <1>3, <3>1, <3>2, <3>3 DEF Poured, FlowEqs
    <3> QED BY <1>3, <3>4, PouredOnce DEF FlowKept
  <2>2. CASE s # own
    <3>0. shown'[s] = shown[s]
      BY <1>1, <2>2 DEF Streams
    <3>1. Flow(s)'[<<"shown", s>>] = Stowed(s, x)[<<"shown", s>>]
      BY <1>0, <1>2, <3>0 DEF FlowEqs
    <3>2. \A k \in Spots(s) : Flow(s)'[k] = Stowed(s, x)[k]
      BY <1>4, <2>2, <3>1, StowedSame
    <3>3. Spilt(Stowed(s, x), Flow(s)')
      BY <1>0, <1>3, <3>2 DEF Spilt, FlowEqs
    <3> QED BY <1>3, <3>3, SpiltOnce DEF FlowKept
  <2> QED BY <2>1, <2>2
<1>6. TaleKept(s)
  BY <1>1, TaleSame
<1> QED BY <1>5, <1>6 DEF Kept2


\* A place that nothing was put into or taken from.
LEMMA FlowSameAt ==
    ASSUME NEW s \in Sessions, NEW k \in Spots(s),
           k = <<"said", s>> => Echoes(s)' = Echoes(s),
           k = <<"updates", s>> => updates'[s] = updates[s],
           k = <<"inbox", s>> => inbox'[s] = inbox[s],
           k = <<"shown", s>> => shown'[s] = shown[s],
           \A x \in Movers : /\ k = <<"events", x>> => EventsOf(x, s)' = EventsOf(x, s)
                             /\ k = <<"hand", x>> => Hand(x)'[s] = Hand(x)[s]
                             /\ k = <<"taken", x>> => Taken(x, s)' = Taken(x, s)
    PROVE  Flow(s)'[k] = Flow(s)[k]
<1>0. FlowEqs(s)
  BY FlowNow
<1>1. CASE k = <<"said", s>> \/ k = <<"updates", s>> \/ k = <<"inbox", s>> \/ k = <<"shown", s>>
  BY <1>0, <1>1 DEF FlowEqs
<1>2. ASSUME NEW x \in Movers, k = <<"events", x>> \/ k = <<"hand", x>> \/ k = <<"taken", x>>
      PROVE  Flow(s)'[k] = Flow(s)[k]
  <2>1. CASE k = <<"events", x>>
    BY <2>1, PlaceSame
  <2>2. CASE k = <<"hand", x>>
    BY <2>2, PlaceSame
  <2>3. CASE k = <<"taken", x>>
    BY <2>3, PlaceSame
  <2> QED BY <1>2, <2>1, <2>2, <2>3
<1> QED BY <1>1, <1>2, SpotIs

LEMMA TaleSameAt ==
    ASSUME NEW s \in Sessions, NEW k \in Scenes(s),
           k = <<"said", s>> => Echoes(s)' = Echoes(s),
           k = <<"sent", s>> => sent'[s] = sent[s],
           \A x \in Movers : k = <<"events", x>> => EventsOf(x, s)' = EventsOf(x, s)
    PROVE  Tale(s)'[k] = Tale(s)[k]
<1>0. FlowEqs(s)
  BY FlowNow
<1> QED BY <1>0, SceneIs DEF FlowEqs

\* What the agent's own steps leave alone: what is under way in the window.
WindowStill(s) == /\ inbox'[s] = inbox[s] /\ shown'[s] = shown[s]
                  /\ \A x \in Movers : Hand(x)'[s] = Hand(x)[s] /\ Taken(x, s)' = Taken(x, s)

\* Something is sent that announces nobody; what was said in the session may go unheard.
LEMMA SendKept ==
    ASSUME AgentTypes, StreamTypes, events \in [Prompts -> Lists], NEW s \in Sessions, WindowStill(s),
           \A x \in Movers : EventsOf(x, s)' = EventsOf(x, s),
           Echoes(s)' = Echoes(s) \/ Echoes(s)' = <<>>,
           NEW list \in Lists, \A p \in Prompts : Redirected(p) \notin Range(list),
           updates'[s] = Cat(updates[s], list), sent'[s] = Cat(sent[s], list)
    PROVE  Kept2(s)
<1>0. FlowEqs(s)
  BY FlowNow
<1>1. Typed(Flow(s), Updates) /\ Typed(Tale(s), Updates)
  BY FlowTyped
<1>2. <<>> \in Seq(Updates) /\ list \in Seq(Updates)
  BY EmptyList DEF Lists
<1> DEFINE a == <<"said", s>>
           b == <<"updates", s>>
           c == <<"sent", s>>
           F == [k \in Spots(s) |-> IF k = a THEN Echoes(s)' ELSE Flow(s)[k]]
           T == [k \in Scenes(s) |-> IF k = a THEN Echoes(s)' ELSE Tale(s)[k]]
<1>3. a \in Spots(s) /\ b \in Spots(s) /\ a \in Scenes(s) /\ c \in Scenes(s) /\ a # b /\ a # c
  BY SpotsAre
<1>4. Spilt(Flow(s), F) /\ Spilt(Tale(s), T)
  BY <1>0, <1>3 DEF Spilt, FlowEqs
<1>5. Typed(F, Updates) /\ Typed(T, Updates)
  BY <1>1, <1>2, <1>4 DEF Spilt, Typed
<1>6. Added(F, Flow(s)', b, list)
  <2>1. Flow(s)'[b] = F[b] \o list
    BY <1>0, <1>3 DEF FlowEqs, Cat
  <2>2. ASSUME NEW k \in Spots(s), k # b
        PROVE  Flow(s)'[k] = F[k]
    <3>1. CASE k = a
      BY <1>0, <3>1 DEF FlowEqs
    <3>2. CASE k # a
      <4>1. Flow(s)'[k] = Flow(s)[k]
        BY <2>2, <3>2, FlowSameAt DEF WindowStill
      <4> QED BY <3>2, <4>1
    <3> QED BY <3>1, <3>2
  <2>3. DOMAIN F = Spots(s) /\ DOMAIN Flow(s)' = Spots(s)
    BY <1>0 DEF FlowEqs
  <2> QED BY <1>3, <2>1, <2>2, <2>3 DEF Added
<1>7. Added(T, Tale(s)', c, list)
  <2>1. Tale(s)'[c] = T[c] \o list
    BY <1>0, <1>3 DEF FlowEqs, Cat
  <2>2. ASSUME NEW k \in Scenes(s), k # c
        PROVE  Tale(s)'[k] = T[k]
    <3>1. CASE k = a
      BY <1>0, <3>1 DEF FlowEqs
    <3>2. CASE k # a
      <4>1. Tale(s)'[k] = Tale(s)[k]
        BY <2>2, <3>2, TaleSameAt
      <4> QED BY <3>2, <4>1
    <3> QED BY <3>1, <3>2
  <2>3. DOMAIN T = Scenes(s) /\ DOMAIN Tale(s)' = Scenes(s)
    BY <1>0 DEF FlowEqs
  <2> QED BY <1>3, <2>1, <2>2, <2>3 DEF Added
<1> HIDE DEF F, T, a, b, c
<1>8. FlowKept(s)
  <2> SUFFICES ASSUME NEW p \in Prompts, Once(Flow(s), Redirected(p))
               PROVE  /\ Once(Flow(s)', Redirected(p))
                      /\ Present(Flow(s)', Redirected(p)) => Present(Flow(s), Redirected(p))
    BY DEF FlowKept
  <2>1. Once(F, Redirected(p)) /\ (Present(F, Redirected(p)) => Present(Flow(s), Redirected(p)))
    BY <1>1, <1>4, SpiltOnce
  <2>2. Redirected(p) \notin Range(list)
    OBVIOUS
  <2>3. /\ Once(Flow(s)', Redirected(p))
        /\ Present(Flow(s)', Redirected(p)) => Present(F, Redirected(p)) \/ Redirected(p) \in Range(list)
    BY <1>2, <1>5, <1>6, <2>1, <2>2, AddedOnce
  <2> QED BY <2>1, <2>2, <2>3
<1>9. TaleKept(s)
  <2> SUFFICES ASSUME NEW p \in Prompts, Once(Tale(s), Redirected(p))
               PROVE  /\ Once(Tale(s)', Redirected(p))
                      /\ Present(Tale(s)', Redirected(p)) => Present(Tale(s), Redirected(p))
    BY DEF TaleKept
  <2>1. Once(T, Redirected(p)) /\ (Present(T, Redirected(p)) => Present(Tale(s), Redirected(p)))
    BY <1>1, <1>4, SpiltOnce
  <2>2. Redirected(p) \notin Range(list)
    OBVIOUS
  <2>3. /\ Once(Tale(s)', Redirected(p))
        /\ Present(Tale(s)', Redirected(p)) => Present(T, Redirected(p)) \/ Redirected(p) \in Range(list)
    BY <1>2, <1>5, <1>7, <2>1, <2>2, AddedOnce
  <2> QED BY <2>1, <2>2, <2>3
<1> QED BY <1>8, <1>9 DEF Kept2

\* A turn takes what was said in its session (Top).
LEMMA TakeKept ==
    ASSUME AgentTypes, StreamTypes, events \in [Prompts -> Lists], NEW p \in Prompts, NEW s \in Sessions,
           WindowStill(s), updates'[s] = updates[s], sent'[s] = sent[s],
           EventsOf(p, s)' = EventsOf(p, s) \o Echoes(s), Echoes(s)' = <<>>,
           \A x \in Movers : x # p => EventsOf(x, s)' = EventsOf(x, s)
    PROVE  Kept2(s)
<1>0. FlowEqs(s)
  BY FlowNow
<1>1. Typed(Flow(s), Updates) /\ Typed(Tale(s), Updates)
  BY FlowTyped
<1> DEFINE a == <<"said", s>>
           b == <<"events", p>>
<1>2. a \in Spots(s) /\ b \in Spots(s) /\ a \in Scenes(s) /\ b \in Scenes(s) /\ a # b /\ p \in Movers
  BY SpotsAre DEF Movers
<1>3. Poured(Flow(s), Flow(s)', a, b)
  <2>1. Flow(s)'[b] = Flow(s)[b] \o Flow(s)[a] /\ Flow(s)'[a] = <<>>
    BY <1>0, <1>2 DEF FlowEqs
  <2>2. ASSUME NEW k \in Spots(s), k \notin {a, b}
        PROVE  Flow(s)'[k] = Flow(s)[k]
    BY <2>2, FlowSameAt DEF WindowStill
  <2> QED BY <1>0, <1>2, <2>1, <2>2 DEF Poured, FlowEqs
<1>4. Poured(Tale(s), Tale(s)', a, b)
  <2>1. Tale(s)'[b] = Tale(s)[b] \o Tale(s)[a] /\ Tale(s)'[a] = <<>>
    BY <1>0, <1>2 DEF FlowEqs
  <2>2. ASSUME NEW k \in Scenes(s), k \notin {a, b}
        PROVE  Tale(s)'[k] = Tale(s)[k]
    BY <2>2, TaleSameAt
  <2> QED BY <1>0, <1>2, <2>1, <2>2 DEF Poured, FlowEqs
<1>5. FlowKept(s) /\ TaleKept(s)
  BY <1>1, <1>3, <1>4, PouredOnce DEF FlowKept, TaleKept
<1> QED BY <1>5 DEF Kept2

\* The events task sends what a turn said (PassOn).
LEMMA PassKept ==
    ASSUME AgentTypes, StreamTypes, events \in [Prompts -> Lists], NEW p \in Prompts, NEW s \in Sessions,
           WindowStill(s), Echoes(s)' = Echoes(s),
           updates'[s] = Cat(updates[s], EventsOf(p, s)), sent'[s] = Cat(sent[s], EventsOf(p, s)),
           EventsOf(p, s)' = <<>>,
           \A x \in Movers : x # p => EventsOf(x, s)' = EventsOf(x, s)
    PROVE  Kept2(s)
<1>0. FlowEqs(s)
  BY FlowNow
<1>1. Typed(Flow(s), Updates) /\ Typed(Tale(s), Updates)
  BY FlowTyped
<1> DEFINE a == <<"events", p>>
           b == <<"updates", s>>
           c == <<"sent", s>>
<1>2. a \in Spots(s) /\ b \in Spots(s) /\ a \in Scenes(s) /\ c \in Scenes(s) /\ a # b /\ a # c /\ p \in Movers
  BY SpotsAre DEF Movers
<1>3. Poured(Flow(s), Flow(s)', a, b)
  <2>1. Flow(s)'[b] = Flow(s)[b] \o Flow(s)[a] /\ Flow(s)'[a] = <<>>
    BY <1>0, <1>2 DEF FlowEqs, Cat
  <2>2. ASSUME NEW k \in Spots(s), k \notin {a, b}
        PROVE  Flow(s)'[k] = Flow(s)[k]
    BY <2>2, FlowSameAt DEF WindowStill
  <2> QED BY <1>0, <1>2, <2>1, <2>2 DEF Poured, FlowEqs
<1>4. Poured(Tale(s), Tale(s)', a, c)
  <2>1. Tale(s)'[c] = Tale(s)[c] \o Tale(s)[a] /\ Tale(s)'[a] = <<>>
    BY <1>0, <1>2 DEF FlowEqs, Cat
  <2>2. ASSUME NEW k \in Scenes(s), k \notin {a, c}
        PROVE  Tale(s)'[k] = Tale(s)[k]
    BY <2>2, TaleSameAt
  <2> QED BY <1>0, <1>2, <2>1, <2>2 DEF Poured, FlowEqs
<1>5. FlowKept(s) /\ TaleKept(s)
  BY <1>1, <1>3, <1>4, PouredOnce DEF FlowKept, TaleKept
<1> QED BY <1>5 DEF Kept2

\* Something is added to what was said: a turn's own words (Think), or a message that joins.
LEMMA SayKept ==
    ASSUME AgentTypes, StreamTypes, events \in [Prompts -> Lists], NEW s \in Sessions,
           WindowStill(s), updates'[s] = updates[s], sent'[s] = sent[s],
           NEW place, NEW e \in Updates,
           \/ /\ place = <<"said", s>> /\ Echoes(s)' = Echoes(s) \o <<e>>
              /\ \A x \in Movers : EventsOf(x, s)' = EventsOf(x, s)
           \/ \E p \in Movers : /\ place = <<"events", p>> /\ Echoes(s)' = Echoes(s)
                                /\ EventsOf(p, s)' = EventsOf(p, s) \o <<e>>
                                /\ \A x \in Movers : x # p => EventsOf(x, s)' = EventsOf(x, s)
    PROVE  \A u : /\ Once(Flow(s), u) /\ (u = e => ~Present(Flow(s), u))
                        => Once(Flow(s)', u) /\ (Present(Flow(s)', u) => Present(Flow(s), u) \/ u = e)
                  /\ Once(Tale(s), u) /\ (u = e => ~Present(Tale(s), u))
                        => Once(Tale(s)', u) /\ (Present(Tale(s)', u) => Present(Tale(s), u) \/ u = e)
<1>0. FlowEqs(s)
  BY FlowNow
<1>1. Typed(Flow(s), Updates) /\ Typed(Tale(s), Updates)
  BY FlowTyped
<1>2. /\ <<e>> \in Seq(Updates) /\ Range(<<e>>) = {e}
      /\ \A i \in DOMAIN <<e>> : \A j \in DOMAIN <<e>> : i = j
  BY DEF Range
<1>3. Added(Flow(s), Flow(s)', place, <<e>>) /\ Added(Tale(s), Tale(s)', place, <<e>>)
  <2>1. CASE /\ place = <<"said", s>> /\ Echoes(s)' = Echoes(s) \o <<e>>
             /\ \A x \in Movers : EventsOf(x, s)' = EventsOf(x, s)
    <3>1. place \in Spots(s) /\ place \in Scenes(s)
      BY <2>1, SpotsAre
    <3>2. Flow(s)'[place] = Flow(s)[place] \o <<e>> /\ Tale(s)'[place] = Tale(s)[place] \o <<e>>
      BY <1>0, <2>1 DEF FlowEqs
    <3>3. ASSUME NEW k \in Spots(s), k # place
          PROVE  Flow(s)'[k] = Flow(s)[k]
      BY <2>1, <3>3, FlowSameAt DEF WindowStill
    <3>4. ASSUME NEW k \in Scenes(s), k # place
          PROVE  Tale(s)'[k] = Tale(s)[k]
      BY <2>1, <3>4, TaleSameAt
    <3> QED BY <1>0, <3>1, <3>2, <3>3, <3>4 DEF Added, FlowEqs
  <2>2. ASSUME NEW p \in Movers, place = <<"events", p>>, Echoes(s)' = Echoes(s),
               EventsOf(p, s)' = EventsOf(p, s) \o <<e>>,
               \A x \in Movers : x # p => EventsOf(x, s)' = EventsOf(x, s)
        PROVE  Added(Flow(s), Flow(s)', place, <<e>>) /\ Added(Tale(s), Tale(s)', place, <<e>>)
    <3>1. place \in Spots(s) /\ place \in Scenes(s)
      BY <2>2, SpotsAre
    <3>2. Flow(s)'[place] = Flow(s)[place] \o <<e>> /\ Tale(s)'[place] = Tale(s)[place] \o <<e>>
      BY <1>0, <2>2 DEF FlowEqs
    <3>3. ASSUME NEW k \in Spots(s), k # place
          PROVE  Flow(s)'[k] = Flow(s)[k]
      BY <2>2, <3>3, FlowSameAt DEF WindowStill
    <3>4. ASSUME NEW k \in Scenes(s), k # place
          PROVE  Tale(s)'[k] = Tale(s)[k]
      BY <2>2, <3>4, TaleSameAt
    <3> QED BY <1>0, <3>1, <3>2, <3>3, <3>4 DEF Added, FlowEqs
  <2> QED BY <2>1, <2>2
<1>4. ASSUME NEW u, Once(Flow(s), u), u = e => ~Present(Flow(s), u)
      PROVE  Once(Flow(s)', u) /\ (Present(Flow(s)', u) => Present(Flow(s), u) \/ u = e)
  <2>1. \/ u \notin Range(<<e>>)
        \/ ~Present(Flow(s), u) /\ \A i, j \in DOMAIN <<e>> : <<e>>[i] = u /\ <<e>>[j] = u => i = j
    BY <1>2, <1>4
  <2>2. Once(Flow(s)', u) /\ (Present(Flow(s)', u) => Present(Flow(s), u) \/ u \in Range(<<e>>))
    BY <1>1, <1>2, <1>3, <1>4, <2>1, AddedOnce
  <2> QED BY <1>2, <2>2
<1>5. ASSUME NEW u, Once(Tale(s), u), u = e => ~Present(Tale(s), u)
      PROVE  Once(Tale(s)', u) /\ (Present(Tale(s)', u) => Present(Tale(s), u) \/ u = e)
  <2>1. \/ u \notin Range(<<e>>)
        \/ ~Present(Tale(s), u) /\ \A i, j \in DOMAIN <<e>> : <<e>>[i] = u /\ <<e>>[j] = u => i = j
    BY <1>2, <1>5
  <2>2. Once(Tale(s)', u) /\ (Present(Tale(s)', u) => Present(Tale(s), u) \/ u \in Range(<<e>>))
    BY <1>1, <1>2, <1>3, <1>5, <2>1, AddedOnce
  <2> QED BY <1>2, <2>2
<1> QED BY <1>4, <1>5

-----------------------------------------------------------------------------
(***************************************************************************)
(* What a step of the window leaves as it was.                              *)
(***************************************************************************)

HandsAre ==
    /\ \A p \in Prompts : /\ Hand(p) = loop[p].held
                          /\ \A s \in Sessions : Taken(p, s) = IF Job[p].session = s THEN loop[p].taken ELSE <<>>
    /\ \A s \in Sessions : /\ Hand(s) = opener[s].held
                           /\ \A t \in Sessions : Taken(s, t) = <<>>

LEMMA HandsTheirs == HandsAre
<1>1. \A s \in Sessions : s \notin Prompts
  BY AcpAssumption
<1> QED BY <1>1 DEF HandsAre, Hand, Taken

LEMMA HandsNext == HandsAre'
BY HandsTheirs, PTL

\* What was within reach is, and what is on screen stays.
Carries(y) ==
    /\ raced \subseteq raced'
    /\ \A s \in Sessions \ raced' : /\ Range(shown[s]) \subseteq Range(shown'[s])
                                    /\ \A e : Reaches(e, s, y) => Reaches(e, s, y)'

LEMMA StillCarries ==
    ASSUME StreamTypes, Still \/ Forgets, NEW y \in Movers
    PROVE  Carries(y)
<1>1. \A x \in Movers : Hand(x)' = Hand(x) /\ \A s \in Sessions : Taken(x, s)' = Taken(x, s)
  BY DEF Still, Forgets, SameHand
<1>2. raced \subseteq raced' /\ shown' = shown
  BY DEF Still, Forgets
<1>3. \A s \in Sessions \ raced' : inbox'[s] = inbox[s]
  BY EmptyList DEF Still, Forgets
<1> QED BY <1>1, <1>2, <1>3 DEF Carries, Reaches

LEMMA SendCarries ==
    ASSUME StreamTypes, NEW s \in Sessions, NEW list, Sends(s, list), NEW y \in Movers
    PROVE  Carries(y)
<1>1. \A x \in Movers : Hand(x)' = Hand(x) /\ \A t \in Sessions : Taken(x, t)' = Taken(x, t)
  BY DEF Sends, SameHand
<1>2. UNCHANGED <<raced, shown, inbox>>
  BY DEF Sends
<1> QED BY <1>1, <1>2 DEF Carries, Reaches

LEMMA DrawCarries ==
    ASSUME StreamTypes, NEW x \in Movers, NEW own, Draws(x, own), NEW y \in Movers, y # x
    PROVE  Carries(y)
<1>1. /\ UNCHANGED <<inbox, shown>> /\ Hand(y)' = Hand(y)
      /\ \A s \in Sessions : Taken(x, s) = <<>>
      /\ \A z \in Movers : z # x => \A s \in Sessions : Taken(z, s)' = Taken(z, s)
  BY DEF Draws, EmptyHanded, SameHand
<1>2. raced \subseteq raced'
  BY DEF Draws, Race
<1>3. ASSUME NEW s \in Sessions, NEW e, Reaches(e, s, y)
      PROVE  Reaches(e, s, y)'
  <2>1. \A z \in Movers : e \in Range(Taken(z, s)) => e \in Range(Taken(z, s)')
    <3>1. e \notin Range(Taken(x, s))
      BY <1>1, EmptyRange
    <3> QED BY <1>1, <3>1
  <2> QED BY <1>1, <1>3, <2>1 DEF Reaches
<1> QED BY <1>1, <1>2, <1>3 DEF Carries

LEMMA PutCarries ==
    ASSUME StreamTypes, OrderInv, NEW x \in Movers, NEW own \in Sessions, Puts(x, own), NEW y \in Movers
    PROVE  Carries(y) /\ Range(Taken(x, own)) \subseteq Range(shown'[own])
<1>1. /\ UNCHANGED <<inbox, raced>> /\ Hand(y)' = Hand(y)
      /\ \A s \in Sessions : s # own => Taken(x, s) = <<>>
      /\ \A z \in Movers : z # x => \A s \in Sessions : Taken(z, s)' = Taken(z, s)
  BY DEF Puts, SameHand
<1>2. /\ shown'[own] = Cat(shown[own], Taken(x, own))
      /\ \A s \in Sessions : s # own => shown'[s] = shown[s]
  BY PutFlows
<1>3. Range(shown'[own]) = Range(shown[own]) \cup Range(Taken(x, own))
  BY <1>2, ListOf, Put
<1>4. ASSUME NEW s \in Sessions, NEW e, Reaches(e, s, y)
      PROVE  Reaches(e, s, y)'
  <2>1. CASE e \in Range(Taken(x, s))
    <3>1. s = own
      BY <1>1, <2>1, EmptyRange
    <3> QED BY <1>3, <2>1, <3>1 DEF Reaches
  <2>2. CASE e \notin Range(Taken(x, s))
    <3>1. \A z \in Movers : e \in Range(Taken(z, s)) => e \in Range(Taken(z, s)')
      BY <1>1, <2>2
    <3>2. Range(shown[s]) \subseteq Range(shown'[s])
      BY <1>2, <1>3
    <3> QED BY <1>1, <1>4, <3>1, <3>2 DEF Reaches
  <2> QED BY <2>1, <2>2
<1> QED BY <1>1, <1>2, <1>3, <1>4 DEF Carries

\* What was kept, and held, is taken or kept.
LEMMA StowCarries ==
    ASSUME StreamTypes, OrderInv, NEW x \in Movers, NEW own \in Sessions, Stows(x, own),
           Takes(x, own) \/ ShowsAtOnce(x, own), NEW y \in Movers
    PROVE  Carries(y)
<1>1. /\ UNCHANGED <<updates, sent, engine>> /\ \A s \in Sessions : Taken(x, s) = <<>>
      /\ \A s \in Sessions : s # own => inbox'[s] = Cat(inbox[s], Hand(x)[s])
      /\ \A z \in Movers : z # x => Hand(z)' = Hand(z) /\ \A s \in Sessions : Taken(z, s)' = Taken(z, s)
      /\ raced \subseteq raced'
  BY StowIs
<1>2. \A s \in Sessions : Range(Absorb(Hand(x))[s]) = Range(inbox[s]) \cup Range(Hand(x)[s])
  BY AbsorbIs
<1>3. /\ \A s \in Sessions : Range(shown[s]) \subseteq Range(shown'[s])
      /\ \/ Range(Absorb(Hand(x))[own]) \subseteq Range(shown'[own])
         \/ Taken(x, own)' = Absorb(Hand(x))[own]
  <2>1. CASE Takes(x, own)
    BY <2>1 DEF Takes
  <2>2. CASE ShowsAtOnce(x, own)
    <3>1. /\ shown'[own] = Cat(shown[own], Cat(inbox[own], Hand(x)[own]))
          /\ \A s \in Sessions : s # own => shown'[s] = shown[s]
      BY <2>2, KeepHistoryFlows
    <3>2. /\ Range(Cat(inbox[own], Hand(x)[own])) = Range(inbox[own]) \cup Range(Hand(x)[own])
          /\ Cat(inbox[own], Hand(x)[own]) \in Lists /\ shown[own] \in Lists
      BY ListOf, Put
    <3>3. Range(shown'[own]) = Range(shown[own]) \cup Range(Cat(inbox[own], Hand(x)[own]))
      BY <3>1, <3>2, Put
    <3> QED BY <1>2, <3>1, <3>2, <3>3
  <2> QED BY <2>1, <2>2
<1>4. \A s \in Sessions : s # own => Range(inbox'[s]) = Range(inbox[s]) \cup Range(Hand(x)[s])
  BY <1>1, ListOf, Put
<1>5. ASSUME NEW s \in Sessions, NEW e, Reaches(e, s, y)
      PROVE  Reaches(e, s, y)'
  <2>1. \A z \in Movers : e \in Range(Taken(z, s)) => e \in Range(Taken(z, s)')
    <3>1. e \notin Range(Taken(x, s))
      BY <1>1, EmptyRange
    <3> QED BY <1>1, <3>1
  <2>2. e \in Range(inbox[s]) \/ e \in Range(Hand(x)[s]) => Reaches(e, s, y)'
    <3>1. CASE s = own
      BY <1>2, <1>3, <3>1 DEF Reaches
    <3>2. CASE s # own
      BY <1>4, <3>2 DEF Reaches
    <3> QED BY <3>1, <3>2
  <2>3. e \in Range(shown[s]) => Reaches(e, s, y)'
    BY <1>3 DEF Reaches
  <2>4. e \in Range(Hand(y)[s]) => Reaches(e, s, y)'
    <3>1. CASE y = x
      BY <2>2, <3>1
    <3>2. CASE y # x
      BY <1>1, <3>2 DEF Reaches
    <3> QED BY <3>1, <3>2
  <2> QED BY <1>5, <2>1, <2>2, <2>3, <2>4 DEF Reaches
<1> QED BY <1>1, <1>3, <1>5 DEF Carries

-----------------------------------------------------------------------------
(***************************************************************************)
(* Frames: what stays true of what a step does not touch.                    *)
(***************************************************************************)

LEMMA OriginFrame ==
    ASSUME Origin, UNCHANGED <<mix, events, session, turn, reply, sent>>
    PROVE  Origin'
<1>1. \A s \in Sessions : SaidOf(s)' = SaidOf(s)
  BY DEF SaidOf
<1>2. Past' = Past /\ \A p \in Prompts : Running(p)' = Running(p)
  BY DEF Past, Running
<1>3. TurnsSay'
  BY <1>1, <1>2 DEF Origin, TurnsSay, Own, Noted
<1>4. JoinersAnnounced'
  BY <1>1, JobTyped DEF Origin, JoinersAnnounced, Announced
<1>5. NotesOnce'
  BY DEF Origin, NotesOnce, NotedOnce
<1> QED BY <1>3, <1>4, <1>5 DEF Origin

LEMMA FlowFrame ==
    ASSUME FlowInv, \A s \in Sessions : Kept2(s), \A p \in Prompts : turn[p].with # None => turn'[p].with # None
    PROVE  FlowInv'
<1> SUFFICES ASSUME NEW p \in Prompts PROVE AnnouncedOnce(p)'
  BY DEF FlowInv
<1>1. PICK s \in Sessions : s = Job[p].session
  BY JobTyped
<1>2. /\ Once(Flow(s), Redirected(p)) /\ Once(Tale(s), Redirected(p))
      /\ Present(Flow(s), Redirected(p)) \/ Present(Tale(s), Redirected(p)) => turn[p].with # None
  BY <1>1 DEF FlowInv, AnnouncedOnce
<1>3. /\ Once(Flow(s)', Redirected(p)) /\ Once(Tale(s)', Redirected(p))
      /\ Present(Flow(s)', Redirected(p)) => Present(Flow(s), Redirected(p))
      /\ Present(Tale(s)', Redirected(p)) => Present(Tale(s), Redirected(p))
  BY <1>2 DEF Kept2, FlowKept, TaleKept
<1>4. Flow(Job[p].session)' = Flow(s)' /\ Tale(Job[p].session)' = Tale(s)'
  BY <1>1
<1> QED BY <1>1, <1>2, <1>3, <1>4 DEF AnnouncedOnce, Once, Present, Redirected

LEMMA SameSources ==
    ASSUME UNCHANGED <<session, events>>, NEW s \in Sessions
    PROVE  SameSource(s)
BY DEF SameSource, Echoes, SaidOf, EventsOf

LEMMA ShownStays ==
    ASSUME NEW q \in Prompts, DueIsShown(q), ClosedWhen(q), loop'[q] = loop[q], Carries(q),
           Closed(q) => Due(q)' \subseteq Due(q) /\ reply'[q] = reply[q]
    PROVE  (DueIsShown(q) /\ ClosedWhen(q))'
<1> DEFINE s == Job[q].session
<1>1. s \in Sessions /\ q \in Movers
  BY JobTyped DEF Movers
<1>2. Closed(q)' = Closed(q)
  BY DEF Closed
<1>3. Taken(q, s)' = Taken(q, s)
  BY <1>1, HandsTheirs, HandsNext DEF HandsAre
<1>4. ClosedWhen(q)'
  BY <1>2 DEF ClosedWhen
<1>5. ASSUME s \notin raced', Closed(q)
      PROVE  /\ loop'[q].pc = "last keep" => \A e \in Due(q)' : Reaches(e, s, q)'
             /\ loop'[q].pc = "last show" => Due(q)' \subseteq Range(shown'[s]) \cup Range(Taken(q, s)')
             /\ loop'[q].pc \in {"withdraw", "done"} => Due(q)' \subseteq Range(shown'[s])
  <2>1. s \notin raced /\ Range(shown[s]) \subseteq Range(shown'[s])
        /\ \A e : Reaches(e, s, q) => Reaches(e, s, q)'
    BY <1>1, <1>5 DEF Carries
  <2>2. Due(q)' \subseteq Due(q)
    BY <1>5
  <2>3. /\ loop[q].pc = "last keep" => \A e \in Due(q) : Reaches(e, s, q)
        /\ loop[q].pc = "last show" => Due(q) \subseteq Range(shown[s]) \cup Range(Taken(q, s))
        /\ loop[q].pc \in {"withdraw", "done"} => Due(q) \subseteq Range(shown[s])
    BY <1>5, <2>1 DEF DueIsShown
  <2> QED BY <1>3, <2>1, <2>2, <2>3
<1>6. DueIsShown(q)'
  BY <1>2, <1>5 DEF DueIsShown
<1> QED BY <1>4, <1>6

LEMMA HistoryStays ==
    ASSUME NEW s \in Sessions, HistoryShown(s), UNCHANGED mix, opener'[s] = opener[s], Carries(s),
           loaded'[s] = loaded[s], Range(sent[s]) \subseteq Range(sent'[s])
    PROVE  HistoryShown(s)'
<1>1. Past' = Past
  BY DEF Past
<1>2. s \notin raced' => /\ s \notin raced /\ Range(shown[s]) \subseteq Range(shown'[s])
                         /\ \A e : Reaches(e, s, s) => Reaches(e, s, s)'
  BY DEF Carries
<1> QED BY <1>1, <1>2 DEF HistoryShown

\* A prompt in the pipe after a step is one that was, with no more before it.
PipeKept ==
    \E n \in Nat : \A i \in DOMAIN toAgent' : toAgent'[i].kind = "prompt" =>
        i \in Nat /\ i + n \in DOMAIN toAgent /\ toAgent'[i] = toAgent[i + n]

LEMMA FirstsFrame ==
    ASSUME FirstsStart, PipeKept,
           \A q \in Prompts : /\ loop'[q].echo = loop[q].echo /\ (loop[q].pc # "idle" => loop'[q].pc # "idle")
                              /\ loop[q].echo = "first" => turn'[q].with = turn[q].with,
           \A s \in Sessions : session'[s] # None =>
               session'[s].turn = None \/ (session[s] # None /\ session'[s].turn = session[s].turn)
    PROVE  FirstsStart'
<1> SUFFICES ASSUME NEW p \in Prompts, loop'[p].echo = "first" PROVE FindsNoTurn(p)'
  BY DEF FirstsStart, FindsNoTurn
<1> DEFINE s == Job[p].session
<1>0. s \in Sessions
  BY JobTyped
<1>1. /\ loop[p].pc # "idle" /\ turn[p].with = None
      /\ \A i \in DOMAIN toAgent : toAgent[i].kind = "prompt" /\ toAgent[i].prompt = p =>
              /\ session[s] # None => session[s].turn = None
              /\ \A j \in DOMAIN toAgent : j < i /\ toAgent[j].kind = "prompt" => Job[toAgent[j].prompt].session # s
  BY DEF FirstsStart, FindsNoTurn
<1>2. PICK n \in Nat : \A i \in DOMAIN toAgent' : toAgent'[i].kind = "prompt" =>
        i \in Nat /\ i + n \in DOMAIN toAgent /\ toAgent'[i] = toAgent[i + n]
  BY DEF PipeKept
<1>3. ASSUME NEW i \in DOMAIN toAgent', toAgent'[i].kind = "prompt", toAgent'[i].prompt = p
      PROVE  /\ session'[s] # None => session'[s].turn = None
             /\ \A j \in DOMAIN toAgent' : j < i /\ toAgent'[j].kind = "prompt" => Job[toAgent'[j].prompt].session # s
  <2>1. i \in Nat /\ i + n \in DOMAIN toAgent /\ toAgent'[i] = toAgent[i + n]
    BY <1>2, <1>3
  <2>2. /\ session[s] # None => session[s].turn = None
        /\ \A j \in DOMAIN toAgent : j < i + n /\ toAgent[j].kind = "prompt" => Job[toAgent[j].prompt].session # s
    BY <1>1, <1>3, <2>1
  <2>3. ASSUME NEW j \in DOMAIN toAgent', j < i, toAgent'[j].kind = "prompt"
        PROVE  Job[toAgent'[j].prompt].session # s
    <3>1. j \in Nat /\ j + n \in DOMAIN toAgent /\ toAgent'[j] = toAgent[j + n]
      BY <1>2, <2>3
    <3>2. j + n < i + n
      BY <2>1, <2>3, <3>1
    <3> QED BY <2>2, <2>3, <3>1, <3>2
  <2> QED BY <1>0, <2>2, <2>3
<1> QED BY <1>1, <1>3 DEF FindsNoTurn

LEMMA PipeSame ==
    ASSUME toAgent \in Seq(Messages), UNCHANGED toAgent
    PROVE  PipeKept
<1>1. ASSUME NEW i \in DOMAIN toAgent
      PROVE  i \in Nat /\ i + 0 = i
  BY InSeq
<1>2. 0 \in Nat
  OBVIOUS
<1> QED BY <1>1, <1>2 DEF PipeKept

\* A step of the window that leaves the agent, and what it has sent, alone.
LEMMA WindowFrame ==
    ASSUME SInv, UNCHANGED <<mix, events, session, turn, reply, sent>>,
           StreamTypes', OrderInv', HandsFit', \A s \in Sessions : Kept2(s),
           PromptsShown', HistoriesShown', FirstsStart'
    PROVE  SInv'
<1>1. Origin'
  BY OriginFrame DEF SInv
<1>2. FlowInv'
  BY FlowFrame DEF SInv
<1> QED BY <1>1, <1>2 DEF SInv, Pipeline

-----------------------------------------------------------------------------
(***************************************************************************)
(* The commands of a prompt.                                                *)
(***************************************************************************)

\* What a command does to its record, every field of it.
Becoming(l, pc, held, taken, result, echo) ==
    l.pc = pc /\ l.held = held /\ l.taken = taken /\ l.result = result /\ l.echo = echo

LEMMA FieldsAre ==
    ASSUME NEW l, l = LoopOf(l)
    PROVE  /\ \A h, pc : Becoming(Drained(l, h, pc), pc, h, l.taken, l.result, l.echo)
           /\ \A t, pc : Becoming(Kept(l, t, pc), pc, Nothing, t, l.result, l.echo)
           /\ Becoming(ShownAll(l), "withdraw", l.held, <<>>, l.result, l.echo)
           /\ \A asks : Becoming(Parking(l, asks), "park", l.held, <<>>, l.result, l.echo)
           /\ Becoming(Failed(l), "withdraw", l.held, l.taken, "error", l.echo)
           /\ Becoming(ShownFailed(l), "withdraw", l.held, <<>>, "error", l.echo)
           /\ \A pc, r : Becoming(Looked(l, pc, r), pc, l.held, l.taken, r, l.echo)
           /\ Becoming(Finished(l), "done", l.held, l.taken, l.result, l.echo)
           /\ \A e : Becoming(Sent(l, e), "look", l.held, l.taken, l.result, e)
<1>1. PICK a, b, c, d, e, f : l = [pc |-> a, held |-> b, taken |-> c, asks |-> d, result |-> e, echo |-> f]
  BY DEF LoopOf
<1>2. \A h, pc : Becoming(Drained(l, h, pc), pc, h, l.taken, l.result, l.echo)
  BY <1>1 DEF Becoming, Drained, WithPc, WithHeld
<1>3. \A t, pc : Becoming(Kept(l, t, pc), pc, Nothing, t, l.result, l.echo)
  BY <1>1 DEF Becoming, Kept, WithPc, WithHeld, WithTaken
<1>4. Becoming(ShownAll(l), "withdraw", l.held, <<>>, l.result, l.echo)
  BY <1>1 DEF Becoming, ShownAll, WithPc, WithTaken
<1>5. \A asks : Becoming(Parking(l, asks), "park", l.held, <<>>, l.result, l.echo)
  BY <1>1 DEF Becoming, Parking, WithPc, WithTaken, WithAsks
<1>6. Becoming(Failed(l), "withdraw", l.held, l.taken, "error", l.echo)
  BY <1>1 DEF Becoming, Failed, WithPc, WithResult
<1>7. Becoming(ShownFailed(l), "withdraw", l.held, <<>>, "error", l.echo)
  BY <1>1 DEF Becoming, ShownFailed, WithPc, WithTaken, WithResult
<1>8. \A pc, r : Becoming(Looked(l, pc, r), pc, l.held, l.taken, r, l.echo)
  BY <1>1 DEF Becoming, Looked, WithPc, WithAsks, WithResult
<1>9. Becoming(Finished(l), "done", l.held, l.taken, l.result, l.echo)
  BY <1>1 DEF Becoming, Finished, WithPc
<1>10. \A x : Becoming(Sent(l, x), "look", l.held, l.taken, l.result, x)
  BY <1>1 DEF Becoming, Sent, WithPc, WithEcho
<1> QED BY <1>2, <1>3, <1>4, <1>5, <1>6, <1>7, <1>8, <1>9, <1>10

\* One command moves.
Goes1(p, c) == loop'[p] = c /\ (\A q \in Prompts : q # p => loop'[q] = loop[q])

LEMMA OneCommand ==
    ASSUME LoopShape, NEW p \in Prompts, NEW c, loop' = [loop EXCEPT ![p] = c]
    PROVE  Goes1(p, c)
BY LoopIs DEF Goes1

LEMMA HandsMove ==
    ASSUME NEW p \in Prompts, NEW c, Goes1(p, c), UNCHANGED opener
    PROVE  /\ Hand(p)' = c.held
           /\ \A s \in Sessions : Taken(p, s)' = IF Job[p].session = s THEN c.taken ELSE <<>>
           /\ \A y \in Movers : y # p => SameHand(y)
<1>1. HandsAre /\ HandsAre'
  BY HandsTheirs, HandsNext
<1>2. Hand(p)' = c.held /\ \A s \in Sessions : Taken(p, s)' = IF Job[p].session = s THEN c.taken ELSE <<>>
  BY <1>1 DEF HandsAre, Goes1
<1>3. ASSUME NEW y \in Prompts, y # p
      PROVE  SameHand(y)
  BY <1>1, <1>3 DEF HandsAre, Goes1, SameHand
<1>4. ASSUME NEW y \in Sessions
      PROVE  SameHand(y)
  BY <1>1 DEF HandsAre, SameHand
<1> QED BY <1>2, <1>3, <1>4 DEF Movers

\* A command that moves and leaves the rest: what is left to show of it.
LEMMA CommandFrame ==
    ASSUME SInv, Shape, NEW p \in Prompts, NEW c, Goes1(p, c),
           UNCHANGED <<mix, events, session, turn, reply, sent, loaded, opener, toAgent>>,
           StreamTypes', OrderInv', \A s \in Sessions : Kept2(s),
           c.pc \notin {"keep", "last keep"} => c.held = Nothing,
           c.pc \notin {"show", "last show"} => c.taken = <<>>,
           c.echo = loop[p].echo, c.pc # "idle",
           \A y \in Movers : y # p => Carries(y),
           (DueIsShown(p) /\ ClosedWhen(p))'
    PROVE  SInv'
<1>1. /\ loop'[p] = c /\ \A q \in Prompts : q # p => loop'[q] = loop[q]
  BY DEF Goes1
<1>2. HandsFit'
  BY <1>1 DEF SInv, Pipeline, HandsFit
<1>3. PromptsShown'
  <2> SUFFICES ASSUME NEW q \in Prompts PROVE (DueIsShown(q) /\ ClosedWhen(q))'
    BY DEF PromptsShown
  <2>1. CASE q = p
    BY <2>1
  <2>2. CASE q # p
    <3>1. q \in Movers /\ DueIsShown(q) /\ ClosedWhen(q)
      BY DEF Movers, SInv, PromptsShown
    <3>2. Due(q)' \subseteq Due(q)
      BY DEF Due
    <3>3. loop'[q] = loop[q] /\ Carries(q)
      BY <1>1, <2>2, <3>1
    <3> QED BY <3>1, <3>2, <3>3, ShownStays
  <2> QED BY <2>1, <2>2
<1>4. HistoriesShown'
  <2> SUFFICES ASSUME NEW s \in Sessions PROVE HistoryShown(s)'
    BY DEF HistoriesShown
  <2>1. s \in Movers /\ s # p /\ HistoryShown(s)
    BY AcpAssumption DEF Movers, SInv, HistoriesShown
  <2> QED BY <2>1, HistoryStays
<1>5. FirstsStart'
  <2>1. PipeKept
    BY PipeSame DEF Shape, AgentTypes
  <2>2. \A q \in Prompts : loop'[q].echo = loop[q].echo /\ (loop[q].pc # "idle" => loop'[q].pc # "idle")
    BY <1>1
  <2> QED BY <2>1, <2>2, FirstsFrame DEF SInv
<1> QED BY <1>2, <1>3, <1>4, <1>5, WindowFrame

\* What the invariants say, for one command.
LEMMA Parts ==
    ASSUME SInv, IInv
    PROVE  /\ AgentTypes /\ StreamTypes /\ OrderInv /\ HandsFit /\ events \in [Prompts -> Lists] /\ Shape
           /\ LoopShape /\ OpenerShape /\ Origin /\ Turning /\ Commands /\ PromptsInThePipe
           /\ \A p \in Prompts : /\ DueIsShown(p) /\ ClosedWhen(p) /\ loop[p] = LoopOf(loop[p])
                                 /\ Job[p].session \in Sessions /\ p \in Movers /\ p \notin Sessions
           /\ \A s \in Sessions : HistoryShown(s) /\ s \in Movers /\ s \notin Prompts
<1>1. /\ AgentTypes /\ StreamTypes /\ OrderInv /\ HandsFit /\ events \in [Prompts -> Lists] /\ Shape
      /\ LoopShape /\ OpenerShape /\ Origin /\ Turning /\ Commands /\ PromptsInThePipe
  BY DEF SInv, Pipeline, Origin, TurnsSay, IInv, Shape, WindowTypes, Stopping
<1>2. \A p \in Prompts : p \notin Sessions
  BY AcpAssumption
<1>3. \A p \in Prompts : loop[p] = LoopOf(loop[p])
  BY <1>1, LoopIs
<1> QED BY <1>1, <1>2, <1>3, JobTyped DEF Movers, SInv, PromptsShown, HistoriesShown

\* A command that moves and takes nothing.
LEMMA StillSession ==
    ASSUME AgentTypes, StreamTypes, events \in [Prompts -> Lists], Still, NEW s \in Sessions, SameSource(s)
    PROVE  Kept2(s)
<1>1. Unmoved(s)
  BY DEF Still, SameHand, Unmoved
<1> QED BY <1>1, StillKept

LEMMA QuietStreams ==
    ASSUME SInv, IInv, NEW p \in Prompts, NEW c, Goes1(p, c), Still,
           UNCHANGED <<mix, events, session, turn, reply, sent, loaded, opener, toAgent>>,
           c.pc \notin {"keep", "last keep"} /\ c.held = Nothing,
           c.pc \notin {"show", "last show"} /\ c.taken = <<>>,
           c.echo = loop[p].echo, c.pc # "idle",
           (DueIsShown(p) /\ ClosedWhen(p))'
    PROVE  SInv'
<1>1. AgentTypes /\ StreamTypes /\ OrderInv /\ events \in [Prompts -> Lists] /\ Shape
  BY Parts
<1>2. StreamTypes' /\ OrderInv'
  BY <1>1, StillFlows
<1>3. \A s \in Sessions : SameSource(s)
  BY SameSources
<1>4. \A s \in Sessions : Kept2(s)
  BY <1>1, <1>3, StillSession
<1>5. \A y \in Movers : y # p => Carries(y)
  BY <1>1, StillCarries
<1> QED BY <1>1, <1>2, <1>4, <1>5, CommandFrame

LEMMA FailedStreams ==
    ASSUME SInv, IInv, NEW p \in Prompts, NEW c, Goes1(p, c), Still,
           UNCHANGED <<mix, events, session, turn, reply, sent, loaded, opener, toAgent>>,
           c.pc = "withdraw", c.held = Nothing, c.taken = <<>>, c.result \in {None, "error", "unheard"},
           c.echo = loop[p].echo
    PROVE  SInv'
<1>1. loop'[p] = c
  BY DEF Goes1
<1>2. (DueIsShown(p) /\ ClosedWhen(p))'
  BY <1>1 DEF DueIsShown, ClosedWhen, Closed
<1> QED BY <1>2, QuietStreams

\* Whoever drains when nobody else holds updates of a session reaches all of it.
LEMMA DrainReaches ==
    ASSUME StreamTypes, OrderInv, NEW x \in Movers, NEW own \in Sessions, Draws(x, own),
           own \notin raced', NEW e \in Range(sent[own])
    PROVE  Reaches(e, own, x)'
<1>1. /\ engine /\ UNCHANGED <<inbox, shown, sent, engine>>
      /\ Hand(x) = Nothing /\ \A s \in Sessions : Taken(x, s) = <<>>
      /\ Hand(x)' = updates
  BY DEF Draws, EmptyHanded
<1>2. raced \subseteq raced' /\ Holders(own) \ {x} = {}
  BY RaceTyped DEF Draws
<1>3. PICK y \in Movers : InOrder(own, y)
  BY <1>2 DEF OrderInv
<1>4. InOrder(own, x)
  BY <1>2, <1>3, NoOther
<1>5. sent[own] = Whole(shown[own], Taken(x, own), inbox[own], Hand(x)[own], updates[own])
  BY <1>1, <1>4 DEF InOrder
<1>6. /\ updates[own] \in Lists /\ inbox[own] \in Lists /\ shown[own] \in Lists
      /\ Taken(x, own) \in Lists /\ Hand(x)[own] \in Lists
  BY ListOf
<1>7. Range(sent[own]) = Range(shown[own]) \cup Range(Taken(x, own)) \cup Range(inbox[own])
                             \cup Range(Hand(x)[own]) \cup Range(updates[own])
  <2>1. PICK a \in Lists, t \in Lists, b \in Lists, h \in Lists, r \in Lists :
            a = shown[own] /\ t = Taken(x, own) /\ b = inbox[own] /\ h = Hand(x)[own] /\ r = updates[own]
    BY <1>6
  <2>2. Range(Whole(a, t, b, h, r)) = Range(a) \cup Range(t) \cup Range(b) \cup Range(h) \cup Range(r)
    BY WholeList
  <2> QED BY <1>5, <2>1, <2>2
<1>8. Range(Taken(x, own)) = {} /\ Range(Hand(x)[own]) = {}
  BY <1>1, EmptyRange, EmptyList
<1> QED BY <1>1, <1>7, <1>8 DEF Reaches

LEMMA DrainStreams ==
    ASSUME SInv, IInv, NEW p \in Prompts, Drain(p)
    PROVE  SInv'
<1> DEFINE s == Job[p].session
<1>0. /\ AgentTypes /\ StreamTypes /\ OrderInv /\ HandsFit /\ events \in [Prompts -> Lists] /\ Shape /\ LoopShape
      /\ DueIsShown(p) /\ ClosedWhen(p) /\ loop[p] = LoopOf(loop[p])
      /\ s \in Sessions /\ p \in Movers
  BY Parts
<1>1. /\ loop[p].pc \in {"look", "last"}
      /\ UNCHANGED <<mix, events, session, turn, reply, sent, loaded, opener, toAgent>>
      /\ UNCHANGED <<inbox, shown, engine>>
  BY DEF Drain, AcpUntouched
<1>2. loop[p].held = Nothing /\ loop[p].taken = <<>>
  BY <1>0, <1>1 DEF HandsFit
<1>3. \A z \in Sessions : SameSource(z)
  BY <1>1, SameSources
<1>4. Hand(p) = Nothing /\ EmptyHanded(p)
  BY <1>0, <1>2, HandsTheirs DEF HandsAre, EmptyHanded
<1>5. CASE engine
  <2>1. PICK pc \in {"last keep", "keep"} : pc = IF loop[p].pc = "last" THEN "last keep" ELSE "keep"
    OBVIOUS
  <2>2. loop' = [loop EXCEPT ![p].held = updates, ![p].pc = pc]
        /\ updates' = Nothing /\ Race(p, s, updates)
    BY <1>5, <2>1 DEF Drain
  <2>3. PICK h : h = updates
    OBVIOUS
  <2>4. PICK c : c = Drained(loop[p], h, pc)
    OBVIOUS
  <2>5. loop' = [loop EXCEPT ![p] = c]
    BY <2>2, <2>3, <2>4 DEF Drained, WithPc, WithHeld
  <2>6. Becoming(c, pc, h, loop[p].taken, loop[p].result, loop[p].echo)
    BY <1>0, <2>4, FieldsAre
  <2>7. c.pc = pc /\ c.held = updates /\ c.taken = <<>> /\ c.result = loop[p].result /\ c.echo = loop[p].echo
    BY <1>2, <2>3, <2>6 DEF Becoming
  <2>8. Goes1(p, c)
    BY <1>0, <2>5, OneCommand
  <2>9. Draws(p, s)
    <3>1. Hand(p)' = updates /\ \A z \in Sessions : Taken(p, z)' = <<>>
      BY <1>1, <2>7, <2>8, HandsMove
    <3>2. \A y \in Movers : y # p => SameHand(y)
      BY <1>1, <2>8, HandsMove
    <3> QED BY <1>1, <1>4, <1>5, <2>2, <3>1, <3>2 DEF Draws
  <2>10. StreamTypes' /\ OrderInv'
    BY <1>0, <2>9, DrawFlows
  <2>11. \A z \in Sessions : Kept2(z)
    BY <1>0, <1>3, <2>9, DrawKept
  <2>12. \A y \in Movers : y # p => Carries(y)
    BY <1>0, <2>9, DrawCarries
  <2>13. loop'[p] = c
    BY <2>8 DEF Goes1
  <2>14. ClosedWhen(p)'
    BY <1>0, <1>1, <2>1, <2>7, <2>13 DEF ClosedWhen, Closed
  <2>15. DueIsShown(p)'
    <3>1. Due(p)' = Due(p)
      BY <1>1 DEF Due
    <3>2. ASSUME s \notin raced', NEW e \in Due(p)
          PROVE  Reaches(e, s, p)'
      <4>1. e \in Range(sent[s])
        BY DEF Due
      <4> QED BY <1>0, <2>9, <3>2, <4>1, DrainReaches
    <3>3. c.pc \notin {"last show", "withdraw", "done"}
      BY <2>1, <2>7
    <3> QED BY <2>13, <3>1, <3>2, <3>3 DEF DueIsShown
  <2>16. c.pc \notin {"show", "last show"} /\ c.pc \in {"keep", "last keep"} /\ c.pc # "idle"
    BY <2>1, <2>7
  <2> HIDE DEF s
  <2> QED BY <1>0, <1>1, <2>7, <2>8, <2>10, <2>11, <2>12, <2>14, <2>15, <2>16, CommandFrame
<1>6. CASE ~engine
  <2>1. loop' = [loop EXCEPT ![p].pc = "withdraw", ![p].result = "error"] /\ UNCHANGED <<updates, raced>>
    BY <1>6 DEF Drain
  <2>2. PICK c : c = Failed(loop[p])
    OBVIOUS
  <2>3. loop' = [loop EXCEPT ![p] = c]
    BY <2>1, <2>2 DEF Failed, WithPc, WithResult
  <2>4. Becoming(c, "withdraw", loop[p].held, loop[p].taken, "error", loop[p].echo)
    BY <1>0, <2>2, FieldsAre
  <2>5. c.pc = "withdraw" /\ c.held = Nothing /\ c.taken = <<>> /\ c.result = "error" /\ c.echo = loop[p].echo
    BY <1>2, <2>4 DEF Becoming
  <2>6. Goes1(p, c)
    BY <1>0, <2>3, OneCommand
  <2>7. Still
    <3>1. SameHand(p)
      BY <1>1, <1>4, <2>5, <2>6, HandsMove DEF SameHand, EmptyHanded
    <3>2. \A y \in Movers : y # p => SameHand(y)
      BY <1>1, <2>6, HandsMove
    <3> QED BY <1>1, <2>1, <3>1, <3>2 DEF Still
  <2> QED BY <1>0, <1>1, <1>3, <2>5, <2>6, <2>7, FailedStreams
<1> QED BY <1>5, <1>6

LEMMA KeepStreams ==
    ASSUME SInv, IInv, NEW p \in Prompts, Keep(p)
    PROVE  SInv'
<1> DEFINE s == Job[p].session
<1>0. /\ AgentTypes /\ StreamTypes /\ OrderInv /\ HandsFit /\ events \in [Prompts -> Lists] /\ Shape /\ LoopShape
      /\ DueIsShown(p) /\ ClosedWhen(p) /\ loop[p] = LoopOf(loop[p])
      /\ s \in Sessions /\ p \in Movers
  BY Parts
<1>1. /\ loop[p].pc \in {"keep", "last keep"}
      /\ UNCHANGED <<mix, events, session, turn, reply, sent, loaded, opener, toAgent>>
      /\ UNCHANGED <<updates, shown, engine>> /\ Race(p, s, loop[p].held)
      /\ inbox' = [Absorb(loop[p].held) EXCEPT ![s] = <<>>]
  BY DEF Keep, AcpUntouched
<1>2. loop[p].taken = <<>>
  BY <1>0, <1>1 DEF HandsFit
<1>3. \A z \in Sessions : SameSource(z)
  BY <1>1, SameSources
<1>4. Hand(p) = loop[p].held /\ EmptyHanded(p)
  BY <1>0, <1>2, HandsTheirs DEF HandsAre, EmptyHanded
<1>5. PICK pc \in {"show", "last show"} : pc = IF loop[p].pc = "keep" THEN "show" ELSE "last show"
  OBVIOUS
<1>6. PICK t : t = Absorb(Hand(p))[s]
  OBVIOUS
<1>7. loop' = [loop EXCEPT ![p].held = Nothing, ![p].taken = t, ![p].pc = pc]
  BY <1>4, <1>5, <1>6 DEF Keep
<1>8. PICK c : c = Kept(loop[p], t, pc)
  OBVIOUS
<1>9. loop' = [loop EXCEPT ![p] = c]
  BY <1>7, <1>8 DEF Kept, WithPc, WithHeld, WithTaken
<1>10. c.pc = pc /\ c.held = Nothing /\ c.taken = t /\ c.result = loop[p].result /\ c.echo = loop[p].echo
  <2>1. Becoming(c, pc, Nothing, t, loop[p].result, loop[p].echo)
    BY <1>0, <1>8, FieldsAre
  <2> QED BY <2>1 DEF Becoming
<1>11. Goes1(p, c)
  BY <1>0, <1>9, OneCommand
<1>12. /\ Hand(p)' = Nothing
       /\ \A z \in Sessions : Taken(p, z)' = IF s = z THEN t ELSE <<>>
       /\ \A y \in Movers : y # p => SameHand(y)
  BY <1>1, <1>10, <1>11, HandsMove
<1>13. Stows(p, s) /\ Takes(p, s)
  <2>1. Stows(p, s)
    BY <1>1, <1>4, <1>12 DEF Stows
  <2>2. Takes(p, s)
    BY <1>1, <1>6, <1>12 DEF Takes
  <2> QED BY <2>1, <2>2
<1>14. StreamTypes' /\ OrderInv'
  BY <1>0, <1>13, KeepFlows
<1>15. \A z \in Sessions : Kept2(z)
  BY <1>0, <1>3, <1>13, KeepKept
<1>16. \A y \in Movers : y # p => Carries(y)
  BY <1>0, <1>13, StowCarries
<1>17. loop'[p] = c
  BY <1>11 DEF Goes1
<1>18. ClosedWhen(p)'
  BY <1>0, <1>1, <1>5, <1>10, <1>17 DEF ClosedWhen, Closed
<1>19. DueIsShown(p)'
  <2>1. Due(p)' = Due(p)
    BY <1>1 DEF Due
  <2>2. ASSUME s \notin raced', Closed(p)', loop'[p].pc = "last show", NEW e \in Due(p)
        PROVE  e \in Range(shown'[s]) \cup Range(Taken(p, s)')
    <3>1. raced \subseteq raced' /\ Holders(s) \ {p} = {}
      BY <1>0, <1>1, <2>2, RaceTyped
    <3>2. Closed(p) /\ loop[p].pc = "last keep"
      BY <1>1, <1>5, <1>10, <1>17, <2>2 DEF Closed
    <3>3. Reaches(e, s, p)
      BY <2>2, <3>1, <3>2, <1>0 DEF DueIsShown
    <3>4. \A y \in Movers : e \notin Range(Taken(y, s))
      <4>1. ASSUME NEW y \in Movers, Taken(y, s) # <<>>
            PROVE  FALSE
        <5>1. y \in Holders(s)
          BY <4>1 DEF Holders, Movers
        <5>2. y = p
          BY <3>1, <5>1
        <5> QED BY <1>0, <1>4, <4>1, <5>2 DEF EmptyHanded
      <4> QED BY <4>1, EmptyRange
    <3>5. Range(t) = Range(inbox[s]) \cup Range(Hand(p)[s])
      BY <1>0, <1>6, AbsorbIs
    <3> QED BY <1>0, <1>1, <1>12, <3>3, <3>4, <3>5 DEF Reaches
  <2>3. loop'[p].pc \in {"show", "last show"}
    BY <1>5, <1>10, <1>17
  <2>4. Due(p)' \subseteq Range(shown'[s]) \cup Range(Taken(p, s)') \/ s \in raced' \/ ~Closed(p)' \/ loop'[p].pc # "last show"
    BY <2>1, <2>2
  <2> QED BY <2>3, <2>4 DEF DueIsShown
<1>20. c.pc \notin {"keep", "last keep"} /\ c.pc \in {"show", "last show"} /\ c.pc # "idle"
  BY <1>5, <1>10
<1> HIDE DEF s
<1> QED BY <1>0, <1>1, <1>10, <1>11, <1>14, <1>15, <1>16, <1>18, <1>19, <1>20, CommandFrame

LEMMA ShowStreams ==
    ASSUME SInv, IInv, NEW p \in Prompts, Show(p)
    PROVE  SInv'
<1> DEFINE s == Job[p].session
<1>0. /\ AgentTypes /\ StreamTypes /\ OrderInv /\ HandsFit /\ events \in [Prompts -> Lists] /\ Shape /\ LoopShape
      /\ DueIsShown(p) /\ ClosedWhen(p) /\ loop[p] = LoopOf(loop[p])
      /\ s \in Sessions /\ p \in Movers
  BY Parts
<1>1. /\ loop[p].pc \in {"show", "last show"}
      /\ UNCHANGED <<mix, events, session, turn, reply, sent, loaded, opener, toAgent>>
      /\ UNCHANGED <<updates, inbox, raced, engine>>
      /\ shown' = [shown EXCEPT ![s] = @ \o loop[p].taken]
  BY DEF Show, AcpUntouched
<1>2. loop[p].held = Nothing
  BY <1>0, <1>1 DEF HandsFit
<1>3. \A z \in Sessions : SameSource(z)
  BY <1>1, SameSources
<1>4. Hand(p) = Nothing /\ \A z \in Sessions : Taken(p, z) = IF s = z THEN loop[p].taken ELSE <<>>
  BY <1>0, <1>2, HandsTheirs DEF HandsAre
<1>5. PICK c : /\ Goes1(p, c) /\ c.held = Nothing /\ c.taken = <<>> /\ c.echo = loop[p].echo
               /\ \/ loop[p].pc = "last show" /\ c.pc = "withdraw" /\ c.result = loop[p].result
                  \/ loop[p].pc # "last show" /\ c.pc = "park" /\ c.result = loop[p].result
                  \/ c.pc = "withdraw" /\ c.result = "error"
  <2>1. CASE loop[p].pc = "last show"
    <3>1. PICK c : c = ShownAll(loop[p])
      OBVIOUS
    <3>2. loop' = [loop EXCEPT ![p] = c]
      BY <2>1, <3>1 DEF Show, ShownAll, WithPc, WithTaken
    <3>3. Becoming(c, "withdraw", Nothing, <<>>, loop[p].result, loop[p].echo)
      BY <1>0, <1>2, <3>1, FieldsAre
    <3> QED BY <1>0, <2>1, <3>2, <3>3, OneCommand DEF Becoming
  <2>2. CASE loop[p].pc # "last show" /\ engine
    <3>1. PICK c : c = Parking(loop[p], cards)
      OBVIOUS
    <3>2. loop' = [loop EXCEPT ![p].taken = <<>>, ![p].asks = cards, ![p].pc = "park"]
      BY <2>2 DEF Show
    <3>3. loop' = [loop EXCEPT ![p] = c]
      BY <3>1, <3>2 DEF Parking, WithPc, WithTaken, WithAsks
    <3>4. Becoming(c, "park", Nothing, <<>>, loop[p].result, loop[p].echo)
      BY <1>0, <1>2, <3>1, FieldsAre
    <3> QED BY <1>0, <2>2, <3>3, <3>4, OneCommand DEF Becoming
  <2>3. CASE loop[p].pc # "last show" /\ ~engine
    <3>1. PICK c : c = ShownFailed(loop[p])
      OBVIOUS
    <3>2. loop' = [loop EXCEPT ![p].taken = <<>>, ![p].pc = "withdraw", ![p].result = "error"]
      BY <2>3 DEF Show
    <3>3. loop' = [loop EXCEPT ![p] = c]
      BY <3>1, <3>2 DEF ShownFailed, WithPc, WithTaken, WithResult
    <3>4. Becoming(c, "withdraw", Nothing, <<>>, "error", loop[p].echo)
      BY <1>0, <1>2, <3>1, FieldsAre
    <3> QED BY <1>0, <2>3, <3>3, <3>4, OneCommand DEF Becoming
  <2> QED BY <2>1, <2>2, <2>3
<1>6. Puts(p, s)
  <2>1. Hand(p)' = Nothing /\ \A z \in Sessions : Taken(p, z)' = <<>>
    BY <1>1, <1>5, HandsMove
  <2>2. \A y \in Movers : y # p => SameHand(y)
    BY <1>1, <1>5, HandsMove
  <2>3. shown' = [shown EXCEPT ![s] = @ \o Taken(p, s)]
    BY <1>0, <1>1, <1>4
  <2> QED BY <1>0, <1>1, <1>4, <2>1, <2>2, <2>3 DEF Puts
<1>7. StreamTypes' /\ OrderInv'
  BY <1>0, <1>6, PutFlows
<1>8. \A z \in Sessions : Kept2(z)
  BY <1>0, <1>3, <1>6, PutKept
<1>9. /\ \A y \in Movers : y # p => Carries(y)
      /\ Range(Taken(p, s)) \subseteq Range(shown'[s]) /\ Carries(p)
  BY <1>0, <1>6, PutCarries
<1>10. loop'[p] = c
  BY <1>5 DEF Goes1
<1>11. Closed(p)' => Closed(p) /\ loop[p].pc = "last show" /\ c.pc = "withdraw" /\ c.result = loop[p].result
  BY <1>0, <1>1, <1>5, <1>10 DEF ClosedWhen, Closed
<1>12. ClosedWhen(p)'
  BY <1>0, <1>1, <1>5, <1>10, <1>11 DEF ClosedWhen
<1>13. DueIsShown(p)'
  <2>1. Due(p)' = Due(p)
    BY <1>1 DEF Due
  <2>2. s \notin raced' => s \notin raced /\ Range(shown[s]) \subseteq Range(shown'[s])
    BY <1>0, <1>9 DEF Carries
  <2>3. s \notin raced' /\ Closed(p)' => Due(p) \subseteq Range(shown'[s])
    BY <1>0, <1>9, <1>11, <2>2 DEF DueIsShown
  <2>4. loop'[p].pc \notin {"last keep", "last show"}
    BY <1>5, <1>10
  <2> QED BY <2>1, <2>3, <2>4 DEF DueIsShown
<1>14. c.pc # "idle"
  BY <1>5
<1> HIDE DEF s
<1> QED BY <1>0, <1>1, <1>5, <1>7, <1>8, <1>9, <1>12, <1>13, <1>14, CommandFrame

\* A command that held nothing and holds nothing.
LEMMA SameMove ==
    ASSUME NEW p \in Prompts, loop[p].held = Nothing, loop[p].taken = <<>>,
           NEW c, Goes1(p, c), c.held = Nothing, c.taken = <<>>,
           UNCHANGED <<updates, inbox, shown, sent, raced, engine, opener>>
    PROVE  Still
<1>1. HandsAre
  BY HandsTheirs
<1>2. SameHand(p)
  <2>1. Hand(p)' = Hand(p)
    BY <1>1, HandsMove DEF HandsAre
  <2>2. \A s \in Sessions : Taken(p, s) = <<>>
    BY <1>1 DEF HandsAre
  <2>3. \A s \in Sessions : Taken(p, s)' = <<>>
    BY HandsMove
  <2> QED BY <2>1, <2>2, <2>3 DEF SameHand
<1>3. \A y \in Movers : y # p => SameHand(y)
  BY HandsMove
<1> QED BY <1>2, <1>3 DEF Still

LEMMA ParkStreams ==
    ASSUME SInv, IInv, NEW p \in Prompts, Park(p)
    PROVE  SInv'
<1>0. /\ HandsFit /\ LoopShape /\ ClosedWhen(p) /\ loop[p] = LoopOf(loop[p]) /\ p \in Movers
      /\ Job[p].session \in Sessions
  BY Parts
<1>1. /\ loop[p].pc = "park"
      /\ UNCHANGED <<mix, events, session, turn, reply, sent, loaded, opener, toAgent>>
      /\ UNCHANGED <<updates, inbox, shown, raced, engine>>
  BY DEF Park, AcpUntouched
<1>2. loop[p].held = Nothing /\ loop[p].taken = <<>>
  BY <1>0, <1>1 DEF HandsFit
<1>3. PICK pc, r :
         /\ loop' = [loop EXCEPT ![p].asks = <<>>, ![p].pc = pc, ![p].result = r]
         /\ pc = CASE reply[p] \notin {None, "error", "unheard"} -> "last"
                   [] reply[p] \in {"error", "unheard"} \/ Gone(p) -> "withdraw"
                   [] OTHER -> "look"
         /\ r = IF Gone(p) THEN "error" ELSE reply[p]
  BY DEF Park
<1>4. \/ pc = "last" /\ r = reply[p]
      \/ pc \in {"last", "withdraw", "look"} /\ r \in {None, "error", "unheard"}
  <2>1. CASE reply[p] \notin {None, "error", "unheard"}
    <3>1. ~(reply[p] \in {"error", "unheard"} \/ Gone(p))
      BY <2>1 DEF Gone
    <3> QED BY <1>3, <2>1, <3>1
  <2>2. CASE reply[p] \in {"error", "unheard"} \/ Gone(p)
    <3>1. ~(reply[p] \notin {None, "error", "unheard"})
      BY <2>2 DEF Gone
    <3>2. pc = "withdraw"
      BY <1>3, <2>2, <3>1
    <3> QED BY <1>3, <3>1, <3>2
  <2>3. CASE reply[p] \in {None, "error", "unheard"} /\ ~(reply[p] \in {"error", "unheard"} \/ Gone(p))
    <3>1. pc = "look"
      BY <1>3, <2>3
    <3> QED BY <1>3, <2>3, <3>1
  <2> QED BY <2>1, <2>2, <2>3
<1>5. PICK c : c = Looked(loop[p], pc, r)
  OBVIOUS
<1>6. loop' = [loop EXCEPT ![p] = c]
  <2>1. loop' = [loop EXCEPT ![p].asks = <<>>, ![p].pc = pc, ![p].result = r]
    BY <1>3
  <2> QED BY <1>5, <2>1 DEF Looked, WithPc, WithAsks, WithResult
<1>7. c.pc = pc /\ c.held = Nothing /\ c.taken = <<>> /\ c.result = r /\ c.echo = loop[p].echo
  <2>1. Becoming(c, pc, loop[p].held, loop[p].taken, r, loop[p].echo)
    BY <1>0, <1>5, FieldsAre
  <2> QED BY <1>2, <2>1 DEF Becoming
<1>8. Goes1(p, c) /\ loop'[p] = c
  BY <1>0, <1>6, OneCommand DEF Goes1
<1>9. Still
  BY <1>0, <1>1, <1>2, <1>7, <1>8, SameMove
<1>10. (DueIsShown(p) /\ ClosedWhen(p))'
  <2>1. Closed(p)' => pc = "last" /\ r = reply[p]
    BY <1>4, <1>7, <1>8 DEF Closed
  <2>2. ClosedWhen(p)'
    BY <1>1, <1>7, <1>8, <2>1 DEF ClosedWhen
  <2>3. DueIsShown(p)'
    BY <1>7, <1>8, <2>1 DEF DueIsShown
  <2> QED BY <2>2, <2>3
<1>11. c.pc \notin {"keep", "last keep", "show", "last show", "idle"}
  BY <1>4, <1>7
<1> QED BY <1>1, <1>7, <1>8, <1>9, <1>10, <1>11, QuietStreams

LEMMA WithdrawStreams ==
    ASSUME SInv, IInv, NEW p \in Prompts, WithdrawSession(p)
    PROVE  SInv'
<1>0. /\ HandsFit /\ LoopShape /\ StreamTypes /\ loop[p] = LoopOf(loop[p]) /\ p \in Movers
      /\ DueIsShown(p) /\ ClosedWhen(p) /\ Job[p].session \in Sessions
  BY Parts
<1>1. /\ loop[p].pc = "withdraw"
      /\ UNCHANGED <<mix, events, session, turn, reply, sent, loaded, opener, toAgent>>
      /\ UNCHANGED <<updates, inbox, shown, raced, engine>>
      /\ loop' = [loop EXCEPT ![p].pc = "done"]
  BY DEF WithdrawSession, AcpUntouched
<1>2. loop[p].held = Nothing /\ loop[p].taken = <<>>
  BY <1>0, <1>1 DEF HandsFit
<1>3. PICK c : c = Finished(loop[p])
  OBVIOUS
<1>4. loop' = [loop EXCEPT ![p] = c]
  BY <1>1, <1>3 DEF Finished, WithPc
<1>5. c.pc = "done" /\ c.held = Nothing /\ c.taken = <<>> /\ c.result = loop[p].result /\ c.echo = loop[p].echo
  <2>1. Becoming(c, "done", loop[p].held, loop[p].taken, loop[p].result, loop[p].echo)
    BY <1>0, <1>3, FieldsAre
  <2> QED BY <1>2, <2>1 DEF Becoming
<1>6. Goes1(p, c) /\ loop'[p] = c
  BY <1>0, <1>4, OneCommand DEF Goes1
<1>7. Still
  BY <1>0, <1>1, <1>2, <1>5, <1>6, SameMove
<1>8. (DueIsShown(p) /\ ClosedWhen(p))'
  <2>1. Closed(p)' = Closed(p) /\ Due(p)' = Due(p)
    BY <1>1, <1>5, <1>6 DEF Closed, Due
  <2>2. ClosedWhen(p)'
    BY <1>0, <1>1, <1>5, <1>6, <2>1 DEF ClosedWhen
  <2>3. DueIsShown(p)'
    BY <1>0, <1>1, <1>5, <1>6, <2>1 DEF DueIsShown
  <2> QED BY <2>2, <2>3
<1> QED BY <1>1, <1>5, <1>6, <1>7, <1>8, QuietStreams

-----------------------------------------------------------------------------
(***************************************************************************)
(* The person, and the rest of the window.                                   *)
(***************************************************************************)

\* A step that leaves the prompts' commands where they are.
LEMMA LoopsStay ==
    ASSUME SInv, IInv, UNCHANGED <<mix, events, session, turn, reply, sent, loop>>, PipeKept,
           StreamTypes', OrderInv', HandsFit', HistoriesShown',
           \A s \in Sessions : Kept2(s), \A q \in Prompts : Carries(q)
    PROVE  SInv'
<1>1. PromptsShown'
  <2> SUFFICES ASSUME NEW q \in Prompts PROVE (DueIsShown(q) /\ ClosedWhen(q))'
    BY DEF PromptsShown
  <2>1. DueIsShown(q) /\ ClosedWhen(q)
    BY Parts
  <2>2. Due(q)' \subseteq Due(q)
    BY DEF Due
  <2> QED BY <2>1, <2>2, ShownStays
<1>2. FirstsStart'
  BY FirstsFrame DEF SInv
<1> QED BY <1>1, <1>2, WindowFrame

LEMMA AllStill ==
    ASSUME UNCHANGED <<updates, inbox, shown, sent, raced, engine, loop, opener>>
    PROVE  Still
<1>1. HandsAre /\ HandsAre'
  BY HandsTheirs, HandsNext
<1>2. ASSUME NEW y \in Prompts
      PROVE  SameHand(y)
  BY <1>1 DEF HandsAre, SameHand
<1>3. ASSUME NEW y \in Sessions
      PROVE  SameHand(y)
  BY <1>1 DEF HandsAre, SameHand
<1> QED BY <1>2, <1>3 DEF Still, Movers

LEMMA HandsFitStay ==
    ASSUME HandsFit, UNCHANGED <<loop, opener>>
    PROVE  HandsFit'
BY DEF HandsFit

LEMMA PersonStreams ==
    ASSUME SInv, IInv, PipeKept,
           UNCHANGED <<mix, events, session, turn, reply, sent, loaded, loop, opener>>,
           UNCHANGED <<updates, inbox, shown, raced, engine>>
    PROVE  SInv'
<1>0. AgentTypes /\ StreamTypes /\ OrderInv /\ HandsFit /\ events \in [Prompts -> Lists]
  BY Parts
<1>1. Still
  BY AllStill
<1>2. StreamTypes' /\ OrderInv' /\ HandsFit'
  BY <1>0, <1>1, StillFlows, HandsFitStay
<1>3. \A s \in Sessions : SameSource(s)
  BY SameSources
<1>4. \A s \in Sessions : Kept2(s)
  BY <1>0, <1>1, <1>3, StillSession
<1>5. \A y \in Movers : Carries(y)
  BY <1>0, <1>1, StillCarries
<1>6. HistoriesShown'
  <2> SUFFICES ASSUME NEW s \in Sessions PROVE HistoryShown(s)'
    BY DEF HistoriesShown
  <2>1. HistoryShown(s) /\ s \in Movers
    BY Parts
  <2> QED BY <1>5, <2>1, HistoryStays
<1> QED BY <1>2, <1>4, <1>5, <1>6, LoopsStay DEF Movers

\* What is appended to the pipe and is no prompt, and a pipe that is gone.
LEMMA PipeAppended ==
    ASSUME toAgent \in Seq(Messages), NEW m, m.kind # "prompt", toAgent' = Append(toAgent, m)
    PROVE  PipeKept
<1>1. Len(toAgent) \in Nat /\ DOMAIN toAgent = 1 .. Len(toAgent)
  OBVIOUS
<1>2. DOMAIN toAgent' = 1 .. Len(toAgent) + 1 /\ toAgent'[Len(toAgent) + 1] = m
      /\ \A i \in 1 .. Len(toAgent) : toAgent'[i] = toAgent[i]
  BY <1>1
<1>3. ASSUME NEW i \in DOMAIN toAgent', toAgent'[i].kind = "prompt"
      PROVE  i \in Nat /\ i + 0 \in DOMAIN toAgent /\ toAgent'[i] = toAgent[i + 0]
  <2>1. i \in 1 .. Len(toAgent)
    BY <1>1, <1>2, <1>3
  <2>2. i \in Nat /\ i + 0 = i
    BY <1>1, <2>1
  <2> QED BY <1>1, <1>2, <2>1, <2>2
<1>4. 0 \in Nat
  OBVIOUS
<1> QED BY <1>3, <1>4 DEF PipeKept

LEMMA PipeGone ==
    ASSUME toAgent' = <<>>
    PROVE  PipeKept
<1>1. DOMAIN toAgent' = {} /\ 0 \in Nat
  OBVIOUS
<1> QED BY <1>1 DEF PipeKept

LEMMA MessageOf ==
    ASSUME NEW k, NEW x
    PROVE  \E m : m = [kind |-> k, session |-> x] /\ m.kind = k
<1>1. WITNESS [kind |-> k, session |-> x]
<1> QED OBVIOUS

LEMMA ReloadStreams ==
    ASSUME SInv, IInv, NEW s \in Sessions, Reload(s)
    PROVE  SInv'
<1>1. toAgent = <<>> /\ toAgent' = <<[kind |-> "load", session |-> s]>>
  BY DEF Reload
<1>2. PICK m : m = [kind |-> "load", session |-> s] /\ m.kind = "load"
  BY MessageOf
<1>3. toAgent' = Append(toAgent, m) /\ toAgent \in Seq(Messages)
  <2>1. <<m>> = Append(<<>>, m)
    OBVIOUS
  <2>2. toAgent \in Seq(Messages)
    BY Parts DEF AgentTypes
  <2>3. toAgent' = <<m>> /\ toAgent = <<>>
    BY <1>1, <1>2
  <2> QED BY <2>1, <2>2, <2>3
<1>4. PipeKept
  BY <1>2, <1>3, PipeAppended
<1> QED BY <1>4, PersonStreams DEF Reload, AcpUntouched, windowVars

LEMMA TellAgentStreams ==
    ASSUME SInv, IInv, TellAgent
    PROVE  SInv'
<1>1. toAgent \in Seq(Messages)
  BY Parts DEF AgentTypes
<1>2. PICK m : m = [kind |-> "cancel", session |-> stopping] /\ m.kind = "cancel"
  BY MessageOf
<1>3. toAgent' = Append(toAgent, m) \/ toAgent' = toAgent
  BY <1>2 DEF TellAgent
<1>4. PipeKept
  BY <1>1, <1>2, <1>3, PipeAppended, PipeSame
<1> QED BY <1>4, PersonStreams DEF TellAgent, AcpUntouched

LEMMA QuietPersonStreams ==
    ASSUME SInv, IInv, UNCHANGED toAgent,
           UNCHANGED <<mix, events, session, turn, reply, sent, loaded, loop, opener>>,
           UNCHANGED <<updates, inbox, shown, raced, engine>>
    PROVE  SInv'
<1>1. PipeKept
  BY Parts, PipeSame DEF AgentTypes
<1> QED BY <1>1, PersonStreams

LEMMA ClickStreams ==
    ASSUME SInv, IInv, NEW a \in Asks, NEW choice, Click(a, choice)
    PROVE  SInv'
BY QuietPersonStreams DEF Click, AcpUntouched

LEMMA StopStreams == ASSUME SInv, IInv, Stop PROVE SInv'
BY QuietPersonStreams DEF Stop, AcpUntouched

LEMMA GiveUpStreams == ASSUME SInv, IInv, NEW a \in Asks, GiveUp(a) PROVE SInv'
BY QuietPersonStreams DEF GiveUp, AcpUntouched, windowVars

LEMMA AgentDiesStreams == ASSUME SInv, IInv, AgentDies PROVE SInv'
<1>1. PipeKept
  BY PipeGone DEF AgentDies
<1> QED BY <1>1, PersonStreams DEF AgentDies, windowVars

LEMMA DisconnectStreams == ASSUME SInv, IInv, Disconnect PROVE SInv'
<1>0. AgentTypes /\ StreamTypes /\ OrderInv /\ HandsFit /\ events \in [Prompts -> Lists]
  BY Parts
<1>1. /\ UNCHANGED <<mix, session, turn, events, reply, loaded, sent, loop, opener, shown>>
      /\ engine' = FALSE /\ inbox' = Nothing /\ updates' = Nothing
      /\ raced' = raced \cup {s \in Sessions : inbox[s] # <<>>}
  BY DEF Disconnect
<1>2. Forgets
  <2>1. HandsAre /\ HandsAre'
    BY HandsTheirs, HandsNext
  <2>2. ASSUME NEW y \in Prompts
        PROVE  SameHand(y)
    BY <1>1, <2>1 DEF HandsAre, SameHand
  <2>3. ASSUME NEW y \in Sessions
        PROVE  SameHand(y)
    BY <1>1, <2>1 DEF HandsAre, SameHand
  <2> QED BY <1>1, <2>2, <2>3 DEF Forgets, Movers
<1>3. StreamTypes' /\ OrderInv' /\ HandsFit'
  BY <1>0, <1>1, <1>2, ForgetFlows, HandsFitStay
<1>4. \A s \in Sessions : SameSource(s)
  BY <1>1, SameSources
<1>5. \A s \in Sessions : Kept2(s)
  BY <1>0, <1>2, <1>4, ForgetKept
<1>6. \A y \in Movers : Carries(y)
  BY <1>0, <1>2, StillCarries
<1>7. HistoriesShown'
  <2> SUFFICES ASSUME NEW s \in Sessions PROVE HistoryShown(s)'
    BY DEF HistoriesShown
  <2>1. HistoryShown(s) /\ s \in Movers
    BY Parts
  <2> QED BY <1>1, <1>6, <2>1, HistoryStays
<1>8. PipeKept
  BY PipeGone DEF Disconnect
<1> QED BY <1>1, <1>3, <1>5, <1>6, <1>7, <1>8, LoopsStay DEF Movers

\* A message that is first finds nothing of its conversation under way.
LEMMA FirstIsAlone ==
    ASSUME SInv, IInv, NEW p \in Prompts, agent,
           \A q \in Prompts : Job[q].session = Job[p].session => ~Active(q)
    PROVE  /\ session[Job[p].session] # None => session[Job[p].session].turn = None
           /\ \A i \in DOMAIN toAgent : toAgent[i].kind = "prompt" =>
                 Job[toAgent[i].prompt].session # Job[p].session
<1>0. /\ Turning /\ Commands /\ PromptsInThePipe /\ AgentTypes /\ toAgent \in Seq(Messages)
      /\ Job[p].session \in Sessions
  BY Parts DEF AgentTypes
<1>1. ASSUME NEW q \in Prompts, Job[q].session = Job[p].session, loop[q].pc # "idle"
      PROVE  reply[q] # None /\ ~Running(q)
  <2>1. loop[q].pc = "done"
    BY <1>1 DEF Active
  <2>2. reply[q] # None
    BY <1>0, <2>1 DEF Commands
  <2> QED BY <1>0, <2>2 DEF Turning, Answered, Running
<1>2. session[Job[p].session] # None => session[Job[p].session].turn = None
  <2> SUFFICES ASSUME session[Job[p].session] # None, session[Job[p].session].turn # None PROVE FALSE
    OBVIOUS
  <2>1. PICK q \in Prompts : q = session[Job[p].session].turn
    BY <1>0, SessionFields DEF AgentTypes
  <2>2. Running(q) /\ Job[q].session = Job[p].session
    BY <1>0, <2>1 DEF Turning, SessionsKnowTheirTurn
  <2>3. loop[q].pc # "idle"
    BY <1>0, <2>2 DEF Commands, Running
  <2> QED BY <1>1, <2>2, <2>3
<1>3. ASSUME NEW i \in DOMAIN toAgent, toAgent[i].kind = "prompt"
      PROVE  Job[toAgent[i].prompt].session # Job[p].session
  <2>1. toAgent[i].prompt \in Prompts
    BY <1>0, <1>3, InSeq, MessageFields
  <2>2. reply[toAgent[i].prompt] = None /\ loop[toAgent[i].prompt].pc # "idle"
    BY <1>0, <1>3 DEF PromptsInThePipe
  <2> QED BY <1>1, <2>1, <2>2
<1> QED BY <1>2, <1>3

LEMMA MessageFirsts ==
    ASSUME SInv, IInv, NEW p \in Prompts, loop[p].pc = "idle", NEW c, Goes1(p, c), c.pc # "idle",
           c.echo = Echo(p), UNCHANGED <<session, turn>>, NEW m \in Messages, m.prompt = p,
           toAgent' = (IF agent THEN Append(toAgent, m) ELSE toAgent)
    PROVE  FirstsStart'
<1>0. /\ Turning /\ Commands /\ PromptsInThePipe /\ Origin /\ toAgent \in Seq(Messages) /\ FirstsStart
  BY Parts DEF AgentTypes, SInv
<1>1. loop'[p] = c /\ \A q \in Prompts : q # p => loop'[q] = loop[q]
  BY DEF Goes1
<1>2. turn[p].with = None
  <2>1. turn[p].pc = "idle"
    BY <1>0 DEF Commands
  <2> QED BY <1>0, <2>1 DEF Origin, TurnsSay
<1>3. \A i \in DOMAIN toAgent : toAgent[i].kind = "prompt" => toAgent[i].prompt # p
  BY <1>0 DEF PromptsInThePipe
<1>4. PICK n \in Nat : /\ \A i \in DOMAIN toAgent : i \in Nat /\ i <= n
                       /\ \A i \in DOMAIN toAgent' : \/ i \in DOMAIN toAgent /\ toAgent'[i] = toAgent[i]
                                                     \/ agent /\ i = n + 1 /\ toAgent'[i] = m
  <2>1. /\ Len(toAgent) \in Nat /\ \A i \in DOMAIN toAgent : i \in Nat /\ i <= Len(toAgent)
        /\ \A i \in DOMAIN Append(toAgent, m) :
                 \/ i \in DOMAIN toAgent /\ Append(toAgent, m)[i] = toAgent[i]
                 \/ i = Len(toAgent) + 1 /\ Append(toAgent, m)[i] = m
    BY <1>0, AppendedAt
  <2>2. CASE agent
    BY <2>1, <2>2
  <2>3. CASE ~agent
    BY <2>1, <2>3
  <2> QED BY <2>2, <2>3
<1> SUFFICES ASSUME NEW q \in Prompts, loop'[q].echo = "first" PROVE FindsNoTurn(q)'
  BY DEF FirstsStart, FindsNoTurn
<1> DEFINE s == Job[q].session
<1>5. CASE q = p
  <2>1. Echo(p) = "first"
    BY <1>1, <1>5
  <2>2. \A r \in Prompts : Job[r].session = s => ~Active(r)
    BY <1>5, <2>1 DEF Echo
  <2>3. ASSUME NEW i \in DOMAIN toAgent', toAgent'[i].kind = "prompt", toAgent'[i].prompt = q
        PROVE  /\ session[s] # None => session[s].turn = None
               /\ \A j \in DOMAIN toAgent' : j < i /\ toAgent'[j].kind = "prompt" => Job[toAgent'[j].prompt].session # s
    <3>1. agent /\ i = n + 1
      BY <1>3, <1>4, <1>5, <2>3
    <3>2. /\ session[s] # None => session[s].turn = None
          /\ \A j \in DOMAIN toAgent : toAgent[j].kind = "prompt" => Job[toAgent[j].prompt].session # s
      BY <1>5, <2>2, <3>1, FirstIsAlone
    <3>3. \A j \in DOMAIN toAgent' : j < i => j \in DOMAIN toAgent /\ toAgent'[j] = toAgent[j]
      BY <1>4, <3>1
    <3> QED BY <3>2, <3>3
  <2> QED BY <1>1, <1>2, <1>5, <2>3 DEF FindsNoTurn
<1>6. CASE q # p
  <2>1. loop'[q] = loop[q]
    BY <1>1, <1>6
  <2>2. FindsNoTurn(q) /\ loop[q].echo = "first"
    BY <1>0, <2>1 DEF FirstsStart
  <2>3. ASSUME NEW i \in DOMAIN toAgent', toAgent'[i].kind = "prompt", toAgent'[i].prompt = q
        PROVE  /\ session[s] # None => session[s].turn = None
               /\ \A j \in DOMAIN toAgent' : j < i /\ toAgent'[j].kind = "prompt" => Job[toAgent'[j].prompt].session # s
    <3>1. i \in DOMAIN toAgent /\ toAgent'[i] = toAgent[i] /\ i \in Nat /\ i <= n
      BY <1>4, <1>6, <2>3
    <3>2. /\ session[s] # None => session[s].turn = None
          /\ \A j \in DOMAIN toAgent : j < i /\ toAgent[j].kind = "prompt" => Job[toAgent[j].prompt].session # s
      BY <2>2, <2>3, <3>1 DEF FindsNoTurn
    <3>3. \A j \in DOMAIN toAgent' : j < i => j \in DOMAIN toAgent /\ toAgent'[j] = toAgent[j]
      BY <1>4, <3>1
    <3> QED BY <3>2, <3>3
  <2> QED BY <2>1, <2>2, <2>3 DEF FindsNoTurn
<1> QED BY <1>5, <1>6

LEMMA MessageStreams ==
    ASSUME SInv, IInv, NEW p \in Prompts, Message(p)
    PROVE  SInv'
<1>0. /\ AgentTypes /\ StreamTypes /\ OrderInv /\ HandsFit /\ events \in [Prompts -> Lists] /\ LoopShape
      /\ DueIsShown(p) /\ ClosedWhen(p) /\ loop[p] = LoopOf(loop[p]) /\ Job[p].session \in Sessions
  BY Parts
<1>1. /\ loop[p].pc = "idle"
      /\ UNCHANGED <<mix, events, session, turn, reply, sent, loaded, opener>>
      /\ UNCHANGED <<updates, inbox, shown, raced, engine>>
      /\ loop' = [loop EXCEPT ![p].pc = "look", ![p].echo = Echo(p)]
      /\ toAgent' = IF agent THEN Append(toAgent, [kind |-> "prompt", prompt |-> p, session |-> Job[p].session])
                    ELSE toAgent
  BY DEF Message, AcpUntouched
<1>2. loop[p].held = Nothing /\ loop[p].taken = <<>>
  BY <1>0, <1>1 DEF HandsFit
<1>3. PICK e : e = Echo(p)
  OBVIOUS
<1>4. PICK c : c = Sent(loop[p], e)
  OBVIOUS
<1>5. loop' = [loop EXCEPT ![p] = c]
  BY <1>1, <1>3, <1>4 DEF Sent, WithPc, WithEcho
<1>6. c.pc = "look" /\ c.held = Nothing /\ c.taken = <<>> /\ c.result = loop[p].result /\ c.echo = e
  <2>1. Becoming(c, "look", loop[p].held, loop[p].taken, loop[p].result, e)
    BY <1>0, <1>4, FieldsAre
  <2> QED BY <1>2, <2>1 DEF Becoming
<1>7. Goes1(p, c)
  BY <1>0, <1>5, OneCommand
<1>8. loop'[p] = c /\ \A q \in Prompts : q # p => loop'[q] = loop[q]
  BY <1>7 DEF Goes1
<1>9. Still
  BY <1>1, <1>2, <1>6, <1>7, SameMove
<1>10. StreamTypes' /\ OrderInv'
  BY <1>0, <1>9, StillFlows
<1>11. HandsFit'
  BY <1>0, <1>1, <1>6, <1>8 DEF HandsFit
<1>12. \A z \in Sessions : Kept2(z)
  BY <1>0, <1>1, <1>9, SameSources, StillSession
<1>13. \A y \in Movers : Carries(y)
  BY <1>0, <1>9, StillCarries
<1>14. PromptsShown'
  <2> SUFFICES ASSUME NEW q \in Prompts PROVE (DueIsShown(q) /\ ClosedWhen(q))'
    BY DEF PromptsShown
  <2>1. CASE q = p
    <3>1. ~Closed(p)'
      <4>1. ~Closed(p)
        BY <1>0, <1>1 DEF ClosedWhen
      <4> QED BY <1>6, <1>8, <4>1 DEF Closed
    <3> QED BY <2>1, <3>1 DEF DueIsShown, ClosedWhen
  <2>2. CASE q # p
    <3>1. q \in Movers /\ DueIsShown(q) /\ ClosedWhen(q)
      BY Parts
    <3>2. Due(q)' \subseteq Due(q)
      BY <1>1 DEF Due
    <3> QED BY <1>1, <1>8, <1>13, <2>2, <3>1, <3>2, ShownStays
  <2> QED BY <2>1, <2>2
<1>15. HistoriesShown'
  <2> SUFFICES ASSUME NEW s \in Sessions PROVE HistoryShown(s)'
    BY DEF HistoriesShown
  <2>1. s \in Movers /\ HistoryShown(s)
    BY Parts
  <2> QED BY <1>1, <1>13, <2>1, HistoryStays
<1>16. PICK m \in Messages : m = [kind |-> "prompt", prompt |-> p, session |-> Job[p].session] /\ m.prompt = p
  <2>1. [kind |-> "prompt", prompt |-> p, session |-> Job[p].session] \in Messages
    BY <1>0 DEF Messages
  <2> QED BY <2>1
<1>17. FirstsStart'
  <2>1. toAgent' = IF agent THEN Append(toAgent, m) ELSE toAgent
    BY <1>1, <1>16
  <2>2. c.echo = Echo(p) /\ c.pc # "idle"
    BY <1>3, <1>6
  <2> QED BY <1>1, <1>7, <1>16, <2>1, <2>2, MessageFirsts
<1> QED BY <1>1, <1>10, <1>11, <1>12, <1>14, <1>15, <1>17, WindowFrame

\* One opening moves.
OpenTo(s, pc, held) == /\ opener'[s].pc = pc /\ opener'[s].held = held
                       /\ \A t \in Sessions : t # s => opener'[t] = opener[t]

LEMMA OpeningHands ==
    ASSUME NEW s \in Sessions, NEW pc, NEW held, OpenTo(s, pc, held), UNCHANGED loop
    PROVE  /\ Hand(s) = opener[s].held /\ Hand(s)' = held
           /\ \A t \in Sessions : Taken(s, t) = <<>> /\ Taken(s, t)' = <<>>
           /\ \A y \in Movers : y # s => SameHand(y)
<1>1. HandsAre /\ HandsAre'
  BY HandsTheirs, HandsNext
<1>2. Hand(s) = opener[s].held /\ Hand(s)' = held /\ \A t \in Sessions : Taken(s, t) = <<>> /\ Taken(s, t)' = <<>>
  BY <1>1 DEF HandsAre, OpenTo
<1>3. ASSUME NEW y \in Prompts
      PROVE  SameHand(y)
  BY <1>1 DEF HandsAre, SameHand
<1>4. ASSUME NEW y \in Sessions, y # s
      PROVE  SameHand(y)
  BY <1>1, <1>4 DEF HandsAre, OpenTo, SameHand
<1> QED BY <1>2, <1>3, <1>4 DEF Movers

\* The histories of the conversations that are not being opened.
LEMMA OpeningFrame ==
    ASSUME SInv, IInv, NEW s \in Sessions, NEW pc, NEW held, OpenTo(s, pc, held),
           UNCHANGED <<mix, events, session, turn, reply, sent, loaded, loop>>, PipeKept,
           StreamTypes', OrderInv', \A t \in Sessions : Kept2(t), \A y \in Movers : y # s => Carries(y),
           pc # "keep" => held = Nothing, HistoryShown(s)'
    PROVE  SInv'
<1>0. HandsFit
  BY Parts
<1>1. HandsFit'
  BY <1>0 DEF HandsFit, OpenTo
<1>2. \A q \in Prompts : Carries(q)
  <2>1. \A q \in Prompts : q \in Movers /\ q # s
    BY Parts
  <2> QED BY <2>1
<1>3. HistoriesShown'
  <2> SUFFICES ASSUME NEW t \in Sessions, t # s PROVE HistoryShown(t)'
    BY DEF HistoriesShown
  <2>1. t \in Movers /\ HistoryShown(t)
    BY Parts
  <2>2. opener'[t] = opener[t]
    BY DEF OpenTo
  <2> QED BY <2>1, <2>2, HistoryStays
<1> QED BY <1>1, <1>2, <1>3, LoopsStay

LEMMA QuietOpeningStreams ==
    ASSUME SInv, IInv, NEW s \in Sessions, NEW pc, OpenTo(s, pc, Nothing), opener[s].held = Nothing,
           UNCHANGED <<mix, events, session, turn, reply, sent, loaded, loop>>, PipeKept,
           UNCHANGED <<updates, inbox, shown, raced, engine>>,
           pc \notin {"keep", "open"}, pc = "drain" => loaded[s] = "ok"
    PROVE  SInv'
<1>0. AgentTypes /\ StreamTypes /\ OrderInv /\ events \in [Prompts -> Lists] /\ HistoryShown(s)
  BY Parts
<1>1. Still
  <2>1. SameHand(s) /\ \A y \in Movers : y # s => SameHand(y)
    BY OpeningHands DEF SameHand
  <2> QED BY <2>1 DEF Still
<1>2. StreamTypes' /\ OrderInv'
  BY <1>0, <1>1, StillFlows
<1>3. \A t \in Sessions : Kept2(t)
  BY <1>0, <1>1, SameSources, StillSession
<1>4. \A y \in Movers : Carries(y)
  BY <1>0, <1>1, StillCarries
<1>5. HistoryShown(s)'
  <2>1. opener'[s].pc = pc /\ Past' = Past
    BY DEF OpenTo, Past
  <2> QED BY <1>0, <2>1 DEF HistoryShown
<1> QED BY <1>2, <1>3, <1>4, <1>5, OpeningFrame

LEMMA OpenStreams ==
    ASSUME SInv, IInv, NEW s \in Sessions, Open(s)
    PROVE  SInv'
<1>0. HandsFit /\ OpenerShape /\ toAgent \in Seq(Messages)
  BY Parts DEF AgentTypes
<1>1. /\ opener[s].pc = "idle" /\ opener' = [opener EXCEPT ![s].pc = "loading"]
      /\ UNCHANGED <<mix, events, session, turn, reply, sent, loaded, loop>>
      /\ UNCHANGED <<updates, inbox, shown, raced, engine>>
  BY DEF Open, AcpUntouched
<1>2. opener[s].held = Nothing
  BY <1>0, <1>1 DEF HandsFit
<1>3. OpenTo(s, "loading", Nothing)
  <2>1. DOMAIN opener = Sessions /\ opener[s] = [pc |-> opener[s].pc, held |-> opener[s].held]
    BY <1>0 DEF OpenerShape, OpenerOf
  <2>2. [opener[s] EXCEPT !.pc = "loading"] = [pc |-> "loading", held |-> Nothing]
    BY <1>2, <2>1
  <2>3. opener' = [opener EXCEPT ![s] = [pc |-> "loading", held |-> Nothing]]
    BY <1>1, <2>2
  <2> QED BY <2>1, <2>3 DEF OpenTo
<1>4. PICK m : m = [kind |-> "load", session |-> s] /\ m.kind = "load"
  BY MessageOf
<1>5. toAgent' = Append(toAgent, m) \/ toAgent' = toAgent
  BY <1>4 DEF Open
<1>6. PipeKept
  <2>1. m \in Messages
    BY <1>4 DEF Messages
  <2> QED BY <1>0, <1>4, <1>5, <2>1, PipeAppended, PipeSame
<1> QED BY <1>1, <1>2, <1>3, <1>6, QuietOpeningStreams

LEMMA OpenedStreams ==
    ASSUME SInv, IInv, NEW s \in Sessions, Opened(s)
    PROVE  SInv'
<1>0. HandsFit /\ OpenerShape /\ toAgent \in Seq(Messages)
  BY Parts DEF AgentTypes
<1>1. PICK pc \in {"drain", "failed"} : /\ opener' = [opener EXCEPT ![s].pc = pc]
                                        /\ pc = "drain" => loaded[s] = "ok"
  BY DEF Opened
<1>2. /\ opener[s].pc = "loading"
      /\ UNCHANGED <<mix, events, session, turn, reply, sent, loaded, loop, toAgent>>
      /\ UNCHANGED <<updates, inbox, shown, raced, engine>>
  BY DEF Opened, AcpUntouched
<1>3. opener[s].held = Nothing
  BY <1>0, <1>2 DEF HandsFit
<1>4. OpenTo(s, pc, Nothing)
  <2>1. DOMAIN opener = Sessions /\ opener[s] = [pc |-> opener[s].pc, held |-> opener[s].held]
    BY <1>0 DEF OpenerShape, OpenerOf
  <2>2. [opener[s] EXCEPT !.pc = pc] = [pc |-> pc, held |-> Nothing]
    BY <1>3, <2>1
  <2>3. opener' = [opener EXCEPT ![s] = [pc |-> pc, held |-> Nothing]]
    BY <1>1, <2>2
  <2> QED BY <2>1, <2>3 DEF OpenTo
<1>5. PipeKept
  BY <1>0, <1>2, PipeSame
<1> QED BY <1>1, <1>2, <1>3, <1>4, <1>5, QuietOpeningStreams

LEMMA DrainHistoryStreams ==
    ASSUME SInv, IInv, NEW s \in Sessions, DrainHistory(s)
    PROVE  SInv'
<1>0. /\ AgentTypes /\ StreamTypes /\ OrderInv /\ events \in [Prompts -> Lists] /\ HistoryShown(s)
      /\ HandsFit /\ OpenerShape /\ toAgent \in Seq(Messages) /\ s \in Movers
  BY Parts DEF AgentTypes
<1>1. /\ opener[s].pc = "drain"
      /\ UNCHANGED <<mix, events, session, turn, reply, sent, loaded, loop, toAgent>>
      /\ UNCHANGED <<inbox, shown, engine>>
  BY DEF DrainHistory, AcpUntouched
<1>2. opener[s].held = Nothing
  BY <1>0, <1>1 DEF HandsFit
<1>3. PipeKept
  BY <1>0, <1>1, PipeSame
<1>4. DOMAIN opener = Sessions /\ opener[s] = [pc |-> opener[s].pc, held |-> opener[s].held]
  BY <1>0 DEF OpenerShape, OpenerOf
<1>5. CASE engine
  <2>1. /\ opener' = [opener EXCEPT ![s] = [pc |-> "keep", held |-> updates]]
        /\ updates' = Nothing /\ Race(s, s, updates)
    BY <1>5 DEF DrainHistory
  <2>2. OpenTo(s, "keep", updates)
    BY <1>4, <2>1 DEF OpenTo
  <2>3. Draws(s, s)
    <3>1. /\ Hand(s) = Nothing /\ Hand(s)' = updates
          /\ \A t \in Sessions : Taken(s, t) = <<>> /\ Taken(s, t)' = <<>>
          /\ \A y \in Movers : y # s => SameHand(y)
      BY <1>1, <1>2, <2>2, OpeningHands
    <3> QED BY <1>1, <1>5, <2>1, <3>1 DEF Draws, EmptyHanded
  <2>4. StreamTypes' /\ OrderInv'
    BY <1>0, <2>3, DrawFlows
  <2>5. \A t \in Sessions : Kept2(t)
    BY <1>0, <1>1, <2>3, SameSources, DrawKept
  <2>6. \A y \in Movers : y # s => Carries(y)
    BY <1>0, <2>3, DrawCarries
  <2>7. HistoryShown(s)'
    <3>1. opener'[s].pc = "keep" /\ Past' = Past
      BY <1>1, <2>2 DEF OpenTo, Past
    <3>2. Past \subseteq Range(sent[s])
      BY <1>0, <1>1 DEF HistoryShown
    <3>3. s \notin raced' => \A e \in Range(sent[s]) : Reaches(e, s, s)'
      BY <1>0, <2>3, DrainReaches
    <3> QED BY <1>1, <3>1, <3>2, <3>3 DEF HistoryShown
  <2>8. "keep" # "keep" => updates = Nothing
    OBVIOUS
  <2> QED BY <1>1, <1>3, <2>2, <2>4, <2>5, <2>6, <2>7, <2>8, OpeningFrame
<1>6. CASE ~engine
  <2>1. opener' = [opener EXCEPT ![s].pc = "failed"] /\ UNCHANGED <<updates, raced>>
    BY <1>6 DEF DrainHistory
  <2>2. OpenTo(s, "failed", Nothing)
    <3>1. [opener[s] EXCEPT !.pc = "failed"] = [pc |-> "failed", held |-> Nothing]
      BY <1>2, <1>4
    <3>2. opener' = [opener EXCEPT ![s] = [pc |-> "failed", held |-> Nothing]]
      BY <2>1, <3>1
    <3> QED BY <1>4, <3>2 DEF OpenTo
  <2> QED BY <1>1, <1>2, <1>3, <2>1, <2>2, QuietOpeningStreams
<1> QED BY <1>5, <1>6

LEMMA KeepHistoryStreams ==
    ASSUME SInv, IInv, NEW s \in Sessions, KeepHistory(s)
    PROVE  SInv'
<1>0. /\ AgentTypes /\ StreamTypes /\ OrderInv /\ events \in [Prompts -> Lists] /\ HistoryShown(s)
      /\ HandsFit /\ OpenerShape /\ toAgent \in Seq(Messages) /\ s \in Movers
  BY Parts DEF AgentTypes
<1>1. /\ opener[s].pc = "keep"
      /\ opener' = [opener EXCEPT ![s] = [pc |-> "open", held |-> Nothing]]
      /\ UNCHANGED <<mix, events, session, turn, reply, sent, loaded, loop, toAgent>>
      /\ UNCHANGED <<updates, engine>> /\ Race(s, s, opener[s].held)
      /\ shown' = [shown EXCEPT ![s] = @ \o Absorb(opener[s].held)[s]]
      /\ inbox' = [Absorb(opener[s].held) EXCEPT ![s] = <<>>]
  BY DEF KeepHistory, AcpUntouched
<1>2. DOMAIN opener = Sessions
  BY <1>0 DEF OpenerShape
<1>3. OpenTo(s, "open", Nothing)
  BY <1>1, <1>2 DEF OpenTo
<1>4. /\ Hand(s) = opener[s].held /\ Hand(s)' = Nothing
      /\ \A t \in Sessions : Taken(s, t) = <<>> /\ Taken(s, t)' = <<>>
      /\ \A y \in Movers : y # s => SameHand(y)
  BY <1>1, <1>3, OpeningHands
<1>5. Stows(s, s)
  BY <1>1, <1>4 DEF Stows, EmptyHanded
<1>6. ShowsAtOnce(s, s)
  BY <1>1, <1>4 DEF ShowsAtOnce
<1>7. /\ StreamTypes' /\ OrderInv'
      /\ shown'[s] = Cat(shown[s], Cat(inbox[s], Hand(s)[s]))
  BY <1>0, <1>5, <1>6, KeepHistoryFlows
<1>8. \A t \in Sessions : Kept2(t)
  BY <1>0, <1>1, <1>5, <1>6, SameSources, HistoryKept
<1>9. \A y \in Movers : y # s => Carries(y)
  BY <1>0, <1>5, <1>6, StowCarries
<1>10. HistoryShown(s)'
  <2>1. opener'[s].pc = "open" /\ Past' = Past
    BY <1>1, <1>3 DEF OpenTo, Past
  <2>2. Past \subseteq Range(sent[s])
    BY <1>0, <1>1 DEF HistoryShown
  <2>3. ASSUME s \notin raced', NEW e \in Past
        PROVE  e \in Range(shown'[s])
    <3>1. raced \subseteq raced' /\ Holders(s) \ {s} = {}
      BY <1>0, <1>1, <2>3, RaceTyped
    <3>2. Reaches(e, s, s)
      BY <1>0, <1>1, <2>3, <3>1 DEF HistoryShown
    <3>3. \A y \in Movers : e \notin Range(Taken(y, s))
      <4>1. ASSUME NEW y \in Movers, Taken(y, s) # <<>>
            PROVE  FALSE
        <5>1. y \in Holders(s)
          BY <4>1 DEF Holders, Movers
        <5>2. y = s
          BY <3>1, <5>1
        <5> QED BY <1>4, <4>1, <5>2
      <4> QED BY <4>1, EmptyRange
    <3>4. /\ Range(Cat(inbox[s], Hand(s)[s])) = Range(inbox[s]) \cup Range(Hand(s)[s])
          /\ Cat(inbox[s], Hand(s)[s]) \in Lists /\ shown[s] \in Lists
      BY <1>0, ListOf, Put
    <3>5. Range(shown'[s]) = Range(shown[s]) \cup Range(Cat(inbox[s], Hand(s)[s]))
      BY <1>7, <3>4, Put
    <3> QED BY <3>2, <3>3, <3>4, <3>5 DEF Reaches
  <2> QED BY <1>1, <2>1, <2>2, <2>3 DEF HistoryShown
<1>11. "open" # "keep" => Nothing = Nothing
  OBVIOUS
<1> QED BY <1>1, <1>0, <1>3, <1>7, <1>8, <1>9, <1>10, PipeSame, OpeningFrame

-----------------------------------------------------------------------------
(***************************************************************************)
(* What the agent does.                                                     *)
(***************************************************************************)

LEMMA WindowUntouched ==
    ASSUME UNCHANGED windowVars
    PROVE  /\ UNCHANGED <<loop, opener, inbox, shown, raced, engine>>
           /\ \A x \in Movers : SameHand(x)
           /\ \A s \in Sessions : WindowStill(s)
<1>1. UNCHANGED <<loop, opener, inbox, shown, raced, engine>>
  BY DEF windowVars
<1>2. HandsAre /\ HandsAre'
  BY HandsTheirs, HandsNext
<1>3. ASSUME NEW y \in Prompts
      PROVE  SameHand(y)
  BY <1>1, <1>2 DEF HandsAre, SameHand
<1>4. ASSUME NEW y \in Sessions
      PROVE  SameHand(y)
  BY <1>1, <1>2 DEF HandsAre, SameHand
<1>5. \A x \in Movers : SameHand(x)
  BY <1>3, <1>4 DEF Movers
<1>6. ASSUME NEW s \in Sessions
      PROVE  WindowStill(s)
  <2>1. \A x \in Movers : Hand(x)' = Hand(x) /\ Taken(x, s)' = Taken(x, s)
    BY <1>5 DEF SameHand
  <2> QED BY <1>1, <2>1 DEF WindowStill
<1> QED BY <1>1, <1>5, <1>6

\* A command that knows how its turn ended: the turn said everything.
LEMMA ClosedIsOver ==
    ASSUME SInv, IInv, NEW q \in Prompts, Closed(q)
    PROVE  /\ reply[q] \notin {None, "error", "unheard"} /\ ~Running(q)
           /\ turn[q].pc \in {"idle", "ended"}
           /\ turn[q].with # None => Redirected(q) \in Range(sent[Job[q].session])
<1>0. ClosedWhen(q) /\ Turning /\ Origin
  BY Parts
<1>1. reply[q] = loop[q].result /\ loop[q].result \notin {None, "error", "unheard"}
  BY <1>0 DEF ClosedWhen, Closed
<1>2. turn[q].pc \in {"ended", "idle"}
  BY <1>0, <1>1 DEF Turning, Answered
<1>3. turn[q].with # None => turn[q].pc = "ended"
  BY <1>0, <1>2 DEF Origin, TurnsSay
<1>4. Announced(q)
  BY <1>0 DEF Origin, JoinersAnnounced
<1> QED BY <1>1, <1>2, <1>3, <1>4 DEF Announced, Running

LEMMA AgentFrame ==
    ASSUME SInv, IInv, UNCHANGED windowVars, UNCHANGED mix,
           Still \/ \E s \in Sessions : \E list \in Lists : Sends(s, list),
           \A z \in Sessions : loaded'[z] = "ok" => loaded[z] = "ok" \/ Past \subseteq Range(sent'[z]),
           \A q \in Prompts : Closed(q) => Due(q)' \subseteq Due(q) /\ reply'[q] = reply[q],
           Origin', FlowInv', FirstsStart'
    PROVE  SInv'
<1>0. AgentTypes /\ StreamTypes /\ OrderInv /\ HandsFit
  BY Parts
<1>1. UNCHANGED <<loop, opener, inbox, shown, raced, engine>>
  BY WindowUntouched
<1>2. StreamTypes' /\ OrderInv'
  BY <1>0, StillFlows, SendFlows
<1>3. HandsFit'
  BY <1>0, <1>1, HandsFitStay
<1>4. \A y \in Movers : Carries(y)
  BY <1>0, StillCarries, SendCarries
<1>5. \A z \in Sessions : Range(sent[z]) \subseteq Range(sent'[z])
  <2>1. CASE Still
    BY <2>1 DEF Still
  <2>2. ASSUME NEW s \in Sessions, NEW list \in Lists, Sends(s, list)
        PROVE  \A z \in Sessions : Range(sent[z]) \subseteq Range(sent'[z])
    <3>1. sent'[s] = Cat(sent[s], list) /\ \A z \in Sessions : z # s => sent'[z] = sent[z]
      BY <1>0, <2>2, SendIs DEF Sends
    <3>2. sent[s] \in Lists
      BY <1>0, ListOf
    <3>3. Range(Cat(sent[s], list)) = Range(sent[s]) \cup Range(list)
      BY <3>2, Put
    <3> QED BY <3>1, <3>3
  <2> QED BY <2>1, <2>2
<1>6. PromptsShown'
  <2> SUFFICES ASSUME NEW q \in Prompts PROVE (DueIsShown(q) /\ ClosedWhen(q))'
    BY DEF PromptsShown
  <2>1. DueIsShown(q) /\ ClosedWhen(q) /\ q \in Movers
    BY Parts
  <2> QED BY <1>1, <1>4, <2>1, ShownStays
<1>7. HistoriesShown'
  <2> SUFFICES ASSUME NEW s \in Sessions PROVE HistoryShown(s)'
    BY DEF HistoriesShown
  <2>1. HistoryShown(s) /\ s \in Movers
    BY Parts
  <2>2. Past' = Past
    BY DEF Past
  <2>3. Range(sent[s]) \subseteq Range(sent'[s])
    BY <1>5
  <2>4. loaded'[s] = "ok" => loaded[s] = "ok" \/ Past \subseteq Range(sent'[s])
    OBVIOUS
  <2>5. Carries(s)
    BY <1>4, <2>1
  <2>6. s \notin raced' => /\ s \notin raced /\ Range(shown[s]) \subseteq Range(shown'[s])
                           /\ \A e : Reaches(e, s, s) => Reaches(e, s, s)'
    BY <2>5 DEF Carries
  <2> QED BY <1>1, <2>1, <2>2, <2>3, <2>4, <2>6 DEF HistoryShown
<1> QED BY <1>2, <1>3, <1>6, <1>7 DEF SInv, Pipeline

\* A session whose updates stay where they are.
LEMMA UntouchedKept ==
    ASSUME AgentTypes, StreamTypes, events \in [Prompts -> Lists], NEW s \in Sessions, WindowStill(s),
           updates'[s] = updates[s], sent'[s] = sent[s], SameSource(s)
    PROVE  Kept2(s)
<1>1. Unmoved(s)
  BY DEF WindowStill, Unmoved
<1> QED BY <1>1, StillKept

\* The agent does something and says nothing.
LEMMA QuietAgentStreams ==
    ASSUME SInv, IInv, UNCHANGED windowVars, UNCHANGED <<mix, events, updates, sent>>, PipeKept,
           \A z \in Sessions : SaidOf(z)' = SaidOf(z),
           \A z \in Sessions : session'[z] # None =>
               session'[z].turn = None \/ (session[z] # None /\ session'[z].turn = session[z].turn),
           \A q \in Prompts : \/ turn'[q] = turn[q]
                              \/ Running(q) /\ Running(q)' /\ turn'[q].with = turn[q].with,
           \A z \in Sessions : loaded'[z] = "ok" => loaded[z] = "ok",
           \A q \in Prompts : reply'[q] = reply[q] \/ (turn[q].pc = "idle" /\ reply[q] = None)
    PROVE  SInv'
<1>0. AgentTypes /\ StreamTypes /\ events \in [Prompts -> Lists] /\ Origin /\ FlowInv /\ FirstsStart
  BY Parts DEF SInv
<1>1. /\ UNCHANGED <<loop, opener, inbox, shown, raced, engine>> /\ \A x \in Movers : SameHand(x)
      /\ \A s \in Sessions : WindowStill(s)
  BY WindowUntouched
<1>2. Still
  BY <1>1 DEF Still
<1>3. \A q \in Prompts : /\ turn'[q].with = turn[q].with
                         /\ turn'[q] = turn[q] \/ (turn[q].with = None /\ Running(q) /\ Running(q)')
  <2>1. \A q \in Prompts : turn[q].with # None => ~Running(q)
    BY <1>0 DEF Origin, TurnsSay, Running
  <2> QED BY <2>1
<1>4. \A z \in Sessions : SameSource(z)
  BY DEF SameSource, Echoes, EventsOf
<1>5. Origin'
  <2>1. TurnsSay'
    <3>1. Past' = Past
      BY DEF Past
    <3>2. \A q \in Prompts : Running(q) => Running(q)'
      BY <1>3 DEF Running
    <3>3. \A q \in Prompts : turn'[q].with # None =>
              turn'[q].pc \in {"joined", "told", "ended"} /\ Job[turn'[q].with].session = Job[q].session
      BY <1>0, <1>3 DEF Origin, TurnsSay
    <3> QED BY <1>0, <3>1, <3>2, <3>3 DEF Origin, TurnsSay, Own, Noted
  <2>2. JoinersAnnounced'
    <3> SUFFICES ASSUME NEW q \in Prompts, turn'[q].with # None PROVE Announced(q)'
      BY DEF JoinersAnnounced, Announced
    <3>1. turn'[q] = turn[q] /\ turn[q].pc \in {"joined", "told", "ended"}
      BY <1>0, <1>3 DEF Origin, TurnsSay
    <3>2. reply'[q] = reply[q]
      BY <3>1
    <3>3. Announced(q)
      BY <1>0 DEF Origin, JoinersAnnounced
    <3> QED BY <3>1, <3>2, <3>3, JobTyped DEF Announced
  <2>3. NotesOnce'
    <3>1. \A q \in Prompts : turn[q].pc # "idle" => turn'[q].pc # "idle"
      BY <1>3 DEF Running
    <3> QED BY <1>0, <1>3, <3>1 DEF Origin, NotesOnce, NotedOnce
  <2> QED BY <2>1, <2>2, <2>3 DEF Origin
<1>6. FlowInv'
  <2>1. \A z \in Sessions : Kept2(z)
    BY <1>0, <1>1, <1>4, UntouchedKept
  <2> QED BY <1>0, <1>3, <2>1, FlowFrame
<1>7. FirstsStart'
  BY <1>0, <1>1, <1>3, FirstsFrame
<1>8. \A q \in Prompts : Closed(q) => Due(q)' \subseteq Due(q) /\ reply'[q] = reply[q]
  BY ClosedIsOver DEF Due
<1> QED BY <1>2, <1>5, <1>6, <1>7, <1>8, AgentFrame

\* The agent moves no message into a turn, and starts none.
LEMMA TalkFrame ==
    ASSUME SInv, IInv, UNCHANGED windowVars, UNCHANGED mix, PipeKept,
           Still \/ \E s \in Sessions : \E list \in Lists : Sends(s, list),
           \A z \in Sessions : session'[z] # None =>
               session'[z].turn = None \/ (session[z] # None /\ session'[z].turn = session[z].turn),
           \A q \in Prompts : turn'[q].with = turn[q].with,
           \A z \in Sessions : loaded'[z] = "ok" => loaded[z] = "ok" \/ Past \subseteq Range(sent'[z]),
           \A q \in Prompts : Closed(q) => Due(q)' \subseteq Due(q) /\ reply'[q] = reply[q],
           TurnsSay', JoinersAnnounced', NotesOnce', \A z \in Sessions : Kept2(z)
    PROVE  SInv'
<1>1. UNCHANGED loop
  BY WindowUntouched
<1>2. FirstsStart'
  BY <1>1, FirstsFrame DEF SInv
<1>3. FlowInv'
  BY FlowFrame DEF SInv
<1>4. Origin'
  BY DEF Origin
<1> QED BY <1>2, <1>3, <1>4, AgentFrame

LEMMA SaysDoes ==
    ASSUME events \in [Prompts -> Lists], NEW p \in Prompts, NEW list \in Lists, Says(p, list)
    PROVE  /\ events' \in [Prompts -> Lists] /\ events'[p] = Cat(events[p], list)
           /\ Range(events'[p]) = Range(events[p]) \cup Range(list)
           /\ \A q \in Prompts : q # p => events'[q] = events[q]
<1>1. PICK a \in Lists : a = events[p]
  OBVIOUS
<1>2. Cat(a, list) \in Lists /\ Range(Cat(a, list)) = Range(a) \cup Range(list)
  BY Put
<1>3. events' = [events EXCEPT ![p] = Cat(a, list)]
  BY <1>1 DEF Says, Cat
<1> QED BY <1>1, <1>2, <1>3

\* What one turn has said changes, and no other's.
LEMMA EventsMove ==
    ASSUME NEW p \in Prompts, \A q \in Prompts : q # p => events'[q] = events[q]
    PROVE  /\ EventsOf(p, Job[p].session) = events[p] /\ EventsOf(p, Job[p].session)' = events'[p]
           /\ \A x \in Movers : x # p => EventsOf(x, Job[p].session)' = EventsOf(x, Job[p].session)
           /\ \A z \in Sessions : z # Job[p].session =>
                 \A x \in Movers : EventsOf(x, z)' = EventsOf(x, z)
BY DEF EventsOf

LEMMA EchoesStay ==
    ASSUME NEW z, SaidOf(z)' = SaidOf(z)
    PROVE  Echoes(z)' = Echoes(z)
BY DEF Echoes

\* A notice that is under way is of a message that joined a turn.
LEMMA UnderWay ==
    ASSUME SInv, NEW q \in Prompts, NEW p \in Prompts, Job[p].session = Job[q].session,
           Redirected(q) \in Range(events[p])
    PROVE  turn[q].with # None
<1>1. Job[q].session \in Sessions /\ p \in Movers
  BY JobTyped DEF Movers
<1>2. FlowEqs(Job[q].session)
  BY <1>1, FlowNow
<1>3. Flow(Job[q].session)[<<"events", p>>] = events[p]
  BY <1>1, <1>2 DEF FlowEqs, EventsOf
<1>4. <<"events", p>> \in DOMAIN Flow(Job[q].session)
  BY <1>1, <1>2, SpotsAre DEF FlowEqs
<1>5. Present(Flow(Job[q].session), Redirected(q))
  BY <1>3, <1>4 DEF Present
<1> QED BY <1>5 DEF SInv, FlowInv, AnnouncedOnce

\* A turn that runs on, and says nothing.
LEMMA RunsOnStreams ==
    ASSUME SInv, IInv, UNCHANGED windowVars,
           UNCHANGED <<mix, events, updates, sent, session, loaded, reply, toAgent>>,
           NEW p \in Prompts, Running(p), NEW t, TurnOne(p, t), t.with = turn[p].with,
           t.pc \in {"top", "thinking", "waiting", "over"}
    PROVE  SInv'
<1>1. turn'[p] = t /\ \A q \in Prompts : q # p => turn'[q] = turn[q]
  BY DEF TurnOne
<1>2. \A q \in Prompts : \/ turn'[q] = turn[q]
                         \/ Running(q) /\ Running(q)' /\ turn'[q].with = turn[q].with
  BY <1>1 DEF Running
<1>3. \A z \in Sessions : SaidOf(z)' = SaidOf(z)
  BY DEF SaidOf
<1>4. PipeKept
  BY PipeSame, Parts DEF AgentTypes
<1> QED BY <1>2, <1>3, <1>4, QuietAgentStreams

LEMMA ExpireStreams ==
    ASSUME SInv, IInv, NEW p \in Prompts, Expire(p), UNCHANGED windowVars
    PROVE  SInv'
<1>0. AgentTypes
  BY Parts
<1>1. "top" \in TurnPcs
  BY DEF TurnPcs
<1>2. Goes(p, "top") /\ Running(p)
      /\ UNCHANGED <<mix, events, updates, sent, session, loaded, reply, toAgent>>
  BY DEF Expire, At, Running
<1>3. PICK t \in Turns : TurnOne(p, t) /\ t.pc = "top" /\ t.with = turn[p].with
  BY <1>0, <1>1, <1>2, GoesDoes
<1> QED BY <1>2, <1>3, RunsOnStreams

LEMMA HubFailsStreams ==
    ASSUME SInv, IInv, NEW p \in Prompts, HubFails(p), UNCHANGED windowVars
    PROVE  SInv'
<1>0. AgentTypes
  BY Parts
<1>1. "HubFailed" \in Stopped
  BY DEF Stopped
<1>2. Over(p, "HubFailed") /\ Running(p)
      /\ UNCHANGED <<mix, events, updates, sent, session, loaded, reply, toAgent>>
  BY DEF HubFails, At, Running
<1>3. PICK t \in Turns : TurnOne(p, t) /\ t.pc = "over" /\ t.with = turn[p].with
  BY <1>0, <1>1, <1>2, OverDoes
<1> QED BY <1>2, <1>3, RunsOnStreams

\* Nothing of this moves.
LEMMA StillStreams ==
    ASSUME SInv, IInv, UNCHANGED windowVars,
           UNCHANGED <<mix, events, updates, sent, session, loaded, reply, toAgent, turn>>
    PROVE  SInv'
<1>1. \A z \in Sessions : SaidOf(z)' = SaidOf(z)
  BY DEF SaidOf
<1>2. PipeKept
  BY PipeSame, Parts DEF AgentTypes
<1> QED BY <1>1, <1>2, QuietAgentStreams

LEMMA AskStreams ==
    ASSUME SInv, IInv, NEW p \in Prompts, Ask(p), UNCHANGED windowVars
    PROVE  SInv'
BY StillStreams DEF Ask

LEMMA AnswerStreams ==
    ASSUME SInv, IInv, NEW p \in Prompts, Answer(p), UNCHANGED windowVars
    PROVE  SInv'
<1>0. AgentTypes /\ Asking
  BY Parts DEF IInv
<1>1. questions[p] \in Seq(Asks) /\ questions[p] # <<>>
  BY <1>0, QuestionsTyped DEF Answer
<1>2. PICK a \in Asks : a = Head(questions[p]) /\ 1 \in DOMAIN questions[p] /\ a = questions[p][1]
  <2>1. Head(questions[p]) \in Asks
    BY <1>1, HeadAndTail
  <2> QED BY <1>1, <2>1, HeadAndTail
<1>3. Decide(p, a, a) /\ UNCHANGED <<mix, events, updates, sent, session, loaded, reply, toAgent>>
  BY <1>2 DEF Answer
<1>4. CASE hub[a] = "open"
  <2>1. a[1] = p
    BY <1>0, <1>2 DEF Asking, Questions
  <2>2. Running(p)
    BY <1>0, <1>4, <2>1 DEF Asking, Questions, Running
  <2>3. Goes(p, "top") /\ "top" \in TurnPcs
    BY <1>3, <1>4 DEF Decide, TurnPcs
  <2>4. PICK t \in Turns : TurnOne(p, t) /\ t.pc = "top" /\ t.with = turn[p].with
    BY <1>0, <2>3, GoesDoes
  <2> QED BY <1>3, <2>2, <2>4, RunsOnStreams
<1>5. CASE hub[a] # "open"
  <2>1. UNCHANGED turn
    BY <1>3, <1>5 DEF Decide
  <2> QED BY <1>3, <2>1, StillStreams
<1> QED BY <1>4, <1>5

\* A turn that is over without a word.
LEMMA OverStreams ==
    ASSUME SInv, IInv, UNCHANGED windowVars, NEW p \in Prompts, Running(p),
           NEW why \in Stopped, Over(p, why),
           UNCHANGED <<mix, events, updates, sent, session, loaded, reply, toAgent>>
    PROVE  SInv'
<1>1. PICK t \in Turns : TurnOne(p, t) /\ t.pc = "over" /\ t.with = turn[p].with
  BY OverDoes, Parts
<1> QED BY <1>1, RunsOnStreams

LEMMA EchoesAre ==
    ASSUME NEW s
    PROVE  /\ Range(Echoes(s)) = {Redirected(q) : q \in Range(SaidOf(s))}
           /\ SaidOf(s) = <<>> => Echoes(s) = <<>>
<1>1. Range(Echoes(s)) = {Redirected(q) : q \in Range(SaidOf(s))}
  BY DEF Echoes, Range
<1>2. SaidOf(s) = <<>> => Echoes(s) = <<>>
  BY DEF Echoes
<1> QED BY <1>1, <1>2

LEMMA EchoesNext ==
    ASSUME NEW s
    PROVE  SaidOf(s)' = <<>> => Echoes(s)' = <<>>
BY DEF Echoes

\* Nothing is sent: the notices that were are as they were.
LEMMA NotesStay ==
    ASSUME Origin, UNCHANGED sent,
           \A q \in Prompts : turn[q].pc # "idle" => turn'[q].pc # "idle",
           \A q \in Prompts : turn[q].pc # "idle" => turn'[q].with = turn[q].with
    PROVE  NotesOnce'
BY DEF Origin, NotesOnce, NotedOnce

\* A turn takes what was said in its session, to read it and to announce it.
LEMMA TakeStreams ==
    ASSUME SInv, IInv, UNCHANGED windowVars, NEW p \in Prompts, Running(p),
           SessionOne(Job[p].session, [Mine(p) EXCEPT !.said = <<>>]), Says(p, Echoes(Job[p].session)),
           NEW t, TurnOne(p, t), t.with = turn[p].with, t.pc \in {"top", "thinking", "waiting", "over"},
           UNCHANGED <<mix, updates, sent, loaded, reply, toAgent>>
    PROVE  SInv'
<1> DEFINE s == Job[p].session
<1>0. /\ AgentTypes /\ StreamTypes /\ events \in [Prompts -> Lists] /\ Origin /\ Turning /\ s \in Sessions
      /\ p \in Movers /\ toAgent \in Seq(Messages)
  BY Parts DEF AgentTypes
<1>1. /\ Mine(p) = session[s] /\ session[s] \in SessionRecords /\ session[s] # None /\ session[s].turn = p
  BY <1>0, RunningHas, SessionFields DEF OfSession
<1>2. PICK r \in SessionRecords : r = session'[s] /\ r # None /\ r.turn = p /\ r.said = <<>>
  <2>1. session'[s] = [session[s] EXCEPT !.said = <<>>]
    BY <1>1 DEF SessionOne
  <2>2. session'[s] \in SessionRecords /\ session'[s].turn = session[s].turn /\ session'[s].said = <<>>
    BY <1>1, <2>1, SaidTaken
  <2> QED BY <1>1, <2>2, SessionFields
<1>3. \A z \in Sessions : z # s => session'[z] = session[z]
  BY DEF SessionOne
<1>4. SaidOf(s)' = <<>> /\ \A z \in Sessions : z # s => SaidOf(z)' = SaidOf(z)
  BY <1>2, <1>3 DEF SaidOf
<1>5. turn'[p] = t /\ \A q \in Prompts : q # p => turn'[q] = turn[q]
  BY DEF TurnOne
<1>6. Echoes(s) \in Lists /\ SaidOf(s) \in Seq(Prompts)
  BY <1>0, SaidTyped
<1>7. /\ events' \in [Prompts -> Lists] /\ events'[p] = Cat(events[p], Echoes(s))
      /\ Range(events'[p]) = Range(events[p]) \cup Range(Echoes(s))
      /\ \A q \in Prompts : q # p => events'[q] = events[q]
  BY <1>0, <1>6, SaysDoes
<1>8. Range(Echoes(s)) = {Redirected(q) : q \in Range(SaidOf(s))}
  BY EchoesAre
<1>9. /\ UNCHANGED <<loop, opener, inbox, shown, raced, engine>> /\ Still
      /\ \A z \in Sessions : WindowStill(z)
  BY WindowUntouched DEF Still
<1>10. /\ EventsOf(p, s) = events[p] /\ EventsOf(p, s)' = events'[p]
       /\ \A x \in Movers : x # p => EventsOf(x, s)' = EventsOf(x, s)
       /\ \A z \in Sessions : z # s => \A x \in Movers : EventsOf(x, z)' = EventsOf(x, z)
  BY <1>7, EventsMove
<1>11. ASSUME NEW z \in Sessions
       PROVE  Kept2(z)
  <2>1. CASE z = s
    <3>1. Echoes(s)' = <<>>
      BY <1>4, EchoesNext
    <3>2. EventsOf(p, s)' = EventsOf(p, s) \o Echoes(s)
      BY <1>7, <1>10 DEF Cat
    <3> QED BY <1>0, <1>9, <1>10, <2>1, <3>1, <3>2, TakeKept
  <2>2. CASE z # s
    <3>1. SameSource(z)
      BY <1>4, <1>10, <2>2, EchoesStay DEF SameSource
    <3> QED BY <1>0, <1>9, <3>1, UntouchedKept
  <2> QED BY <2>1, <2>2
<1>12. \A q \in Prompts : Running(q)' = Running(q) /\ turn'[q].with = turn[q].with
  BY <1>5 DEF Running
<1>13. TurnsSay'
  <2>1. Past' = Past
    BY DEF Past
  <2>2. ASSUME NEW q \in Prompts, NEW e \in Range(events'[q])
        PROVE  Own(q, e)
    <3>1. CASE e \in Range(events[q])
      BY <1>0, <3>1 DEF Origin, TurnsSay
    <3>2. CASE e \notin Range(events[q])
      <4>1. q = p /\ e \in Range(Echoes(s))
        BY <1>7, <2>2, <3>2
      <4>2. PICK u \in Range(SaidOf(s)) : e = Redirected(u)
        BY <1>8, <4>1
      <4>3. Job[u].session = s /\ u \in Prompts
        BY <1>0, <1>6 DEF Origin, TurnsSay, Range
      <4> QED BY <4>1, <4>2, <4>3 DEF Own
    <3> QED BY <3>1, <3>2
  <2>3. ASSUME NEW q \in Prompts, ~Running(q)
        PROVE  events'[q] = <<>>
    BY <1>0, <1>7, <2>3 DEF Origin, TurnsSay
  <2>4. ASSUME NEW q \in Prompts, turn'[q].with # None
        PROVE  turn'[q].pc \in {"joined", "told", "ended"} /\ Job[turn'[q].with].session = Job[q].session
    <3>1. q # p
      BY <1>0, <1>12, <2>4 DEF Origin, TurnsSay, Running
    <3> QED BY <1>0, <1>5, <2>4, <3>1 DEF Origin, TurnsSay
  <2>5. ASSUME NEW z \in Sessions
        PROVE  \A u \in Range(SaidOf(z)') : Job[u].session = z
    <3>1. CASE z = s
      BY <1>4, <3>1, EmptyRange
    <3>2. CASE z # s
      BY <1>0, <1>4, <3>2 DEF Origin, TurnsSay
    <3> QED BY <3>1, <3>2
  <2> QED BY <1>0, <1>7, <1>12, <2>1, <2>2, <2>3, <2>4, <2>5 DEF Origin, TurnsSay, Own, Noted
<1>14. JoinersAnnounced'
  <2> SUFFICES ASSUME NEW q \in Prompts, turn'[q].with # None PROVE Announced(q)'
    BY DEF JoinersAnnounced, Announced
  <2>1. q # p /\ turn'[q] = turn[q] /\ turn[q].with # None
    BY <1>0, <1>5, <1>12 DEF Origin, TurnsSay, Running
  <2>2. Announced(q)
    BY <1>0 DEF Origin, JoinersAnnounced
  <2>3. turn[q].pc = "joined" => \/ q \in Range(SaidOf(Job[q].session)')
                                 \/ Redirected(q) \in Range(events'[turn[q].with])
                                 \/ Redirected(q) \in Range(sent[Job[q].session])
    <3> SUFFICES ASSUME turn[q].pc = "joined"
                 PROVE  \/ q \in Range(SaidOf(Job[q].session)')
                        \/ Redirected(q) \in Range(events'[turn[q].with])
                        \/ Redirected(q) \in Range(sent[Job[q].session])
      OBVIOUS
    <3>1. \/ q \in Range(SaidOf(Job[q].session))
          \/ Redirected(q) \in Range(events[turn[q].with])
          \/ Redirected(q) \in Range(sent[Job[q].session])
      BY <2>1, <2>2 DEF Announced
    <3>2. /\ Job[q].session \in Sessions /\ turn[q].with \in Prompts
          /\ OfSession(q).turn = turn[q].with
      BY <1>0, JoinedHas
    <3>3. Range(events[turn[q].with]) \subseteq Range(events'[turn[q].with])
      BY <1>7, <3>2
    <3>4. CASE Job[q].session = s
      <4>1. turn[q].with = p
        BY <1>1, <3>2, <3>4 DEF OfSession
      <4>2. q \in Range(SaidOf(s)) => Redirected(q) \in Range(events'[p])
        BY <1>7, <1>8
      <4> QED BY <3>1, <3>3, <3>4, <4>1, <4>2
    <3>5. CASE Job[q].session # s
      BY <1>4, <3>1, <3>2, <3>3, <3>5
    <3> QED BY <3>4, <3>5
  <2> QED BY <2>1, <2>2, <2>3 DEF Announced
<1>15. NotesOnce'
  <2>1. \A q \in Prompts : turn[q].pc # "idle" => turn'[q].pc # "idle"
    BY <1>5
  <2> QED BY <1>0, <1>12, <2>1, NotesStay
<1>16. \A z \in Sessions : session'[z] # None =>
           session'[z].turn = None \/ (session[z] # None /\ session'[z].turn = session[z].turn)
  BY <1>1, <1>2, <1>3
<1>17. PipeKept
  BY <1>0, PipeSame
<1>18. \A q \in Prompts : Closed(q) => Due(q)' \subseteq Due(q) /\ reply'[q] = reply[q]
  BY DEF Due
<1> QED BY <1>9, <1>11, <1>12, <1>13, <1>14, <1>15, <1>16, <1>17, <1>18, TalkFrame

LEMMA TopStreams ==
    ASSUME SInv, IInv, NEW p \in Prompts, Top(p), UNCHANGED windowVars
    PROVE  SInv'
<1> DEFINE s == Job[p].session
<1>0. AgentTypes /\ Turning
  BY Parts
<1>1. turn[p].pc = "top" /\ Running(p)
      /\ UNCHANGED <<mix, updates, sent, loaded, reply, toAgent>>
  BY DEF Top, At, Running
<1>2. s \in Sessions /\ Mine(p) = session[s] /\ session[s] \in SessionRecords /\ session[s] # None
  BY <1>0, <1>1, RunningHas, SessionFields DEF OfSession
<1>3. ASSUME NEW why \in {"NotAMember", "Cancelled"}, Over(p, why), UNCHANGED <<session, events>>
      PROVE  SInv'
  <2>1. why \in Stopped
    BY DEF Stopped
  <2> QED BY <1>1, <1>3, <2>1, OverStreams
<1>4. ASSUME session' = [session EXCEPT ![s].said = <<>>],
             Says(p, [i \in DOMAIN Mine(p).said |-> Redirected(Mine(p).said[i])]),
             IF turn[p].step >= mix.steps
             THEN Over(p, "StepLimit")
             ELSE turn' = [turn EXCEPT ![p].pc = "thinking", ![p].step = @ + 1]
      PROVE  SInv'
  <2>1. SessionOne(s, [Mine(p) EXCEPT !.said = <<>>])
    <3>1. session' = [session EXCEPT ![s] = [Mine(p) EXCEPT !.said = <<>>]]
      BY <1>2, <1>4
    <3>2. [Mine(p) EXCEPT !.said = <<>>] \in SessionRecords
      BY <1>2, SaidTaken
    <3> QED BY <1>0, <1>2, <3>1, <3>2, SetSession
  <2>2. Says(p, Echoes(s))
    <3>1. SaidOf(s) = Mine(p).said
      BY <1>2 DEF SaidOf
    <3> QED BY <1>4, <3>1 DEF Echoes
  <2>3. CASE turn[p].step >= mix.steps
    <3>1. "StepLimit" \in Stopped
      BY DEF Stopped
    <3>2. PICK t \in Turns : TurnOne(p, t) /\ t.pc = "over" /\ t.with = turn[p].with
      BY <1>0, <1>4, <2>3, <3>1, OverDoes
    <3> QED BY <1>1, <2>1, <2>2, <3>2, TakeStreams
  <2>4. CASE ~(turn[p].step >= mix.steps)
    <3>1. turn[p] \in Turns
      BY <1>0 DEF AgentTypes
    <3>2. turn' = [turn EXCEPT ![p] = Stepped(turn[p])]
      BY <1>4, <2>4 DEF Stepped
    <3>3. TurnOne(p, Stepped(turn[p]))
      BY <1>0, <3>1, <3>2, TurnSteps, SetTurn
    <3>4. PICK t \in Turns : t = Stepped(turn[p]) /\ t.pc = "thinking" /\ t.with = turn[p].with
      BY <3>1, TurnSteps
    <3> QED BY <1>1, <2>1, <2>2, <3>3, <3>4, TakeStreams
  <2> QED BY <2>3, <2>4
<1>5. CASE OwnerFor(Mine(p).target) = None
  BY <1>3, <1>5 DEF Top
<1>6. CASE OwnerFor(Mine(p).target) # None /\ Mine(p).stop
  BY <1>3, <1>6 DEF Top
<1>7. CASE OwnerFor(Mine(p).target) # None /\ ~Mine(p).stop
  BY <1>4, <1>7 DEF Top
<1> QED BY <1>5, <1>6, <1>7

\* A turn says a word of its own.
LEMMA WordStreams ==
    ASSUME SInv, IInv, UNCHANGED windowVars, NEW p \in Prompts, Running(p),
           NEW n \in Nat, Says(p, <<Text(p, n)>>),
           NEW t, TurnOne(p, t), t.with = turn[p].with, t.pc \in {"top", "thinking", "waiting", "over"},
           UNCHANGED <<mix, session, updates, sent, loaded, reply, toAgent>>
    PROVE  SInv'
<1> DEFINE s == Job[p].session
           e == Text(p, n)
<1>0. /\ AgentTypes /\ StreamTypes /\ events \in [Prompts -> Lists] /\ Origin /\ s \in Sessions
      /\ p \in Movers /\ toAgent \in Seq(Messages)
  BY Parts DEF AgentTypes
<1>1. e \in Updates /\ e.kind = "text" /\ e.of = p /\ \A q \in Prompts : Redirected(q) # e
  BY DEF Updates, Text, Redirected
<1>2. <<e>> \in Lists /\ Range(<<e>>) = {e}
  BY <1>1 DEF Lists, Range
<1> HIDE DEF e
<1>3. /\ events' \in [Prompts -> Lists] /\ events'[p] = Cat(events[p], <<e>>)
      /\ Range(events'[p]) = Range(events[p]) \cup Range(<<e>>)
      /\ \A q \in Prompts : q # p => events'[q] = events[q]
  BY <1>0, <1>2, SaysDoes DEF e
<1>4. turn'[p] = t /\ \A q \in Prompts : q # p => turn'[q] = turn[q]
  BY DEF TurnOne
<1>5. \A z \in Sessions : SaidOf(z)' = SaidOf(z)
  BY DEF SaidOf
<1>6. Still /\ \A z \in Sessions : WindowStill(z)
  BY WindowUntouched DEF Still
<1>7. /\ EventsOf(p, s) = events[p] /\ EventsOf(p, s)' = events'[p]
      /\ \A x \in Movers : x # p => EventsOf(x, s)' = EventsOf(x, s)
      /\ \A z \in Sessions : z # s => \A x \in Movers : EventsOf(x, z)' = EventsOf(x, z)
  BY <1>3, EventsMove
<1>8. ASSUME NEW z \in Sessions
      PROVE  Kept2(z)
  <2>1. CASE z = s
    <3>1. Echoes(s)' = Echoes(s)
      BY <1>0, <1>5, EchoesStay
    <3>2. EventsOf(p, s)' = EventsOf(p, s) \o <<e>>
      BY <1>3, <1>7 DEF Cat
    <3>3. \A u : /\ Once(Flow(s), u) /\ (u = e => ~Present(Flow(s), u))
                       => Once(Flow(s)', u) /\ (Present(Flow(s)', u) => Present(Flow(s), u) \/ u = e)
                 /\ Once(Tale(s), u) /\ (u = e => ~Present(Tale(s), u))
                       => Once(Tale(s)', u) /\ (Present(Tale(s)', u) => Present(Tale(s), u) \/ u = e)
      <4>1. PICK place : place = <<"events", p>>
        OBVIOUS
      <4>2. \E x \in Movers : /\ place = <<"events", x>> /\ Echoes(s)' = Echoes(s)
                              /\ EventsOf(x, s)' = EventsOf(x, s) \o <<e>>
                              /\ \A y \in Movers : y # x => EventsOf(y, s)' = EventsOf(y, s)
        BY <1>0, <1>7, <3>1, <3>2, <4>1
      <4>3. WindowStill(s) /\ updates'[s] = updates[s] /\ sent'[s] = sent[s]
        BY <1>0, <1>6
      <4> HIDE DEF s
      <4> QED BY <1>0, <1>1, <4>2, <4>3, SayKept
    <3> QED BY <1>1, <2>1, <3>3 DEF Kept2, FlowKept, TaleKept
  <2>2. CASE z # s
    <3>1. SameSource(z)
      BY <1>5, <1>7, <2>2, EchoesStay DEF SameSource
    <3> QED BY <1>0, <1>6, <3>1, UntouchedKept
  <2> QED BY <2>1, <2>2
<1>9. \A q \in Prompts : Running(q)' = Running(q) /\ turn'[q].with = turn[q].with
  BY <1>4 DEF Running
<1>10. TurnsSay'
  <2>1. Past' = Past
    BY DEF Past
  <2>2. ASSUME NEW q \in Prompts, NEW f \in Range(events'[q])
        PROVE  Own(q, f)
    <3>1. CASE f \in Range(events[q])
      BY <1>0, <3>1 DEF Origin, TurnsSay
    <3>2. CASE f \notin Range(events[q])
      <4>1. q = p /\ f = e
        BY <1>2, <1>3, <2>2, <3>2
      <4> QED BY <1>1, <4>1 DEF Own
    <3> QED BY <3>1, <3>2
  <2>3. ASSUME NEW q \in Prompts, ~Running(q)
        PROVE  events'[q] = <<>>
    BY <1>0, <1>3, <2>3 DEF Origin, TurnsSay
  <2>4. ASSUME NEW q \in Prompts, turn'[q].with # None
        PROVE  turn'[q].pc \in {"joined", "told", "ended"} /\ Job[turn'[q].with].session = Job[q].session
    <3>1. q # p
      BY <1>0, <1>9, <2>4 DEF Origin, TurnsSay, Running
    <3> QED BY <1>0, <1>4, <2>4, <3>1 DEF Origin, TurnsSay
  <2> QED BY <1>0, <1>3, <1>5, <1>9, <2>1, <2>2, <2>3, <2>4 DEF Origin, TurnsSay, Own, Noted
<1>11. JoinersAnnounced'
  <2> SUFFICES ASSUME NEW q \in Prompts, turn'[q].with # None PROVE Announced(q)'
    BY DEF JoinersAnnounced, Announced
  <2>1. q # p /\ turn'[q] = turn[q] /\ turn[q].with # None
    BY <1>0, <1>4, <1>9 DEF Origin, TurnsSay, Running
  <2>2. Announced(q) /\ Job[q].session \in Sessions
    BY <1>0, JobTyped DEF Origin, JoinersAnnounced
  <2>3. turn[q].pc = "joined" => turn[q].with \in Prompts
    BY JoinedHas, Parts
  <2>4. turn[q].pc = "joined" => Range(events[turn[q].with]) \subseteq Range(events'[turn[q].with])
    BY <1>3, <2>3
  <2>5. SaidOf(Job[q].session)' = SaidOf(Job[q].session)
    BY <1>5, <2>2
  <2> QED BY <2>1, <2>2, <2>4, <2>5 DEF Announced
<1>12. NotesOnce'
  <2>1. \A q \in Prompts : turn[q].pc # "idle" => turn'[q].pc # "idle"
    BY <1>4
  <2> QED BY <1>0, <1>9, <2>1, NotesStay
<1>13. PipeKept
  BY <1>0, PipeSame
<1>14. \A q \in Prompts : Closed(q) => Due(q)' \subseteq Due(q) /\ reply'[q] = reply[q]
  BY DEF Due
<1> QED BY <1>6, <1>8, <1>9, <1>10, <1>11, <1>12, <1>13, <1>14, TalkFrame

LEMMA ThinkStreams ==
    ASSUME SInv, IInv, NEW p \in Prompts, Think(p), UNCHANGED windowVars
    PROVE  SInv'
<1>0. AgentTypes /\ turn[p].step \in Nat
  BY Parts, TurnFields DEF AgentTypes
<1>1. Running(p) /\ UNCHANGED <<mix, session, updates, sent, loaded, reply, toAgent>>
  BY DEF Think, At, Running
<1>2. ASSUME NEW why \in {"Cancelled", "ModelFailed"}, Over(p, why), UNCHANGED events
      PROVE  SInv'
  <2>1. why \in Stopped
    BY DEF Stopped
  <2> QED BY <1>1, <1>2, <2>1, OverStreams
<1>3. ASSUME Says(p, <<Text(p, turn[p].step)>>), Over(p, "Completed")
      PROVE  SInv'
  <2>1. "Completed" \in Stopped
    BY DEF Stopped
  <2>2. PICK t \in Turns : TurnOne(p, t) /\ t.pc = "over" /\ t.with = turn[p].with
    BY <1>0, <1>3, <2>1, OverDoes
  <2> QED BY <1>0, <1>1, <1>3, <2>2, WordStreams
<1>4. ASSUME Says(p, <<Text(p, turn[p].step)>>), Goes(p, "waiting")
      PROVE  SInv'
  <2>1. "waiting" \in TurnPcs
    BY DEF TurnPcs
  <2>2. PICK t \in Turns : TurnOne(p, t) /\ t.pc = "waiting" /\ t.with = turn[p].with
    BY <1>0, <1>4, <2>1, GoesDoes
  <2> QED BY <1>0, <1>1, <1>4, <2>2, WordStreams
<1> QED BY <1>2, <1>3, <1>4 DEF Think

\* Where one update is in a list, and in what is put behind it.
UniqueIn(u, a) == \A i \in DOMAIN a : \A j \in DOMAIN a : a[i] = u /\ a[j] = u => i = j

LEMMA UniqueCat ==
    ASSUME NEW a \in Lists, NEW b \in Lists, NEW u, UniqueIn(u, a),
           u \notin Range(b) \/ (u \notin Range(a) /\ UniqueIn(u, b))
    PROVE  UniqueIn(u, Cat(a, b))
<1>0. a \in Seq(Updates) /\ b \in Seq(Updates)
  BY DEF Lists
<1>1. PICK n \in Nat, m \in Nat : n = Len(a) /\ m = Len(b)
  BY <1>0
<1>2. PICK c : c = Cat(a, b)
  OBVIOUS
<1>3. /\ DOMAIN a = 1 .. n /\ DOMAIN b = 1 .. m /\ DOMAIN c = 1 .. n + m
      /\ \A i \in 1 .. n : c[i] = a[i]
      /\ \A i \in 1 .. m : c[n + i] = b[i]
  BY <1>0, <1>1, <1>2, Joined2 DEF Cat
<1>4. ASSUME NEW i \in DOMAIN c, c[i] = u
      PROVE  (i \in DOMAIN a /\ a[i] = u) \/ (i - n \in DOMAIN b /\ b[i - n] = u /\ i \in Nat)
  <2>1. CASE i <= n
    BY <1>3, <1>4, <2>1
  <2>2. CASE ~(i <= n)
    <3>1. i - n \in 1 .. m /\ n + (i - n) = i /\ i \in Nat
      BY <1>3, <2>2
    <3>2. c[n + (i - n)] = b[i - n]
      BY <1>3, <3>1
    <3> QED BY <1>3, <1>4, <3>1, <3>2
  <2> QED BY <2>1, <2>2
<1>5. ASSUME NEW i \in DOMAIN c, NEW j \in DOMAIN c, c[i] = u, c[j] = u
      PROVE  i = j
  <2>1. (i \in DOMAIN a /\ a[i] = u) \/ (i - n \in DOMAIN b /\ b[i - n] = u /\ i \in Nat)
    BY <1>4, <1>5
  <2>2. (j \in DOMAIN a /\ a[j] = u) \/ (j - n \in DOMAIN b /\ b[j - n] = u /\ j \in Nat)
    BY <1>4, <1>5
  <2>3. CASE u \notin Range(b)
    BY <2>1, <2>2, <2>3 DEF Range, UniqueIn
  <2>4. CASE u \notin Range(a) /\ UniqueIn(u, b)
    <3>1. i - n \in DOMAIN b /\ b[i - n] = u /\ i \in Nat /\ j - n \in DOMAIN b /\ b[j - n] = u /\ j \in Nat
      BY <2>1, <2>2, <2>4 DEF Range
    <3>2. i - n = j - n
      BY <2>4, <3>1 DEF UniqueIn
    <3> QED BY <3>1, <3>2
  <2> QED BY <2>3, <2>4
<1> QED BY <1>2, <1>5 DEF UniqueIn

\* Something is sent: what notices are in it are new, and of prompts that started a turn.
LEMMA NotesSent ==
    ASSUME Origin, StreamTypes, NEW s \in Sessions, NEW list \in Lists,
           sent'[s] = Cat(sent[s], list), \A z \in Sessions : z # s => sent'[z] = sent[z],
           \A q \in Prompts : turn[q].pc # "idle" =>
               turn'[q].pc # "idle" /\ (turn[q].with = None => turn'[q].with = None),
           \A q \in Prompts : Note(q) \in Range(list) =>
               /\ Note(q) \notin Range(sent[s]) /\ UniqueIn(Note(q), list)
               /\ turn'[q].pc # "idle" /\ turn'[q].with = None
    PROVE  NotesOnce'
<1> SUFFICES ASSUME NEW q \in Prompts PROVE NotedOnce(q)'
  BY DEF NotesOnce
<1>1. PICK z \in Sessions : z = Job[q].session
  BY JobTyped
<1>2. Note(q) \in Range(sent[z]) => turn[q].pc # "idle" /\ turn[q].with = None
  BY <1>1 DEF Origin, NotesOnce, NotedOnce
<1>3. UniqueIn(Note(q), sent[z])
  BY <1>1 DEF Origin, NotesOnce, NotedOnce, UniqueIn
<1>4. /\ Note(q) \in Range(sent'[z]) => turn'[q].pc # "idle" /\ turn'[q].with = None
      /\ UniqueIn(Note(q), sent'[z])
  <2>1. CASE z = s
    <3>1. PICK a \in Lists : a = sent[s]
      BY ListOf
    <3>2. Range(Cat(a, list)) = Range(a) \cup Range(list)
      BY Put
    <3>3. UniqueIn(Note(q), Cat(a, list))
      BY <1>3, <2>1, <3>1, UniqueCat
    <3> QED BY <1>2, <2>1, <3>1, <3>2, <3>3
  <2>2. CASE z # s
    BY <1>2, <1>3, <2>2
  <2> QED BY <2>1, <2>2
<1>5. Note(q)' = Note(q)
  BY DEF Note
<1> QED BY <1>1, <1>4, <1>5 DEF NotedOnce, UniqueIn

\* What the agent sends, in the terms of the frames.
LEMMA SendDoes ==
    ASSUME StreamTypes, NEW s \in Sessions, NEW list \in Lists, Send(s, list), UNCHANGED windowVars
    PROVE  /\ updates'[s] = Cat(updates[s], list) /\ sent'[s] = Cat(sent[s], list)
           /\ \A z \in Sessions : z # s => updates'[z] = updates[z] /\ sent'[z] = sent[z]
           /\ Range(sent'[s]) = Range(sent[s]) \cup Range(list)
           /\ \A z \in Sessions : Range(sent[z]) \subseteq Range(sent'[z])
           /\ Sends(s, list) /\ \A z \in Sessions : WindowStill(z)
<1>1. /\ updates'[s] = Cat(updates[s], list) /\ sent'[s] = Cat(sent[s], list)
      /\ \A z \in Sessions : z # s => updates'[z] = updates[z] /\ sent'[z] = sent[z]
  BY SendIs
<1>2. PICK a \in Lists : a = sent[s]
  BY ListOf
<1>3. Range(Cat(a, list)) = Range(a) \cup Range(list)
  BY Put
<1>4. Sends(s, list) /\ \A z \in Sessions : WindowStill(z)
  BY WindowUntouched DEF Sends
<1>5. \A z \in Sessions : Range(sent[z]) \subseteq Range(sent'[z])
  BY <1>1, <1>2, <1>3
<1> QED BY <1>1, <1>2, <1>3, <1>4, <1>5

\* The events task passes on what a turn said.
LEMMA PassOnStreams ==
    ASSUME SInv, IInv, NEW p \in Prompts, PassOn(p), UNCHANGED windowVars
    PROVE  SInv'
<1> DEFINE s == Job[p].session
<1>0. /\ AgentTypes /\ StreamTypes /\ events \in [Prompts -> Lists] /\ Origin /\ Turning /\ s \in Sessions
      /\ p \in Movers /\ toAgent \in Seq(Messages)
  BY Parts DEF AgentTypes
<1>1. /\ events[p] # <<>> /\ events' = [events EXCEPT ![p] = <<>>] /\ Send(s, events[p])
      /\ UNCHANGED <<mix, session, turn, toAgent, reply, loaded>>
  BY DEF PassOn
<1>2. PICK list \in Lists : list = events[p]
  BY <1>0
<1>3. /\ events' \in [Prompts -> Lists] /\ events'[p] = <<>>
      /\ \A q \in Prompts : q # p => events'[q] = events[q]
  BY <1>0, <1>1, EmptyList
<1>4. /\ updates'[s] = Cat(updates[s], list) /\ sent'[s] = Cat(sent[s], list)
      /\ \A z \in Sessions : z # s => updates'[z] = updates[z] /\ sent'[z] = sent[z]
      /\ Range(sent'[s]) = Range(sent[s]) \cup Range(list)
      /\ \A z \in Sessions : Range(sent[z]) \subseteq Range(sent'[z])
      /\ Sends(s, list) /\ \A z \in Sessions : WindowStill(z)
  BY <1>0, <1>1, <1>2, SendDoes
<1>5. \A z \in Sessions : SaidOf(z)' = SaidOf(z)
  BY <1>1 DEF SaidOf
<1>6. /\ EventsOf(p, s) = events[p] /\ EventsOf(p, s)' = events'[p]
      /\ \A x \in Movers : x # p => EventsOf(x, s)' = EventsOf(x, s)
      /\ \A z \in Sessions : z # s => \A x \in Movers : EventsOf(x, z)' = EventsOf(x, z)
  BY <1>3, EventsMove
<1>7. ASSUME NEW z \in Sessions
      PROVE  Kept2(z)
  <2>1. CASE z = s
    <3>1. Echoes(s)' = Echoes(s)
      BY <1>0, <1>5, EchoesStay
    <3>2. /\ WindowStill(s) /\ EventsOf(p, s)' = <<>>
          /\ updates'[s] = Cat(updates[s], EventsOf(p, s)) /\ sent'[s] = Cat(sent[s], EventsOf(p, s))
      BY <1>0, <1>2, <1>3, <1>4, <1>6
    <3> QED BY <1>0, <1>6, <2>1, <3>1, <3>2, PassKept
  <2>2. CASE z # s
    <3>1. SameSource(z) /\ updates'[z] = updates[z] /\ sent'[z] = sent[z] /\ WindowStill(z)
      BY <1>4, <1>5, <1>6, <2>2, EchoesStay DEF SameSource
    <3> QED BY <1>0, <3>1, UntouchedKept
  <2> QED BY <2>1, <2>2
<1>8. Running(p)
  BY <1>0, <1>1 DEF Origin, TurnsSay
<1>9. \A e \in Range(list) : Own(p, e)
  BY <1>0, <1>2 DEF Origin, TurnsSay
<1>10. TurnsSay'
  <2>1. Past' = Past /\ \A q \in Prompts : Running(q)' = Running(q)
    BY <1>1 DEF Past, Running
  <2>2. ASSUME NEW q \in Prompts
        PROVE  /\ Range(events'[q]) \subseteq Range(events[q])
               /\ ~Running(q) => events'[q] = <<>>
    BY <1>0, <1>3, EmptyRange DEF Origin, TurnsSay
  <2>3. ASSUME NEW z \in Sessions, NEW e \in Range(sent'[z])
        PROVE  e.kind = "text" \/ (e.kind \in {"earlier", "history"} /\ e \in Past) \/ Noted(z, e)
    <3>1. CASE e \in Range(sent[z])
      BY <1>0, <3>1 DEF Origin, TurnsSay
    <3>2. CASE e \notin Range(sent[z])
      <4>1. z = s /\ e \in Range(list)
        BY <1>4, <2>3, <3>2
      <4> QED BY <1>9, <4>1 DEF Own, Noted
    <3> QED BY <3>1, <3>2
  <2>4. \A q \in Prompts : \A e \in Range(events'[q]) : Own(q, e)
    BY <1>0, <2>2 DEF Origin, TurnsSay
  <2> QED BY <1>0, <1>1, <1>3, <1>5, <2>1, <2>2, <2>3, <2>4 DEF Origin, TurnsSay, Own, Noted
<1>11. JoinersAnnounced'
  <2> SUFFICES ASSUME NEW q \in Prompts, turn[q].with # None PROVE Announced(q)'
    BY <1>1 DEF JoinersAnnounced, Announced
  <2>1. Announced(q) /\ Job[q].session \in Sessions
    BY <1>0, JobTyped DEF Origin, JoinersAnnounced
  <2>2. SaidOf(Job[q].session)' = SaidOf(Job[q].session)
        /\ Range(sent[Job[q].session]) \subseteq Range(sent'[Job[q].session])
    BY <1>4, <1>5, <2>1
  <2>3. ASSUME turn[q].pc = "joined", Redirected(q) \in Range(events[turn[q].with])
        PROVE  Redirected(q) \in Range(events'[turn[q].with]) \/ Redirected(q) \in Range(sent'[Job[q].session])
    <3>1. turn[q].with \in Prompts /\ Job[turn[q].with].session = Job[q].session
      BY <1>0, <2>3, JoinedHas
    <3>2. CASE turn[q].with = p
      BY <1>2, <1>4, <2>3, <3>1, <3>2
    <3>3. CASE turn[q].with # p
      BY <1>3, <2>3, <3>1, <3>3
    <3> QED BY <3>2, <3>3
  <2> QED BY <1>1, <2>1, <2>2, <2>3 DEF Announced
<1>12. NotesOnce'
  <2>1. \A q \in Prompts : Note(q) \notin Range(list)
    <3>1. \A q \in Prompts : Note(q).kind = "note" /\ \A r \in Prompts : Note(q) # Redirected(r)
      BY NoticesTyped DEF Note
    <3> QED BY <1>9, <3>1 DEF Own
  <2> QED BY <1>0, <1>1, <1>4, <2>1, NotesSent
<1>13. PipeKept
  BY <1>0, <1>1, PipeSame
<1>14. ASSUME NEW q \in Prompts, Closed(q)
       PROVE  Due(q)' \subseteq Due(q) /\ reply'[q] = reply[q]
  <2>1. ~Running(q) /\ (turn[q].with # None => Redirected(q) \in Range(sent[Job[q].session]))
    BY <1>14, ClosedIsOver
  <2>2. q # p /\ Job[q].session \in Sessions
    BY <1>8, <2>1, JobTyped
  <2>3. ASSUME NEW e \in Range(sent'[Job[q].session]), (e.kind = "text" /\ e.of = q) \/ e = Redirected(q)
        PROVE  e \in Range(sent[Job[q].session])
    <3> SUFFICES ASSUME e \notin Range(sent[Job[q].session]) PROVE FALSE
      OBVIOUS
    <3>1. Job[q].session = s /\ e \in Range(list)
      BY <1>4, <2>2, <2>3
    <3>2. CASE e = Redirected(q)
      <4>1. turn[q].with # None
        BY <1>2, <3>1, <3>2, UnderWay
      <4> QED BY <2>1, <3>2, <4>1
    <3>3. CASE e.kind = "text" /\ e.of = q
      <4>1. \A r \in Prompts : Redirected(r).kind = "redirected"
        BY DEF Redirected
      <4> QED BY <1>9, <2>2, <3>1, <3>3, <4>1 DEF Own
    <3> QED BY <2>3, <3>2, <3>3
  <2>4. Due(q)' = {e \in Range(sent'[Job[q].session]) : (e.kind = "text" /\ e.of = q) \/ e = Redirected(q)}
    BY DEF Due, Redirected
  <2> QED BY <1>1, <2>3, <2>4 DEF Due
<1>15. \A z \in Sessions : session'[z] # None =>
           session'[z].turn = None \/ (session[z] # None /\ session'[z].turn = session[z].turn)
  BY <1>1
<1>16. UNCHANGED mix /\ (\A q \in Prompts : turn'[q].with = turn[q].with)
  BY <1>1
<1>17. \A z \in Sessions : loaded'[z] = "ok" => (loaded[z] = "ok" \/ Past \subseteq Range(sent'[z]))
  BY <1>1
<1>18. \E s_1 \in Sessions : \E list_1 \in Lists : Sends(s_1, list_1)
  BY <1>0, <1>4
<1>19. \A z \in Sessions : Kept2(z)
  BY <1>7
<1> HIDE DEF s
<1> QED BY <1>10, <1>11, <1>12, <1>13, <1>14, <1>15, <1>16, <1>17, <1>18, <1>19, TalkFrame

\* Nothing is sent: a session that nobody says anything more in keeps what is under way.
LEMMA SilentKept ==
    ASSUME AgentTypes, StreamTypes, events \in [Prompts -> Lists], NEW s \in Sessions, WindowStill(s),
           UNCHANGED <<events, updates, sent>>, Echoes(s)' = Echoes(s) \/ Echoes(s)' = <<>>
    PROVE  Kept2(s)
<1>1. \A x \in Movers : EventsOf(x, s)' = EventsOf(x, s)
  BY DEF EventsOf
<1>2. PICK a \in Lists, b \in Lists : a = updates[s] /\ b = sent[s]
  BY ListOf
<1>3. Cat(a, <<>>) = a /\ Cat(b, <<>>) = b
  BY PutNone
<1>4. updates'[s] = Cat(updates[s], <<>>) /\ sent'[s] = Cat(sent[s], <<>>)
  BY <1>2, <1>3
<1>5. <<>> \in Lists /\ \A p \in Prompts : Redirected(p) \notin Range(<<>>)
  BY EmptyList, EmptyRange
<1> QED BY <1>1, <1>4, <1>5, SendKept

\* The end of a turn: everything it had to say was sent, and who joined it was announced or is told
\* that it was not heard.
LEMMA EndStreams ==
    ASSUME SInv, IInv, NEW p \in Prompts, End(p), UNCHANGED windowVars
    PROVE  SInv'
<1> DEFINE s == Job[p].session
<1>0. /\ AgentTypes /\ StreamTypes /\ events \in [Prompts -> Lists] /\ Origin /\ Turning /\ s \in Sessions
      /\ p \in Movers /\ toAgent \in Seq(Messages)
  BY Parts DEF AgentTypes
<1>1. turn[p].pc = "over" /\ events[p] = <<>> /\ UNCHANGED <<mix, events, updates, toAgent, loaded, sent>>
  BY DEF End, At, AllSaid
<1>2. Ends(p) /\ Running(p)
  BY <1>0, <1>1, EndDoes DEF Running
<1>3. /\ session[s] \in SessionRecords /\ session[s] # None /\ session[s].turn = p
      /\ Mine(p) = session[s] /\ turn[p].with = None
  <2>1. Mine(p) = OfSession(p) /\ OfSession(p) \in SessionRecords /\ OfSession(p).turn = p
    BY <1>0, <1>2, RunningHas
  <2>2. turn[p].with = None
    BY <1>0, <1>1 DEF Origin, TurnsSay
  <2> QED BY <2>1, <2>2, SessionFields DEF OfSession
<1>4. PICK r \in SessionRecords : r = session'[s] /\ r # None /\ r.turn = None /\ r.said = <<>>
  <2>1. session'[s] = Release(s)
    BY <1>2 DEF Ends, SessionOne
  <2>2. Release(s) \in SessionRecords /\ Release(s).turn = None /\ Release(s).said = <<>>
    BY <1>0, <1>3, Released
  <2> QED BY <2>1, <2>2, SessionFields
<1>5. \A z \in Sessions : z # s => session'[z] = session[z] /\ SaidOf(z)' = SaidOf(z)
  BY <1>2 DEF Ends, SessionOne, SaidOf
<1>6. SaidOf(s)' = <<>>
  BY <1>4 DEF SaidOf
<1>7. /\ turn'[p].pc = "ended" /\ turn'[p].with = turn[p].with
      /\ \A q \in Prompts \ {p} :
            IF turn[q].pc = "joined" /\ turn[q].with = p
            THEN /\ turn'[q].pc = "told" /\ turn'[q].why = JoinersTold(p, turn[p].why)
                 /\ turn'[q].with = turn[q].with
            ELSE turn'[q] = turn[q]
      /\ \A q \in Prompts : q # p => reply'[q] = reply[q]
  BY <1>0, <1>2 DEF Ends, AgentTypes
<1> HIDE DEF s
<1>8. UNCHANGED mix /\ \A q \in Prompts : turn'[q].with = turn[q].with
  BY <1>1, <1>7
<1>9. Still /\ \A z \in Sessions : WindowStill(z)
  BY <1>1, WindowUntouched DEF Still
<1>10. \A z \in Sessions : Kept2(z)
  <2>1. \A z \in Sessions : Echoes(z)' = Echoes(z) \/ Echoes(z)' = <<>>
    BY <1>5, <1>6, EchoesNext, EchoesStay
  <2> QED BY <1>0, <1>1, <1>9, <2>1, SilentKept
<1>11. TurnsSay'
  <2>1. Past' = Past
    BY <1>1 DEF Past
  <2>2. \A q \in Prompts : ~Running(q)' => events'[q] = <<>>
    <3>1. \A q \in Prompts : Running(q) /\ ~Running(q)' => q = p
      BY <1>7 DEF Running
    <3> QED BY <1>0, <1>1, <3>1 DEF Origin, TurnsSay
  <2>3. \A q \in Prompts : turn'[q].with # None =>
              turn'[q].pc \in {"joined", "told", "ended"} /\ Job[turn'[q].with].session = Job[q].session
    BY <1>0, <1>7 DEF Origin, TurnsSay
  <2>4. \A z \in Sessions : \A e \in Range(SaidOf(z)') : Job[e].session = z
    BY <1>0, <1>5, <1>6, EmptyRange DEF Origin, TurnsSay
  <2> QED BY <1>0, <1>1, <2>1, <2>2, <2>3, <2>4 DEF Origin, TurnsSay, Own, Noted
<1>12. JoinersAnnounced'
  <2> SUFFICES ASSUME NEW q \in Prompts, turn[q].with # None PROVE Announced(q)'
    BY <1>8 DEF JoinersAnnounced, Announced
  <2>1. Announced(q) /\ Job[q].session \in Sessions /\ q # p
    BY <1>0, <1>3, JobTyped DEF Origin, JoinersAnnounced
  <2>2. reply'[q] = reply[q] /\ turn'[q].with = turn[q].with
    BY <1>7, <2>1
  <2>3. CASE turn[q].pc = "joined" /\ turn[q].with = p
    <3>1. turn'[q].pc = "told" /\ turn'[q].why = JoinersTold(p, turn[p].why)
      BY <1>7, <2>1, <2>3
    <3>2. Job[q].session = s
      BY <1>0, <2>3, JoinedHas DEF s
    <3>3. CASE session[s].said # <<>>
      <4>1. turn'[q].why = "unheard"
        BY <1>3, <3>1, <3>3 DEF JoinersTold
      <4> QED BY <3>1, <4>1 DEF Announced
    <3>4. CASE session[s].said = <<>>
      <4>1. Range(SaidOf(s)) = {} /\ Range(events[p]) = {}
        BY <1>1, <3>4, EmptyRange DEF SaidOf
      <4>2. Redirected(q) \in Range(sent[s])
        BY <2>1, <2>3, <3>2, <4>1 DEF Announced
      <4> QED BY <1>1, <3>1, <3>2, <4>2 DEF Announced, Redirected
    <3> QED BY <3>3, <3>4
  <2>4. CASE ~(turn[q].pc = "joined" /\ turn[q].with = p)
    <3>1. turn'[q] = turn[q]
      BY <1>7, <2>1, <2>4
    <3>2. turn[q].pc = "joined" => Job[q].session # s
      BY <1>0, <1>3, <2>4, JoinedHas DEF OfSession
    <3>3. turn[q].pc = "joined" => SaidOf(Job[q].session)' = SaidOf(Job[q].session)
      BY <1>5, <2>1, <3>2
    <3> QED BY <1>1, <2>1, <2>2, <3>1, <3>3 DEF Announced, Redirected
  <2> QED BY <2>3, <2>4
<1>13. NotesOnce'
  <2>1. \A q \in Prompts : turn[q].pc # "idle" => turn'[q].pc # "idle"
    BY <1>7
  <2> QED BY <1>0, <1>1, <1>8, <2>1, NotesStay
<1>14. PipeKept
  BY <1>0, <1>1, PipeSame
<1>15. \A q \in Prompts : Closed(q) => Due(q)' \subseteq Due(q) /\ reply'[q] = reply[q]
  <2> SUFFICES ASSUME NEW q \in Prompts, Closed(q) PROVE Due(q)' \subseteq Due(q) /\ reply'[q] = reply[q]
    OBVIOUS
  <2>1. q # p
    BY <1>2, ClosedIsOver
  <2> QED BY <1>1, <1>7, <2>1 DEF Due, Redirected
<1>16. \A z \in Sessions : session'[z] # None =>
           session'[z].turn = None \/ (session[z] # None /\ session'[z].turn = session[z].turn)
  BY <1>4, <1>5 DEF s
<1>17. \A z \in Sessions : loaded'[z] = "ok" => (loaded[z] = "ok" \/ Past \subseteq Range(sent'[z]))
  BY <1>1
<1> QED BY <1>8, <1>9, <1>10, <1>11, <1>12, <1>13, <1>14, <1>15, <1>16, <1>17, TalkFrame

\* The task of a message that joined is answered.
LEMMA JoinedStreams ==
    ASSUME SInv, IInv, NEW p \in Prompts, Joined(p), UNCHANGED windowVars
    PROVE  SInv'
<1>0. /\ AgentTypes /\ StreamTypes /\ events \in [Prompts -> Lists] /\ Origin /\ Turning
      /\ toAgent \in Seq(Messages)
  BY Parts DEF AgentTypes
<1>1. /\ turn[p].pc = "told" /\ Goes(p, "ended") /\ reply' = [reply EXCEPT ![p] = turn[p].why]
      /\ UNCHANGED <<mix, session, events, updates, toAgent, loaded, sent>>
  BY DEF Joined, At
<1>2. "ended" \in TurnPcs
  BY DEF TurnPcs
<1>3. PICK t \in Turns : TurnOne(p, t) /\ t.pc = "ended" /\ t.with = turn[p].with
  BY <1>0, <1>1, <1>2, GoesDoes
<1>4. turn'[p] = t /\ \A q \in Prompts : q # p => turn'[q] = turn[q]
  BY <1>3 DEF TurnOne
<1>5. reply'[p] = turn[p].why /\ \A q \in Prompts : q # p => reply'[q] = reply[q]
  BY <1>0, <1>1 DEF AgentTypes
<1>6. UNCHANGED mix /\ \A q \in Prompts : turn'[q].with = turn[q].with
  BY <1>1, <1>3, <1>4
<1>7. Still /\ \A z \in Sessions : WindowStill(z)
  BY <1>1, WindowUntouched DEF Still
<1>8. \A z \in Sessions : SaidOf(z)' = SaidOf(z)
  BY <1>1 DEF SaidOf
<1>9. \A z \in Sessions : Kept2(z)
  BY <1>0, <1>1, <1>7, <1>8, EchoesStay, SilentKept
<1>10. TurnsSay'
  <2>1. Past' = Past /\ \A q \in Prompts : Running(q)' = Running(q)
    BY <1>1, <1>3, <1>4 DEF Past, Running
  <2>2. \A q \in Prompts : turn'[q].with # None =>
              turn'[q].pc \in {"joined", "told", "ended"} /\ Job[turn'[q].with].session = Job[q].session
    BY <1>0, <1>3, <1>4 DEF Origin, TurnsSay
  <2> QED BY <1>0, <1>1, <1>8, <2>1, <2>2 DEF Origin, TurnsSay, Own, Noted
<1>11. JoinersAnnounced'
  <2> SUFFICES ASSUME NEW q \in Prompts, turn[q].with # None PROVE Announced(q)'
    BY <1>6 DEF JoinersAnnounced, Announced
  <2>1. Announced(q) /\ Job[q].session \in Sessions
    BY <1>0, JobTyped DEF Origin, JoinersAnnounced
  <2>2. CASE q = p
    BY <1>1, <1>3, <1>4, <1>5, <2>1, <2>2 DEF Announced, Redirected
  <2>3. CASE q # p
    BY <1>1, <1>4, <1>5, <1>8, <2>1, <2>3 DEF Announced, Redirected
  <2> QED BY <2>2, <2>3
<1>12. NotesOnce'
  <2>1. \A q \in Prompts : turn[q].pc # "idle" => turn'[q].pc # "idle"
    BY <1>3, <1>4
  <2> QED BY <1>0, <1>1, <1>6, <2>1, NotesStay
<1>13. PipeKept
  BY <1>0, <1>1, PipeSame
<1>14. \A q \in Prompts : Closed(q) => Due(q)' \subseteq Due(q) /\ reply'[q] = reply[q]
  <2> SUFFICES ASSUME NEW q \in Prompts, Closed(q) PROVE Due(q)' \subseteq Due(q) /\ reply'[q] = reply[q]
    OBVIOUS
  <2>1. q # p
    BY <1>1, ClosedIsOver
  <2> QED BY <1>1, <1>5, <2>1 DEF Due, Redirected
<1>15. \A z \in Sessions : session'[z] # None =>
           session'[z].turn = None \/ (session[z] # None /\ session'[z].turn = session[z].turn)
  BY <1>1
<1>16. \A z \in Sessions : loaded'[z] = "ok" => (loaded[z] = "ok" \/ Past \subseteq Range(sent'[z]))
  BY <1>1
<1> QED BY <1>6, <1>7, <1>9, <1>10, <1>11, <1>12, <1>13, <1>14, <1>15, <1>16, TalkFrame

\* A message that is read is gone from the pipe.
LEMMA PipeTaken ==
    ASSUME toAgent \in Seq(Messages), toAgent # <<>>, toAgent' = Tail(toAgent)
    PROVE  /\ PipeKept /\ 1 \in DOMAIN toAgent /\ Head(toAgent) = toAgent[1] /\ Head(toAgent) \in Messages
           /\ \A i \in DOMAIN toAgent' : i \in Nat /\ i + 1 \in DOMAIN toAgent /\ toAgent'[i] = toAgent[i + 1]
<1>1. /\ 1 \in DOMAIN toAgent /\ Head(toAgent) = toAgent[1] /\ Head(toAgent) \in Messages
      /\ \A i \in DOMAIN toAgent' : i \in Nat /\ i + 1 \in DOMAIN toAgent /\ toAgent'[i] = toAgent[i + 1]
  BY HeadAndTail
<1>2. 1 \in Nat
  OBVIOUS
<1> QED BY <1>1, <1>2 DEF PipeKept

\* The history of a conversation, as it is replayed: none of it is a notice or a word of a turn.
LEMMA ReplayIs ==
    ASSUME NEW total \in Nat, NEW limit \in Nat
    PROVE  /\ Replay(total, limit) \in Lists
           /\ \A e \in Range(Replay(total, limit)) : e.kind \in {"earlier", "history"}
<1> DEFINE shown_ == IF total <= limit THEN total ELSE limit
           older == ReplayNotice(total, shown_)
           shown0 == [k \in 1 .. shown_ |-> History(total - shown_ + k)]
<1>1. shown_ \in Nat /\ total - shown_ \in Nat
  OBVIOUS
<1>2. older \in Seq(Updates) /\ \A e \in Range(older) : e.kind \in {"earlier", "history"}
  <2>1. Earlier \in Updates /\ Earlier.kind = "earlier"
    BY DEF Earlier, Updates
  <2>2. <<Earlier>> \in Seq(Updates) /\ Range(<<Earlier>>) = {Earlier}
    BY <2>1 DEF Range
  <2>3. <<>> \in Seq(Updates) /\ Range(<<>>) = {}
    BY EmptyRange
  <2> QED BY <2>1, <2>2, <2>3 DEF ReplayNotice
<1>3. shown0 \in Seq(Updates) /\ \A e \in Range(shown0) : e.kind \in {"earlier", "history"}
  <2> HIDE DEF shown_
  <2>1. \A k \in 1 .. shown_ : History(total - shown_ + k) \in Updates /\ History(total - shown_ + k).kind = "history"
    BY <1>1 DEF History, Updates
  <2>2. shown0 \in [1 .. shown_ -> Updates]
    BY <2>1
  <2>3. shown0 \in Seq(Updates)
    BY <1>1, <2>2
  <2>4. \A e \in Range(shown0) : e.kind \in {"earlier", "history"}
    BY <2>1 DEF Range
  <2> QED BY <2>3, <2>4
<1>4. Replay(total, limit) = older \o shown0
  BY DEF Replay
<1> HIDE DEF older, shown0
<1> QED BY <1>2, <1>3, <1>4, Joined2 DEF Lists

\* A conversation is loaded: it has no turn, and its history is sent.
LEMMA LoadedStreams ==
    ASSUME SInv, IInv, UNCHANGED windowVars, UNCHANGED <<mix, events, turn, reply>>,
           toAgent # <<>>, toAgent' = Tail(toAgent), NEW s \in Sessions, Bound(s), NEW t \in Targets,
           SessionOne(s, Fresh(t)), Send(s, Replay(mix.history, mix.replayLimit)),
           loaded' = [loaded EXCEPT ![s] = "ok"]
    PROVE  SInv'
<1>0. /\ AgentTypes /\ StreamTypes /\ events \in [Prompts -> Lists] /\ Origin /\ Turning
      /\ toAgent \in Seq(Messages)
  BY Parts DEF AgentTypes
<1>1. PICK list \in Lists : /\ list = Replay(mix.history, mix.replayLimit) /\ Range(list) = Past
                            /\ \A e \in Range(list) : e.kind \in {"earlier", "history"}
  <2>1. mix.history \in Nat /\ mix.replayLimit \in Nat
    BY <1>0, AcpAssumption DEF AgentTypes
  <2> QED BY <2>1, ReplayIs DEF Past
<1>2. /\ updates'[s] = Cat(updates[s], list) /\ sent'[s] = Cat(sent[s], list)
      /\ \A z \in Sessions : z # s => updates'[z] = updates[z] /\ sent'[z] = sent[z]
      /\ Range(sent'[s]) = Range(sent[s]) \cup Range(list)
      /\ \A z \in Sessions : Range(sent[z]) \subseteq Range(sent'[z])
      /\ Sends(s, list) /\ \A z \in Sessions : WindowStill(z)
  BY <1>0, <1>1, SendDoes
<1>3. /\ session'[s] = Fresh(t) /\ session'[s].turn = None /\ SaidOf(s)' = <<>>
      /\ \A z \in Sessions : z # s => session'[z] = session[z] /\ SaidOf(z)' = SaidOf(z)
  BY DEF SessionOne, Fresh, SaidOf
<1>4. \A q \in Prompts : /\ ~(Redirected(q) \in Range(list)) /\ ~(Note(q) \in Range(list))
  BY <1>1 DEF Redirected, Note
<1>5. \A q \in Prompts : turn[q].pc = "joined" => Job[q].session # s
  BY <1>0, UnboundRuns
<1>6. \A x \in Movers : \A z \in Sessions : EventsOf(x, z)' = EventsOf(x, z)
  BY DEF EventsOf
<1>7. ASSUME NEW z \in Sessions
      PROVE  Kept2(z)
  <2>1. CASE z = s
    <3>1. Echoes(s)' = <<>>
      BY <1>3, EchoesNext
    <3> QED BY <1>0, <1>2, <1>4, <1>6, <2>1, <3>1, SendKept
  <2>2. CASE z # s
    <3>1. SameSource(z) /\ updates'[z] = updates[z] /\ sent'[z] = sent[z] /\ WindowStill(z)
      BY <1>2, <1>3, <1>6, <2>2, EchoesStay DEF SameSource
    <3> QED BY <1>0, <3>1, UntouchedKept
  <2> QED BY <2>1, <2>2
<1>8. TurnsSay'
  <2>1. Past' = Past /\ \A q \in Prompts : Running(q)' = Running(q)
    BY DEF Past, Running
  <2>2. ASSUME NEW z \in Sessions, NEW e \in Range(sent'[z])
        PROVE  e.kind = "text" \/ (e.kind \in {"earlier", "history"} /\ e \in Past) \/ Noted(z, e)
    <3>1. CASE e \in Range(sent[z])
      BY <1>0, <3>1 DEF Origin, TurnsSay
    <3>2. CASE e \notin Range(sent[z])
      BY <1>1, <1>2, <2>2, <3>2
    <3> QED BY <3>1, <3>2
  <2>3. \A z \in Sessions : \A e \in Range(SaidOf(z)') : Job[e].session = z
    BY <1>0, <1>3, EmptyRange DEF Origin, TurnsSay
  <2> QED BY <1>0, <2>1, <2>2, <2>3 DEF Origin, TurnsSay, Own, Noted
<1>9. JoinersAnnounced'
  <2> SUFFICES ASSUME NEW q \in Prompts, turn[q].with # None PROVE Announced(q)'
    BY DEF JoinersAnnounced, Announced
  <2>1. Announced(q) /\ Job[q].session \in Sessions
    BY <1>0, JobTyped DEF Origin, JoinersAnnounced
  <2>2. turn[q].pc = "joined" => SaidOf(Job[q].session)' = SaidOf(Job[q].session)
    BY <1>3, <1>5, <2>1
  <2>3. Range(sent[Job[q].session]) \subseteq Range(sent'[Job[q].session])
    BY <1>2, <2>1
  <2> QED BY <2>1, <2>2, <2>3 DEF Announced, Redirected
<1>10. NotesOnce'
  BY <1>0, <1>2, <1>4, NotesSent
<1>11. PipeKept
  BY <1>0, PipeTaken
<1>12. \A q \in Prompts : Closed(q) => Due(q)' \subseteq Due(q) /\ reply'[q] = reply[q]
  <2> SUFFICES ASSUME NEW q \in Prompts PROVE Due(q)' \subseteq Due(q)
    OBVIOUS
  <2>1. Job[q].session \in Sessions
    BY JobTyped
  <2>2. Due(q)' = {e \in Range(sent'[Job[q].session]) : (e.kind = "text" /\ e.of = q) \/ e = Redirected(q)}
    BY DEF Due, Redirected
  <2>3. \A e \in Range(sent'[Job[q].session]) : e \in Range(sent[Job[q].session]) \/ e \in Range(list)
    BY <1>2, <2>1
  <2> QED BY <1>1, <1>4, <2>2, <2>3 DEF Due
<1>13. \A z \in Sessions : session'[z] # None =>
           session'[z].turn = None \/ (session[z] # None /\ session'[z].turn = session[z].turn)
  BY <1>3
<1>14. \A z \in Sessions : loaded'[z] = "ok" => (loaded[z] = "ok" \/ Past \subseteq Range(sent'[z]))
  BY <1>1, <1>2
<1>15. UNCHANGED mix /\ \A q \in Prompts : turn'[q].with = turn[q].with
  OBVIOUS
<1>16. \E s_1 \in Sessions : \E list_1 \in Lists : Sends(s_1, list_1)
  BY <1>2
<1>17. \A z \in Sessions : Kept2(z)
  BY <1>7
<1> QED BY <1>8, <1>9, <1>10, <1>11, <1>12, <1>13, <1>14, <1>15, <1>16, <1>17, TalkFrame

LEMMA LoadStreams ==
    ASSUME SInv, IInv, UNCHANGED windowVars, UNCHANGED mix, toAgent # <<>>, toAgent' = Tail(toAgent),
           NEW s \in Sessions, Load(s)
    PROVE  SInv'
<1> DEFINE t == ResolveTarget(Want[s])
<1>0. AgentTypes /\ toAgent \in Seq(Messages)
  BY Parts DEF AgentTypes
<1>1. UNCHANGED <<turn, events, reply>>
  BY DEF Load
<1>2. CASE t = None \/ ~Bound(s)
  <2>1. UNCHANGED <<session, updates, sent>> /\ loaded' = [loaded EXCEPT ![s] = "refused"]
    BY <1>2 DEF Load
  <2>2. \A z \in Sessions : loaded'[z] = "ok" => loaded[z] = "ok"
    BY <2>1
  <2>3. \A z \in Sessions : SaidOf(z)' = SaidOf(z)
    BY <2>1 DEF SaidOf
  <2>4. PipeKept
    BY <1>0, PipeTaken
  <2> QED BY <1>1, <2>1, <2>2, <2>3, <2>4, QuietAgentStreams
<1>3. CASE ~(t = None \/ ~Bound(s))
  <2>1. t \in Targets
    BY <1>0, <1>3, TargetTyped DEF AgentTypes
  <2>2. Fresh(t) \in SessionRecords
    BY <2>1, FreshTyped
  <2>3. /\ session' = [session EXCEPT ![s] = Fresh(t)] /\ Send(s, Replay(mix.history, mix.replayLimit))
        /\ loaded' = [loaded EXCEPT ![s] = "ok"]
    BY <1>3 DEF Load
  <2>4. SessionOne(s, Fresh(t))
    BY <1>0, <2>2, <2>3, SetSession
  <2> QED BY <1>1, <1>3, <2>1, <2>3, <2>4, LoadedStreams
<1> QED BY <1>2, <1>3

LEMMA CancelStreams ==
    ASSUME SInv, IInv, UNCHANGED windowVars, UNCHANGED mix, toAgent # <<>>, toAgent' = Tail(toAgent),
           NEW s \in Sessions, Cancel(s)
    PROVE  SInv'
<1>0. AgentTypes /\ toAgent \in Seq(Messages)
  BY Parts DEF AgentTypes
<1>1. UNCHANGED <<turn, events, updates, sent, reply, loaded>> /\ Cancels(s)
  BY <1>0, CancelDoes DEF Cancel
<1>2. PipeKept
  BY <1>0, PipeTaken
<1>3. CASE UNCHANGED session
  <2>1. \A z \in Sessions : SaidOf(z)' = SaidOf(z)
    BY <1>3 DEF SaidOf
  <2> QED BY <1>1, <1>2, <1>3, <2>1, QuietAgentStreams
<1>4. CASE /\ session[s] \in SessionRecords /\ session[s].turn # None
           /\ SessionOne(s, [session[s] EXCEPT !.stop = TRUE])
  <2>1. PICK r \in SessionRecords : /\ r = session'[s] /\ r.turn = session[s].turn /\ r.said = session[s].said
                                    /\ r # None
    <3>1. session'[s] = [session[s] EXCEPT !.stop = TRUE]
      BY <1>4 DEF SessionOne
    <3> QED BY <1>4, <3>1, StopSet, SessionFields
  <2>2. session[s] # None
    BY <1>4, SessionFields
  <2>3. \A z \in Sessions : z # s => session'[z] = session[z]
    BY <1>4 DEF SessionOne
  <2>4. \A z \in Sessions : SaidOf(z)' = SaidOf(z)
    BY <2>1, <2>2, <2>3 DEF SaidOf
  <2>5. \A z \in Sessions : session'[z] # None =>
            session'[z].turn = None \/ (session[z] # None /\ session'[z].turn = session[z].turn)
    BY <2>1, <2>2, <2>3
  <2> QED BY <1>1, <1>2, <2>4, <2>5, QuietAgentStreams
<1> QED BY <1>1, <1>3, <1>4 DEF Cancels

\* What a prompt that is read does, and what it sends.
LEMMA PromptSays ==
    ASSUME AgentTypes, NEW p \in Prompts, Prompt(p), reply[p] = None
    PROVE  /\ UNCHANGED <<events, loaded>>
           /\ \/ Refuses(p) /\ UNCHANGED <<updates, sent>>
              \/ Joins(p) /\ UNCHANGED <<updates, sent>>
              \/ Starts(p) /\ Send(Job[p].session, NoteOf(p))
<1> DEFINE s == Job[p].session
<1>0. UNCHANGED <<events, loaded, bots>>
  BY DEF Prompt
<1>1. Refuses(p) \/ Joins(p) \/ Starts(p)
  BY PromptDoes
<1>2. CASE ~Readable(p) \/ session[s] = None
  BY <1>0, <1>2 DEF Prompt, Refuses
<1>3. CASE Readable(p) /\ session[s] # None
  <2>1. UNCHANGED reply
    BY <1>3 DEF Prompt
  <2>2. ~Refuses(p)
    <3> SUFFICES ASSUME reply' = [reply EXCEPT ![p] = "error"] PROVE FALSE
      BY DEF Refuses
    <3>1. reply'[p] = "error"
      BY DEF AgentTypes
    <3> QED BY <2>1, <3>1, NoneApart
  <2>3. CASE session[s].turn # None
    <3>1. UNCHANGED <<updates, sent>>
      BY <1>3, <2>3 DEF Prompt, JoinNote
    <3>2. ~Starts(p)
      BY <2>3 DEF Starts
    <3> QED BY <1>0, <1>1, <2>2, <3>1, <3>2
  <2>4. CASE session[s].turn = None
    <3>1. Send(s, NoteOf(p))
      BY <1>3, <2>4 DEF Prompt
    <3>2. ~Joins(p)
      BY <2>4 DEF Joins
    <3> QED BY <1>0, <1>1, <2>2, <3>1, <3>2
  <2> QED BY <2>3, <2>4
<1> QED BY <1>2, <1>3

LEMMA EchoGrows ==
    ASSUME NEW z, NEW q \in Seq(Prompts), NEW p \in Prompts, SaidOf(z) = q, SaidOf(z)' = Append(q, p)
    PROVE  Echoes(z)' = Echoes(z) \o <<Redirected(p)>>
<1>1. PICK n \in Nat : n = Len(q) /\ DOMAIN q = 1 .. n
  OBVIOUS
<1>2. PICK u : u = Append(q, p)
  OBVIOUS
<1>3. /\ DOMAIN u = 1 .. n + 1 /\ u[n + 1] = p
      /\ \A i \in 1 .. n : u[i] = q[i]
  BY <1>1, <1>2
<1>4. Echoes(z) = [i \in 1 .. n |-> Redirected(q[i])]
  BY <1>1 DEF Echoes
<1>5. Echoes(z)' = [i \in 1 .. n + 1 |-> Redirected(u[i])]
  BY <1>2, <1>3 DEF Echoes, Redirected
<1>6. \A i \in 1 .. n : q[i] \in Prompts
  BY <1>1
<1>7. PICK a \in Seq(Updates) : /\ a = Echoes(z) /\ Len(a) = n /\ DOMAIN a = 1 .. n
                                /\ \A i \in 1 .. n : a[i] = Redirected(q[i])
  <2>1. \A i \in 1 .. n : Redirected(q[i]) \in Updates
    BY <1>6, NoticesTyped
  <2>2. Echoes(z) \in [1 .. n -> Updates]
    BY <1>4, <2>1
  <2>3. Echoes(z) \in Seq(Updates) /\ Len(Echoes(z)) = n
    BY <2>2
  <2> QED BY <1>4, <2>3
<1>8. PICK b \in Seq(Updates) : b = <<Redirected(p)>> /\ Len(b) = 1 /\ b[1] = Redirected(p)
  <2>1. PICK e \in Updates : e = Redirected(p)
    BY NoticesTyped
  <2>2. <<e>> \in Seq(Updates) /\ Len(<<e>>) = 1 /\ <<e>>[1] = e
    OBVIOUS
  <2> QED BY <2>1, <2>2
<1>9. PICK c : c = a \o b
  OBVIOUS
<1>10. /\ c \in Seq(Updates) /\ DOMAIN c = 1 .. n + 1
       /\ \A i \in 1 .. n : c[i] = a[i]
       /\ c[n + 1] = b[1]
  BY <1>7, <1>8, <1>9, Joined2
<1>11. \A i \in 1 .. n + 1 : c[i] = Redirected(u[i])
  <2> SUFFICES ASSUME NEW i \in 1 .. n + 1 PROVE c[i] = Redirected(u[i])
    OBVIOUS
  <2>1. CASE i = n + 1
    BY <1>3, <1>8, <1>10, <2>1
  <2>2. CASE i # n + 1
    <3>1. i \in 1 .. n
      BY <2>2
    <3> QED BY <1>3, <1>7, <1>10, <3>1
  <2> QED BY <2>1, <2>2
<1>12. c = [i \in 1 .. n + 1 |-> c[i]]
  BY <1>10
<1> QED BY <1>5, <1>7, <1>8, <1>9, <1>11, <1>12

LEMMA SaidKept ==
    ASSUME AgentTypes, StreamTypes, events \in [Prompts -> Lists], NEW s \in Sessions,
           WindowStill(s), updates'[s] = updates[s], sent'[s] = sent[s], NEW e \in Updates,
           Echoes(s)' = Echoes(s) \o <<e>>, \A x \in Movers : EventsOf(x, s)' = EventsOf(x, s)
    PROVE  \A u : /\ Once(Flow(s), u) /\ (u = e => ~Present(Flow(s), u))
                        => Once(Flow(s)', u) /\ (Present(Flow(s)', u) => Present(Flow(s), u) \/ u = e)
                  /\ Once(Tale(s), u) /\ (u = e => ~Present(Tale(s), u))
                        => Once(Tale(s)', u) /\ (Present(Tale(s)', u) => Present(Tale(s), u) \/ u = e)
<1>1. PICK place : place = <<"said", s>>
  OBVIOUS
<1> QED BY <1>1, SayKept

\* A message that is announced for the first time.
LEMMA SaidFlows ==
    ASSUME SInv, IInv, NEW p \in Prompts, NEW s \in Sessions, s = Job[p].session,
           \A z \in Sessions : WindowStill(z), UNCHANGED <<events, updates, sent>>,
           SaidOf(s)' = Append(SaidOf(s), p), \A z \in Sessions : z # s => SaidOf(z)' = SaidOf(z),
           turn[p].with = None, turn'[p].with # None, \A q \in Prompts : q # p => turn'[q] = turn[q]
    PROVE  FlowInv'
<1>0. /\ AgentTypes /\ StreamTypes /\ events \in [Prompts -> Lists] /\ FlowInv
      /\ SaidOf(s) \in Seq(Prompts)
  BY Parts, SaidTyped DEF SInv
<1>1. \A x \in Movers : \A z \in Sessions : EventsOf(x, z)' = EventsOf(x, z)
  BY DEF EventsOf
<1>2. Echoes(s)' = Echoes(s) \o <<Redirected(p)>>
  BY <1>0, EchoGrows
<1>3. \A z \in Sessions : z # s => Kept2(z)
  <2>1. \A z \in Sessions : z # s => SameSource(z)
    BY <1>1, EchoesStay DEF SameSource
  <2> QED BY <1>0, <2>1, UntouchedKept
<1>4. Redirected(p) \in Updates /\ \A q \in Prompts : Redirected(q) = Redirected(p) => q = p
  BY NoticesTyped
<1>5. PICK e \in Updates : e = Redirected(p)
  BY <1>4
<1>6. \A u : /\ Once(Flow(s), u) /\ (u = e => ~Present(Flow(s), u))
                   => Once(Flow(s)', u) /\ (Present(Flow(s)', u) => Present(Flow(s), u) \/ u = e)
             /\ Once(Tale(s), u) /\ (u = e => ~Present(Tale(s), u))
                   => Once(Tale(s)', u) /\ (Present(Tale(s)', u) => Present(Tale(s), u) \/ u = e)
  <2>1. WindowStill(s) /\ updates'[s] = updates[s] /\ sent'[s] = sent[s]
    OBVIOUS
  <2>2. Echoes(s)' = Echoes(s) \o <<e>> /\ \A x \in Movers : EventsOf(x, s)' = EventsOf(x, s)
    BY <1>1, <1>2, <1>5
  <2> QED BY <1>0, <2>1, <2>2, SaidKept
<1> SUFFICES ASSUME NEW q \in Prompts PROVE AnnouncedOnce(q)'
  BY DEF FlowInv
<1>7. AnnouncedOnce(q) /\ Job[q].session \in Sessions
  BY <1>0, JobTyped DEF FlowInv
<1>8. turn[q].with # None => turn'[q].with # None
  OBVIOUS
<1>9. CASE Job[q].session = s
  <2>1. PICK u : u = Redirected(q)
    OBVIOUS
  <2>2. /\ Once(Flow(s), u) /\ Once(Tale(s), u)
        /\ Present(Flow(s), u) \/ Present(Tale(s), u) => turn[q].with # None
    BY <1>7, <1>9, <2>1 DEF AnnouncedOnce
  <2>3. u = e => q = p
    BY <1>4, <1>5, <2>1
  <2>4. u = e => ~Present(Flow(s), u) /\ ~Present(Tale(s), u)
    BY <2>2, <2>3
  <2>5. /\ Once(Flow(s)', u) /\ (Present(Flow(s)', u) => Present(Flow(s), u) \/ u = e)
        /\ Once(Tale(s)', u) /\ (Present(Tale(s)', u) => Present(Tale(s), u) \/ u = e)
    BY <1>6, <2>2, <2>4
  <2>6. Present(Flow(s)', u) \/ Present(Tale(s)', u) => turn'[q].with # None
    BY <1>8, <2>2, <2>3, <2>5
  <2>7. Redirected(q)' = u /\ Flow(Job[q].session)' = Flow(s)' /\ Tale(Job[q].session)' = Tale(s)'
    BY <1>9, <2>1 DEF Redirected
  <2> QED BY <2>5, <2>6, <2>7 DEF AnnouncedOnce, Once, Present
<1>10. CASE Job[q].session # s
  <2>1. PICK z \in Sessions : z = Job[q].session
    BY <1>7
  <2>2. Kept2(z)
    BY <1>3, <1>10, <2>1
  <2>3. /\ Once(Flow(z), Redirected(q)) /\ Once(Tale(z), Redirected(q))
        /\ Present(Flow(z), Redirected(q)) \/ Present(Tale(z), Redirected(q)) => turn[q].with # None
    BY <1>7, <2>1 DEF AnnouncedOnce
  <2>4. /\ Once(Flow(z)', Redirected(q)) /\ Once(Tale(z)', Redirected(q))
        /\ Present(Flow(z)', Redirected(q)) => Present(Flow(z), Redirected(q))
        /\ Present(Tale(z)', Redirected(q)) => Present(Tale(z), Redirected(q))
    BY <2>2, <2>3 DEF Kept2, FlowKept, TaleKept
  <2>5. Flow(Job[q].session)' = Flow(z)' /\ Tale(Job[q].session)' = Tale(z)'
    BY <2>1
  <2> QED BY <1>8, <2>3, <2>4, <2>5 DEF AnnouncedOnce, Once, Present, Redirected
<1> QED BY <1>9, <1>10

\* A message that finds a turn running joins it.
LEMMA JoinStreams ==
    ASSUME SInv, IInv, UNCHANGED windowVars, UNCHANGED <<mix, events, loaded, updates, sent>>,
           toAgent # <<>>, toAgent' = Tail(toAgent), NEW p \in Prompts, Head(toAgent).kind = "prompt",
           Head(toAgent).prompt = p, Joins(p)
    PROVE  SInv'
<1> DEFINE s == Job[p].session
<1>0. /\ AgentTypes /\ StreamTypes /\ events \in [Prompts -> Lists] /\ Origin /\ Turning /\ s \in Sessions
      /\ toAgent \in Seq(Messages) /\ PromptsInThePipe /\ FirstsStart
  BY Parts DEF AgentTypes, SInv
<1>1. /\ PipeKept /\ 1 \in DOMAIN toAgent /\ toAgent[1].kind = "prompt" /\ toAgent[1].prompt = p
      /\ \A i \in DOMAIN toAgent' : i \in Nat /\ i + 1 \in DOMAIN toAgent /\ toAgent'[i] = toAgent[i + 1]
  BY <1>0, PipeTaken
<1>2. turn[p].pc = "idle" /\ turn[p].with = None
  <2>1. turn[p].pc = "idle"
    BY <1>0, <1>1 DEF PromptsInThePipe
  <2> QED BY <1>0, <2>1 DEF Origin, TurnsSay
<1>3. /\ session[s] \in SessionRecords /\ session[s] # None /\ session[s].turn # None /\ UNCHANGED reply
      /\ session[s].turn \in Prompts /\ Running(session[s].turn) /\ Job[session[s].turn].session = s
      /\ session[s].said \in Seq(Prompts) /\ SaidOf(s) = session[s].said
  <2>1. session[s] \in SessionRecords /\ session[s].turn # None /\ UNCHANGED reply
    BY DEF Joins
  <2>2. session[s] # None /\ session[s].turn \in Prompts /\ session[s].said \in Seq(Prompts)
    BY <2>1, SessionFields
  <2> QED BY <1>0, <2>1, <2>2 DEF Turning, SessionsKnowTheirTurn, SaidOf
<1>4. PICK r \in SessionRecords : /\ r = session'[s] /\ r # None /\ r.turn = session[s].turn
                                  /\ r.said = Append(session[s].said, p)
  <2>1. session'[s] = [session[s] EXCEPT !.said = Append(session[s].said, p)]
    BY DEF Joins, SessionOne
  <2> QED BY <1>3, <2>1, SaidGrows, SessionFields
<1>5. \A z \in Sessions : z # s => session'[z] = session[z] /\ SaidOf(z)' = SaidOf(z)
  BY DEF Joins, SessionOne, SaidOf
<1>6. SaidOf(s)' = Append(SaidOf(s), p)
  BY <1>3, <1>4 DEF SaidOf
<1>7. /\ turn'[p].pc = "joined" /\ turn'[p].with = session[s].turn
      /\ \A q \in Prompts : q # p => turn'[q] = turn[q]
  <2>1. turn'[p] = Joining(turn[p], session[s].turn) /\ \A q \in Prompts : q # p => turn'[q] = turn[q]
    BY DEF Joins, TurnOne
  <2>2. turn[p] \in Turns
    BY <1>0 DEF AgentTypes
  <2> QED BY <1>3, <2>1, <2>2, TurnJoins
<1> HIDE DEF s
<1>8. turn'[p].with # None /\ turn'[p].with \in Prompts /\ Job[turn'[p].with].session = s
  BY <1>3, <1>7
<1>9. Range(SaidOf(s)') = Range(SaidOf(s)) \cup {p}
  BY <1>3, <1>6, AppendRange
<1>10. Still /\ \A z \in Sessions : WindowStill(z)
  BY WindowUntouched DEF Still
<1>11. FlowInv'
  <2>1. s = Job[p].session
    BY DEF s
  <2> QED BY <1>0, <1>2, <1>5, <1>6, <1>7, <1>8, <1>10, <2>1, SaidFlows
<1>12. Origin'
  <2>1. TurnsSay'
    <3>1. Past' = Past
      BY DEF Past
    <3>2. \A q \in Prompts : ~Running(q)' => events[q] = <<>>
      <4>1. \A q \in Prompts : Running(q) => Running(q)'
        BY <1>2, <1>7 DEF Running
      <4> QED BY <1>0, <4>1 DEF Origin, TurnsSay
    <3>3. \A q \in Prompts : turn'[q].with # None =>
              turn'[q].pc \in {"joined", "told", "ended"} /\ Job[turn'[q].with].session = Job[q].session
      BY <1>0, <1>7, <1>8 DEF Origin, TurnsSay, s
    <3>4. \A z \in Sessions : \A e \in Range(SaidOf(z)') : Job[e].session = z
      BY <1>0, <1>5, <1>9 DEF Origin, TurnsSay, s
    <3> QED BY <1>0, <3>1, <3>2, <3>3, <3>4 DEF Origin, TurnsSay, Own, Noted
  <2>2. JoinersAnnounced'
    <3> SUFFICES ASSUME NEW q \in Prompts, turn'[q].with # None PROVE Announced(q)'
      BY DEF JoinersAnnounced, Announced
    <3>1. CASE q = p
      BY <1>7, <1>9, <3>1 DEF Announced, s
    <3>2. CASE q # p
      <4>1. Announced(q) /\ turn'[q] = turn[q] /\ reply'[q] = reply[q] /\ Job[q].session \in Sessions
        BY <1>0, <1>3, <1>7, <3>2, JobTyped DEF Origin, JoinersAnnounced
      <4>2. Range(SaidOf(Job[q].session)) \subseteq Range(SaidOf(Job[q].session)')
        BY <1>5, <1>9, <4>1
      <4> QED BY <4>1, <4>2 DEF Announced, Redirected
    <3> QED BY <3>1, <3>2
  <2>3. NotesOnce'
    <3>1. \A q \in Prompts : turn[q].pc # "idle" => turn'[q].pc # "idle" /\ turn'[q].with = turn[q].with
      BY <1>2, <1>7
    <3> QED BY <1>0, <3>1, NotesStay
  <2> QED BY <2>1, <2>2, <2>3 DEF Origin
<1>13. FirstsStart'
  <2>1. loop[p].echo # "first"
    <3> SUFFICES ASSUME loop[p].echo = "first" PROVE FALSE
      OBVIOUS
    <3>1. FindsNoTurn(p)
      BY <1>0 DEF FirstsStart
    <3> QED BY <1>1, <1>3, <3>1 DEF FindsNoTurn, s
  <2>2. UNCHANGED loop
    BY WindowUntouched
  <2>3. \A q \in Prompts : /\ loop'[q].echo = loop[q].echo /\ (loop[q].pc # "idle" => loop'[q].pc # "idle")
                           /\ loop[q].echo = "first" => turn'[q].with = turn[q].with
    BY <1>7, <2>1, <2>2
  <2>4. \A z \in Sessions : session'[z] # None =>
            session'[z].turn = None \/ (session[z] # None /\ session'[z].turn = session[z].turn)
    BY <1>3, <1>4, <1>5
  <2> QED BY <1>0, <1>1, <2>3, <2>4, FirstsFrame
<1>14. \A q \in Prompts : Closed(q) => Due(q)' \subseteq Due(q) /\ reply'[q] = reply[q]
  BY <1>3 DEF Due, Redirected
<1>15. \A z \in Sessions : loaded'[z] = "ok" => loaded[z] = "ok" \/ Past \subseteq Range(sent'[z])
  OBVIOUS
<1> QED BY <1>10, <1>11, <1>12, <1>13, <1>14, <1>15, AgentFrame

LEMMA NoteIs ==
    ASSUME NEW p \in Prompts
    PROVE  /\ NoteOf(p) \in Lists /\ UniqueIn(Note(p), NoteOf(p))
           /\ \A e \in Range(NoteOf(p)) : e = Note(p)
<1>1. PICK e \in Updates : e = Note(p)
  BY NoticesTyped
<1>2. /\ <<e>> \in Seq(Updates) /\ Range(<<e>>) = {e} /\ UniqueIn(e, <<e>>)
      /\ <<>> \in Seq(Updates) /\ Range(<<>>) = {} /\ UniqueIn(e, <<>>)
  BY DEF Range, UniqueIn
<1> QED BY <1>1, <1>2 DEF NoteOf, Lists

\* A prompt that starts a turn: no message that the page echoed as the first of the session is
\* still in the pipe.
LEMMA StartFirsts ==
    ASSUME SInv, IInv, UNCHANGED loop, toAgent # <<>>, toAgent' = Tail(toAgent), NEW p \in Prompts,
           Head(toAgent).kind = "prompt", Head(toAgent).prompt = p,
           \A z \in Sessions : z # Job[p].session => session'[z] = session[z],
           \A q \in Prompts : turn'[q].with = turn[q].with
    PROVE  FirstsStart'
<1>0. toAgent \in Seq(Messages) /\ FirstsStart
  BY Parts DEF AgentTypes, SInv
<1>1. /\ 1 \in DOMAIN toAgent /\ toAgent[1].kind = "prompt" /\ toAgent[1].prompt = p
      /\ \A i \in DOMAIN toAgent' : i \in Nat /\ i + 1 \in DOMAIN toAgent /\ toAgent'[i] = toAgent[i + 1]
  BY <1>0, PipeTaken
<1> SUFFICES ASSUME NEW q \in Prompts, loop[q].echo = "first" PROVE FindsNoTurn(q)'
  BY DEF FirstsStart, FindsNoTurn
<1>2. FindsNoTurn(q) /\ Job[q].session \in Sessions
  BY <1>0, JobTyped DEF FirstsStart
<1>3. ASSUME NEW i \in DOMAIN toAgent', toAgent'[i].kind = "prompt", toAgent'[i].prompt = q
      PROVE  /\ session'[Job[q].session] # None => session'[Job[q].session].turn = None
             /\ \A j \in DOMAIN toAgent' : j < i /\ toAgent'[j].kind = "prompt" =>
                   Job[toAgent'[j].prompt].session # Job[q].session
  <2>1. i \in Nat /\ i + 1 \in DOMAIN toAgent /\ toAgent[i + 1].kind = "prompt" /\ toAgent[i + 1].prompt = q
    BY <1>1, <1>3
  <2>2. /\ session[Job[q].session] # None => session[Job[q].session].turn = None
        /\ \A j \in DOMAIN toAgent : j < i + 1 /\ toAgent[j].kind = "prompt" =>
              Job[toAgent[j].prompt].session # Job[q].session
    BY <1>2, <2>1 DEF FindsNoTurn
  <2>3. 1 < i + 1
    <3>1. i >= 1
      <4>1. Tail(toAgent) \in Seq(Messages)
        BY <1>0, HeadAndTail
      <4> QED BY <1>3, <4>1, InSeq
    <3> QED BY <2>1, <3>1
  <2>4. Job[p].session # Job[q].session
    BY <1>1, <2>2, <2>3
  <2>5. ASSUME NEW j \in DOMAIN toAgent', j < i, toAgent'[j].kind = "prompt"
        PROVE  Job[toAgent'[j].prompt].session # Job[q].session
    <3>1. j \in Nat /\ j + 1 \in DOMAIN toAgent /\ toAgent'[j] = toAgent[j + 1]
      BY <1>1
    <3>2. j + 1 < i + 1
      BY <2>1, <2>5, <3>1
    <3>3. toAgent[j + 1].kind = "prompt"
      BY <2>5, <3>1
    <3>4. Job[toAgent[j + 1].prompt].session # Job[q].session
      BY <2>2, <3>1, <3>2, <3>3
    <3> QED BY <3>1, <3>4
  <2> QED BY <1>2, <2>2, <2>4, <2>5
<1> QED BY <1>2, <1>3 DEF FindsNoTurn

LEMMA StartStreams ==
    ASSUME SInv, IInv, UNCHANGED windowVars, UNCHANGED <<mix, events, loaded>>,
           toAgent # <<>>, toAgent' = Tail(toAgent), NEW p \in Prompts, Head(toAgent).kind = "prompt",
           Head(toAgent).prompt = p, Starts(p), Send(Job[p].session, NoteOf(p))
    PROVE  SInv'
<1> DEFINE s == Job[p].session
<1>0. /\ AgentTypes /\ StreamTypes /\ events \in [Prompts -> Lists] /\ Origin /\ Turning /\ s \in Sessions
      /\ toAgent \in Seq(Messages) /\ PromptsInThePipe /\ FlowInv
  BY Parts DEF AgentTypes, SInv
<1>1. turn[p].pc = "idle" /\ turn[p].with = None
  <2>1. 1 \in DOMAIN toAgent /\ toAgent[1].kind = "prompt" /\ toAgent[1].prompt = p
    BY <1>0, PipeTaken
  <2>2. turn[p].pc = "idle"
    BY <1>0, <2>1 DEF PromptsInThePipe
  <2> QED BY <1>0, <2>2 DEF Origin, TurnsSay
<1>2. session[s] \in SessionRecords /\ session[s] # None /\ session[s].turn = None /\ UNCHANGED reply
  <2>1. session[s] \in SessionRecords /\ session[s].turn = None /\ UNCHANGED reply
    BY DEF Starts
  <2> QED BY <2>1, SessionFields
<1>3. PICK list \in Lists : /\ list = NoteOf(p) /\ UniqueIn(Note(p), list)
                            /\ \A e \in Range(list) : e = Note(p)
  BY NoteIs
<1>4. /\ updates'[s] = Cat(updates[s], list) /\ sent'[s] = Cat(sent[s], list)
      /\ \A z \in Sessions : z # s => updates'[z] = updates[z] /\ sent'[z] = sent[z]
      /\ Range(sent'[s]) = Range(sent[s]) \cup Range(list)
      /\ \A z \in Sessions : Range(sent[z]) \subseteq Range(sent'[z])
      /\ Sends(s, list) /\ \A z \in Sessions : WindowStill(z)
  BY <1>0, <1>3, SendDoes
<1>5. SaidOf(s)' = <<>> /\ \A z \in Sessions : z # s => session'[z] = session[z] /\ SaidOf(z)' = SaidOf(z)
  <2>1. session'[s] = Claim(s, p) /\ \A z \in Sessions : z # s => session'[z] = session[z]
    BY DEF Starts, SessionOne
  <2>2. Claim(s, p).said = <<>>
    BY <1>0, <1>2, Claimed
  <2> QED BY <2>1, <2>2 DEF SaidOf
<1>6. /\ turn'[p].pc = "top" /\ turn'[p].with = None
      /\ \A q \in Prompts : q # p => turn'[q] = turn[q]
  <2>1. turn'[p] = Moved(turn[p], "top") /\ \A q \in Prompts : q # p => turn'[q] = turn[q]
    BY DEF Starts, TurnOne
  <2>2. turn[p] \in Turns /\ "top" \in TurnPcs
    BY <1>0 DEF AgentTypes, TurnPcs
  <2> QED BY <1>1, <2>1, <2>2, TurnGoes
<1>7. \A q \in Prompts : turn[q].pc = "joined" => Job[q].session # s
  BY <1>0, <1>2, UnboundRuns DEF Bound
<1>8. s = Job[p].session
  OBVIOUS
<1> HIDE DEF s
<1>9. \A q \in Prompts : turn'[q].with = turn[q].with
  BY <1>1, <1>6
<1>10. \A q \in Prompts : Redirected(q) \notin Range(list) /\ (Note(q) \in Range(list) => q = p)
  BY <1>3, NoticesTyped
<1>11. Note(p).kind = "note"
  BY DEF Note
<1>12. FlowInv'
  <2>1. \A x \in Movers : \A z \in Sessions : EventsOf(x, z)' = EventsOf(x, z)
    BY DEF EventsOf
  <2>2. ASSUME NEW z \in Sessions
        PROVE  Kept2(z)
    <3>1. CASE z = s
      <4>1. Echoes(s)' = <<>>
        BY <1>5, EchoesNext
      <4> QED BY <1>0, <1>4, <1>10, <2>1, <3>1, <4>1, SendKept
    <3>2. CASE z # s
      <4>1. SameSource(z) /\ updates'[z] = updates[z] /\ sent'[z] = sent[z] /\ WindowStill(z)
        BY <1>4, <1>5, <2>1, <3>2, EchoesStay DEF SameSource
      <4> QED BY <1>0, <4>1, UntouchedKept
    <3> QED BY <3>1, <3>2
  <2>3. \A z \in Sessions : Kept2(z)
    BY <2>2
  <2> QED BY <1>0, <1>9, <2>3, FlowFrame
<1>13. TurnsSay'
  <2>1. Past' = Past
    BY DEF Past
  <2>2. \A q \in Prompts : ~Running(q)' => events[q] = <<>>
    <3>1. \A q \in Prompts : Running(q) => Running(q)'
      BY <1>1, <1>6 DEF Running
    <3> QED BY <1>0, <3>1 DEF Origin, TurnsSay
  <2>3. \A q \in Prompts : turn'[q].with # None =>
            turn'[q].pc \in {"joined", "told", "ended"} /\ Job[turn'[q].with].session = Job[q].session
    BY <1>0, <1>6 DEF Origin, TurnsSay
  <2>4. \A z \in Sessions : \A e \in Range(SaidOf(z)') : Job[e].session = z
    BY <1>0, <1>5, EmptyRange DEF Origin, TurnsSay
  <2>5. ASSUME NEW z \in Sessions, NEW e \in Range(sent'[z])
        PROVE  e.kind = "text" \/ (e.kind \in {"earlier", "history"} /\ e \in Past) \/ Noted(z, e)
    <3>1. CASE e \in Range(sent[z])
      BY <1>0, <3>1 DEF Origin, TurnsSay
    <3>2. CASE e \notin Range(sent[z])
      <4>1. z = s /\ e = Note(p)
        BY <1>3, <1>4, <2>5, <3>2
      <4> QED BY <1>8, <4>1 DEF Noted
    <3> QED BY <3>1, <3>2
  <2> QED BY <1>0, <2>1, <2>2, <2>3, <2>4, <2>5 DEF Origin, TurnsSay, Own, Noted
<1>14. JoinersAnnounced'
  <2> SUFFICES ASSUME NEW q \in Prompts, turn[q].with # None PROVE Announced(q)'
    BY <1>9 DEF JoinersAnnounced, Announced
  <2>1. Announced(q) /\ Job[q].session \in Sessions /\ turn'[q] = turn[q] /\ reply'[q] = reply[q]
    BY <1>0, <1>1, <1>2, <1>6, JobTyped DEF Origin, JoinersAnnounced
  <2>2. turn[q].pc = "joined" => SaidOf(Job[q].session)' = SaidOf(Job[q].session)
    BY <1>5, <1>7, <2>1
  <2>3. Range(sent[Job[q].session]) \subseteq Range(sent'[Job[q].session])
    BY <1>4, <2>1
  <2> QED BY <2>1, <2>2, <2>3 DEF Announced, Redirected
<1>15. NotesOnce'
  <2>1. Note(p) \notin Range(sent[s])
    BY <1>0, <1>1, <1>8 DEF Origin, NotesOnce, NotedOnce
  <2>2. \A q \in Prompts : turn[q].pc # "idle" => turn'[q].pc # "idle" /\ (turn[q].with = None => turn'[q].with = None)
    BY <1>1, <1>6
  <2>3. \A q \in Prompts : Note(q) \in Range(list) =>
            /\ Note(q) \notin Range(sent[s]) /\ UniqueIn(Note(q), list)
            /\ turn'[q].pc # "idle" /\ turn'[q].with = None
    BY <1>3, <1>6, <1>10, <2>1
  <2> QED BY <1>0, <1>4, <2>2, <2>3, NotesSent
<1>16. Origin'
  BY <1>13, <1>14, <1>15 DEF Origin
<1>17. FirstsStart'
  <2>1. UNCHANGED loop
    BY WindowUntouched
  <2> QED BY <1>5, <1>8, <1>9, <2>1, StartFirsts
<1>18. \A q \in Prompts : Closed(q) => Due(q)' \subseteq Due(q) /\ reply'[q] = reply[q]
  <2> SUFFICES ASSUME NEW q \in Prompts PROVE Due(q)' \subseteq Due(q)
    BY <1>2
  <2>1. Job[q].session \in Sessions
    BY JobTyped
  <2>2. Due(q)' = {e \in Range(sent'[Job[q].session]) : (e.kind = "text" /\ e.of = q) \/ e = Redirected(q)}
    BY DEF Due, Redirected
  <2>3. \A e \in Range(sent'[Job[q].session]) : e \in Range(sent[Job[q].session]) \/ e \in Range(list)
    BY <1>4, <2>1
  <2> QED BY <1>3, <1>10, <1>11, <2>2, <2>3 DEF Due
<1>19. \A z \in Sessions : loaded'[z] = "ok" => loaded[z] = "ok" \/ Past \subseteq Range(sent'[z])
  OBVIOUS
<1>20. \E s_1 \in Sessions : \E list_1 \in Lists : Sends(s_1, list_1)
  BY <1>0, <1>4
<1> QED BY <1>12, <1>16, <1>17, <1>18, <1>19, <1>20, AgentFrame

\* The agent reads a message of the pipe.
LEMMA ReceiveStreams ==
    ASSUME SInv, IInv, Receive, UNCHANGED windowVars
    PROVE  SInv'
<1>0. AgentTypes /\ PromptsInThePipe /\ toAgent \in Seq(Messages)
  BY Parts DEF AgentTypes
<1>1. toAgent # <<>> /\ toAgent' = Tail(toAgent) /\ UNCHANGED mix
  BY DEF Receive
<1>2. Head(toAgent) \in Messages /\ Head(toAgent) = toAgent[1] /\ 1 \in DOMAIN toAgent
  BY <1>0, <1>1, HeadAndTail
<1>3. Head(toAgent).session \in Sessions
  BY <1>2, MessageFields
<1>4. CASE Head(toAgent).kind = "load" /\ Load(Head(toAgent).session)
  BY <1>1, <1>3, <1>4, LoadStreams
<1>5. CASE Head(toAgent).kind = "cancel" /\ Cancel(Head(toAgent).session)
  BY <1>1, <1>3, <1>5, CancelStreams
<1>6. CASE Head(toAgent).kind = "prompt" /\ Prompt(Head(toAgent).prompt)
  <2>1. PICK p \in Prompts : p = Head(toAgent).prompt /\ Prompt(p)
    BY <1>2, <1>6, MessageFields
  <2>2. turn[p].pc = "idle" /\ reply[p] = None
    BY <1>0, <1>2, <1>6, <2>1 DEF PromptsInThePipe
  <2>3. /\ UNCHANGED <<events, loaded>>
        /\ \/ Refuses(p) /\ UNCHANGED <<updates, sent>>
           \/ Joins(p) /\ UNCHANGED <<updates, sent>>
           \/ Starts(p) /\ Send(Job[p].session, NoteOf(p))
    BY <1>0, <2>1, <2>2, PromptSays
  <2>4. CASE Refuses(p) /\ UNCHANGED <<updates, sent>>
    <3>1. UNCHANGED <<session, turn>> /\ reply' = [reply EXCEPT ![p] = "error"]
      BY <2>4 DEF Refuses
    <3>2. \A z \in Sessions : SaidOf(z)' = SaidOf(z)
      BY <3>1 DEF SaidOf
    <3>3. PipeKept
      BY <1>0, <1>1, PipeTaken
    <3>4. \A q \in Prompts : reply'[q] = reply[q] \/ (turn[q].pc = "idle" /\ reply[q] = None)
      BY <1>0, <2>2, <3>1 DEF AgentTypes
    <3> QED BY <1>1, <2>3, <2>4, <3>1, <3>2, <3>3, <3>4, QuietAgentStreams
  <2>5. CASE Joins(p) /\ UNCHANGED <<updates, sent>>
    BY <1>1, <1>6, <2>1, <2>3, <2>5, JoinStreams
  <2>6. CASE Starts(p) /\ Send(Job[p].session, NoteOf(p))
    BY <1>1, <1>6, <2>1, <2>3, <2>6, StartStreams
  <2> QED BY <2>3, <2>4, <2>5, <2>6
<1> QED BY <1>4, <1>5, <1>6 DEF Receive

-----------------------------------------------------------------------------
(***************************************************************************)
(* Every step, and the theorem.                                             *)
(***************************************************************************)

LEMMA InitStreams ==
    ASSUME Init
    PROVE  SInv
<1>0. /\ \A s \in Sessions : /\ session[s] = None /\ updates[s] = <<>> /\ sent[s] = <<>> /\ loaded[s] = None
                             /\ opener[s].pc = "idle" /\ opener[s].held = Nothing
      /\ inbox = Nothing /\ shown = Nothing /\ raced = {} /\ toAgent = <<>>
      /\ \A p \in Prompts : /\ loop[p].pc = "idle" /\ loop[p].held = Nothing /\ loop[p].taken = <<>>
                            /\ loop[p].result = None /\ loop[p].echo = None
                            /\ turn[p].pc = "idle" /\ turn[p].with = None /\ events[p] = <<>>
  BY DEF Init, AcpInit
<1>1. \A s \in Sessions : inbox[s] = <<>> /\ shown[s] = <<>>
  BY <1>0, EmptyList
<1>2. HandsAre
  BY HandsTheirs
<1>3. \A x \in Movers : Hand(x) = Nothing /\ \A s \in Sessions : Taken(x, s) = <<>>
  BY <1>0, <1>2 DEF HandsAre, Movers
<1>4. StreamTypes
  <2>1. updates \in Streams /\ sent \in Streams
    BY EmptyList DEF Init, AcpInit, Streams
  <2> QED BY <1>0, <1>3, <2>1, EmptyList DEF StreamTypes
<1>5. HandsFit
  BY <1>0 DEF HandsFit
<1>6. OrderInv
  <2> SUFFICES ASSUME NEW s \in Sessions PROVE \E x \in Movers : InOrder(s, x)
    BY DEF OrderInv
  <2>1. s \in Movers
    BY DEF Movers
  <2>2. Holders(s) = {}
    BY <1>3, EmptyList DEF Holders, Movers
  <2>3. sent[s] = Whole(shown[s], Taken(s, s), inbox[s], Hand(s)[s], <<>>)
    <3>1. Whole(<<>>, <<>>, <<>>, <<>>, <<>>) = <<>>
      BY EmptyList, PutNone DEF Whole
    <3> QED BY <1>0, <1>1, <1>3, <2>1, <3>1, EmptyList
  <2>4. InOrder(s, s)
    BY <1>0, <2>2, <2>3, EmptyList DEF InOrder
  <2> QED BY <2>1, <2>4
<1>7. PromptsShown
  BY <1>0 DEF PromptsShown, DueIsShown, ClosedWhen, Closed
<1>8. HistoriesShown
  <2>1. \A s \in Sessions : loaded[s] # "ok"
    BY <1>0, AcpAssumption
  <2> QED BY <1>0, <2>1 DEF HistoriesShown, HistoryShown
<1>9. \A s \in Sessions : SaidOf(s) = <<>> /\ Echoes(s) = <<>>
  <2>1. \A s \in Sessions : SaidOf(s) = <<>>
    BY <1>0 DEF SaidOf
  <2> QED BY <2>1, EchoesAre
<1>10. Origin
  <2>1. events \in [Prompts -> Lists]
    BY EmptyList DEF Init, AcpInit
  <2>2. TurnsSay
    BY <1>0, <1>9, <2>1, EmptyRange DEF TurnsSay
  <2>3. JoinersAnnounced
    BY <1>0 DEF JoinersAnnounced, Announced
  <2>4. NotesOnce
    <3>1. \A p \in Prompts : Job[p].session \in Sessions
      BY JobTyped
    <3>2. \A p \in Prompts : Range(sent[Job[p].session]) = {} /\ DOMAIN sent[Job[p].session] = {}
      BY <1>0, <3>1, EmptyRange
    <3> QED BY <3>2 DEF NotesOnce, NotedOnce
  <2> QED BY <2>2, <2>3, <2>4 DEF Origin
<1>11. FlowInv
  <2>1. \A x \in Movers : \A s \in Sessions : EventsOf(x, s) = <<>>
    BY <1>0 DEF EventsOf
  <2>2. ASSUME NEW s \in Sessions
        PROVE  /\ \A k \in DOMAIN Flow(s) : Flow(s)[k] = <<>>
               /\ \A k \in DOMAIN Tale(s) : Tale(s)[k] = <<>>
    <3>1. FlowEqs(s)
      BY FlowNow
    <3>2. ASSUME NEW k \in Spots(s)
          PROVE  Flow(s)[k] = <<>>
      <4>1. CASE k = <<"said", s>> \/ k = <<"updates", s>> \/ k = <<"inbox", s>> \/ k = <<"shown", s>>
        BY <1>0, <1>1, <1>9, <3>1, <4>1 DEF FlowEqs
      <4>2. ASSUME NEW x \in Movers, k = <<"events", x>> \/ k = <<"hand", x>> \/ k = <<"taken", x>>
            PROVE  Flow(s)[k] = <<>>
        BY <1>3, <2>1, <3>1, <4>2, EmptyList DEF FlowEqs
      <4> QED BY <4>1, <4>2, SpotIs
    <3>3. ASSUME NEW k \in Scenes(s)
          PROVE  Tale(s)[k] = <<>>
      BY <1>0, <1>9, <2>1, <3>1, SceneIs DEF FlowEqs
    <3> QED BY <3>1, <3>2, <3>3 DEF FlowEqs
  <2>3. ASSUME NEW s \in Sessions, NEW u
        PROVE  /\ Once(Flow(s), u) /\ Once(Tale(s), u)
               /\ ~Present(Flow(s), u) /\ ~Present(Tale(s), u)
    <3>1. DOMAIN <<>> = {}
      OBVIOUS
    <3> QED BY <2>2, <3>1, EmptyRange DEF Once, Present
  <2> QED BY <2>3, JobTyped DEF FlowInv, AnnouncedOnce
<1>12. FirstsStart
  <2>1. None # "first"
    BY AcpAssumption
  <2>2. \A p \in Prompts : loop[p].echo # "first"
    BY <1>0, <2>1
  <2> QED BY <2>2 DEF FirstsStart, FindsNoTurn
<1> QED BY <1>4, <1>5, <1>6, <1>7, <1>8, <1>10, <1>11, <1>12 DEF SInv, Pipeline

LEMMA IdleStreams ==
    ASSUME SInv, IInv, UNCHANGED vars
    PROVE  SInv'
<1>1. UNCHANGED windowVars
      /\ UNCHANGED <<mix, events, updates, sent, session, loaded, reply, toAgent, turn>>
  BY DEF vars, acpVars
<1> QED BY <1>1, StillStreams

LEMMA NextStreams ==
    ASSUME SInv, IInv, [Next]_vars
    PROVE  SInv'
<1>0. mix.prompts \subseteq Prompts /\ mix.opens \subseteq Sessions
  BY PinNamed DEF IInv, Shape, AgentTypes
<1>1. CASE AcpStep /\ UNCHANGED windowVars
  <2>1. CASE Receive
    BY <1>1, <2>1, ReceiveStreams
  <2>2. ASSUME NEW p \in mix.prompts,
               Top(p) \/ Think(p) \/ PassOn(p) \/ Ask(p) \/ Answer(p) \/ End(p) \/ Joined(p)
        PROVE  SInv'
    BY <1>0, <1>1, <2>2, TopStreams, ThinkStreams, PassOnStreams, AskStreams, AnswerStreams, EndStreams,
       JoinedStreams
  <2> QED BY <1>1, <2>1, <2>2 DEF AcpStep
<1>2. CASE Troubles /\ UNCHANGED windowVars
  BY <1>0, <1>2, ExpireStreams, HubFailsStreams DEF Troubles
<1>3. CASE WindowStep
  <2>1. ASSUME NEW p \in mix.prompts, Drain(p) \/ Keep(p) \/ Show(p) \/ Park(p) \/ WithdrawSession(p)
        PROVE  SInv'
    BY <1>0, <2>1, DrainStreams, KeepStreams, ShowStreams, ParkStreams, WithdrawStreams
  <2>2. ASSUME NEW s \in mix.opens, Opened(s) \/ DrainHistory(s) \/ KeepHistory(s)
        PROVE  SInv'
    BY <1>0, <2>2, OpenedStreams, DrainHistoryStreams, KeepHistoryStreams
  <2>3. ASSUME NEW a \in Asks, GiveUp(a)
        PROVE  SInv'
    BY <2>3, GiveUpStreams
  <2> QED BY <1>3, <2>1, <2>2, <2>3, TellAgentStreams DEF WindowStep
<1>4. CASE Person
  <2>1. ASSUME NEW p \in mix.prompts, Message(p)
        PROVE  SInv'
    BY <1>0, <2>1, MessageStreams
  <2>2. ASSUME NEW s \in mix.opens, Open(s) \/ Reload(s)
        PROVE  SInv'
    BY <1>0, <2>2, OpenStreams, ReloadStreams
  <2>3. ASSUME NEW a \in Asks, NEW c \in Clicks, Click(a, c)
        PROVE  SInv'
    BY <2>3, ClickStreams
  <2> QED BY <1>4, <2>1, <2>2, <2>3, StopStreams, DisconnectStreams, AgentDiesStreams DEF Person
<1>5. CASE UNCHANGED vars
  BY <1>5, IdleStreams
<1> QED BY <1>1, <1>2, <1>3, <1>4, <1>5 DEF Next

\* A command that shows how its turn ended has put on screen what the turn said.
LEMMA DoneIsShown ==
    ASSUME SInv, IInv, NEW p \in Prompts, Shows(p), Job[p].session \notin raced
    PROVE  Due(p) \subseteq Range(shown[Job[p].session]) /\ Closed(p)
<1>1. Closed(p) /\ loop[p].pc = "done"
  BY DEF Shows, Closed
<1>2. DueIsShown(p)
  BY Parts
<1> QED BY <1>1, <1>2 DEF DueIsShown

LEMMA NothingIsLost == ASSUME SInv, IInv PROVE NothingSaidIsLost
<1>0. Origin /\ mix.prompts \subseteq Prompts
  BY Parts, PinNamed DEF AgentTypes
<1> SUFFICES ASSUME NEW s \in Sessions, s \notin raced
             PROVE  /\ opener[s].pc = "open" => \A i \in DOMAIN sent[s] :
                            sent[s][i].kind \in {"earlier", "history"} => sent[s][i] \in Range(shown[s])
                    /\ \A p \in mix.prompts :
                          Job[p].session = s /\ Shows(p)
                              => \A i \in DOMAIN sent[s] :
                                    sent[s][i].kind = "text" /\ sent[s][i].of = p => sent[s][i] \in Range(shown[s])
  BY DEF NothingSaidIsLost
<1>1. ASSUME opener[s].pc = "open", NEW i \in DOMAIN sent[s], sent[s][i].kind \in {"earlier", "history"}
      PROVE  sent[s][i] \in Range(shown[s])
  <2>1. PICK e : e = sent[s][i]
    OBVIOUS
  <2>2. e \in Range(sent[s])
    BY <2>1 DEF Range
  <2>3. ~Noted(s, e)
    <3>1. e.kind \notin {"note", "redirected"}
      BY <1>1, <2>1
    <3>2. ASSUME NEW r \in Prompts
          PROVE  e # Note(r) /\ e # Redirected(r)
      <4>1. Note(r).kind = "note" /\ Redirected(r).kind = "redirected"
        BY DEF Note, Redirected
      <4> QED BY <3>1, <4>1
    <3> QED BY <3>2 DEF Noted
  <2>4. e \in Past
    BY <1>0, <1>1, <2>1, <2>2, <2>3 DEF Origin, TurnsSay
  <2>5. HistoryShown(s)
    BY Parts
  <2> QED BY <1>1, <2>1, <2>4, <2>5 DEF HistoryShown
<1>2. ASSUME NEW p \in mix.prompts, Job[p].session = s, Shows(p), NEW i \in DOMAIN sent[s],
             sent[s][i].kind = "text", sent[s][i].of = p
      PROVE  sent[s][i] \in Range(shown[s])
  <2>1. sent[s][i] \in Due(p)
    BY <1>2 DEF Due, Range
  <2>2. p \in Prompts
    BY <1>0
  <2> QED BY <1>2, <2>1, <2>2, DoneIsShown
<1> QED BY <1>1, <1>2

LEMMA InOrderShown == ASSUME SInv, IInv PROVE ShownInOrder
<1> SUFFICES ASSUME NEW s \in Sessions, s \notin raced PROVE IsPrefix(shown[s], sent[s])
  BY DEF ShownInOrder
<1>0. StreamTypes /\ OrderInv
  BY Parts
<1>1. PICK x \in Movers : InOrder(s, x)
  BY <1>0 DEF OrderInv
<1>2. PICK rest \in Lists : sent[s] = Whole(shown[s], Taken(x, s), inbox[s], Hand(x)[s], rest)
  BY <1>1 DEF InOrder
<1>3. PICK a \in Lists, t \in Lists, b \in Lists, c \in Lists :
           a = shown[s] /\ t = Taken(x, s) /\ b = inbox[s] /\ c = Hand(x)[s]
  BY <1>0, ListOf
<1>4. Cat(t, Cat(b, Cat(c, rest))) \in Lists
  <2>1. PICK u \in Lists : u = Cat(c, rest)
    BY Put
  <2>2. PICK v \in Lists : v = Cat(b, u)
    BY Put
  <2> QED BY <2>1, <2>2, Put
<1>5. PICK w \in Lists : w = Cat(t, Cat(b, Cat(c, rest)))
  BY <1>4
<1>6. sent[s] = a \o w
  BY <1>2, <1>3, <1>5 DEF Whole, Cat
<1>7. a \in Seq(Updates) /\ w \in Seq(Updates)
  BY DEF Lists
<1>8. IsPrefix(a, a \o w)
  BY <1>7, PrefixIs
<1> QED BY <1>3, <1>6, <1>8

LEMMA OnScreen == ASSUME SInv, IInv PROVE OnScreenOnce
<1>0. mix.prompts \subseteq Prompts
  BY Parts, PinNamed DEF AgentTypes
<1> SUFFICES ASSUME NEW p \in Prompts
             PROVE  LET s     == Job[p].session
                        again == {i \in DOMAIN shown[s] : shown[s][i] = Redirected(p)}
                    IN  /\ Cardinality(again) <= 1
                        /\ loop[p].echo = "first" => again = {}
                        /\ s \notin raced /\ turn[p].with # None /\ Shows(p) => again # {}
  BY <1>0 DEF OnScreenOnce
<1> DEFINE s == Job[p].session
           again == {i \in DOMAIN shown[s] : shown[s][i] = Redirected(p)}
<1>1. s \in Sessions /\ AnnouncedOnce(p) /\ (loop[p].echo = "first" => turn[p].with = None)
  BY JobTyped DEF SInv, FlowInv, FirstsStart, FindsNoTurn
<1>2. PICK u : u = Redirected(p)
  OBVIOUS
<1>3. /\ Once(Flow(s), u) /\ (Present(Flow(s), u) => turn[p].with # None)
  BY <1>1, <1>2 DEF AnnouncedOnce
<1>4. PICK k : k = <<"shown", s>> /\ k \in DOMAIN Flow(s) /\ Flow(s)[k] = shown[s]
  BY <1>1, FlowNow, SpotsAre DEF FlowEqs
<1>5. \A i, j \in again : i = j
  BY <1>2, <1>3, <1>4 DEF Once
<1>6. Cardinality(again) <= 1
  BY <1>5, AtMostOne
<1>7. loop[p].echo = "first" => again = {}
  <2> SUFFICES ASSUME NEW i \in again, loop[p].echo = "first" PROVE FALSE
    OBVIOUS
  <2>1. u \in Range(Flow(s)[k])
    BY <1>2, <1>4 DEF Range
  <2>2. Present(Flow(s), u)
    BY <1>4, <2>1 DEF Present
  <2> QED BY <1>1, <1>3, <2>2
<1>8. ASSUME s \notin raced, turn[p].with # None, Shows(p)
      PROVE  again # {}
  <2>1. Due(p) \subseteq Range(shown[s]) /\ Closed(p)
    BY <1>8, DoneIsShown
  <2>2. Redirected(p) \in Range(sent[s])
    BY <1>8, <2>1, ClosedIsOver
  <2>3. Redirected(p) \in Range(shown[s])
    BY <2>1, <2>2 DEF Due
  <2> QED BY <2>3 DEF Range
<1> QED BY <1>6, <1>7, <1>8

LEMMA NotedAtMostOnce == ASSUME SInv, IInv PROVE SaidOnce
<1>0. mix.prompts \subseteq Prompts /\ Origin
  BY Parts, PinNamed DEF AgentTypes
<1> SUFFICES ASSUME NEW s \in Sessions, NEW p \in Prompts
             PROVE  Cardinality({i \in DOMAIN sent[s] : sent[s][i].of = p
                                    /\ sent[s][i].kind \in {"note", "redirected"}}) <= 1
  BY <1>0 DEF SaidOnce
<1> DEFINE about == {i \in DOMAIN sent[s] : sent[s][i].of = p /\ sent[s][i].kind \in {"note", "redirected"}}
<1>1. ASSUME NEW i \in about
      PROVE  (sent[s][i] = Note(p) \/ sent[s][i] = Redirected(p)) /\ Job[p].session = s
  <2>1. PICK e : e = sent[s][i] /\ e \in Range(sent[s]) /\ e.of = p /\ e.kind \in {"note", "redirected"}
    BY DEF Range
  <2>2. Noted(s, e)
    BY <1>0, <2>1 DEF Origin, TurnsSay
  <2>3. PICK r \in Prompts : (e = Note(r) \/ e = Redirected(r)) /\ Job[r].session = s
    BY <2>2 DEF Noted
  <2>4. e.of = r
    BY <2>3 DEF Note, Redirected
  <2> QED BY <2>1, <2>3, <2>4
<1>2. AnnouncedOnce(p) /\ NotedOnce(p)
  BY <1>0 DEF SInv, FlowInv, Origin, NotesOnce
<1>3. PICK k : k = <<"sent", s>> /\ k \in DOMAIN Tale(s) /\ Tale(s)[k] = sent[s]
  BY FlowNow, SpotsAre DEF FlowEqs
<1>4. ASSUME NEW i \in about, NEW j \in about
      PROVE  i = j
  <2>0. Job[p].session = s /\ i \in DOMAIN sent[s] /\ j \in DOMAIN sent[s]
    BY <1>1
  <2>1. CASE turn[p].with = None
    <3>1. ~Present(Tale(s), Redirected(p))
      BY <1>2, <2>0, <2>1 DEF AnnouncedOnce
    <3>2. Redirected(p) \notin Range(sent[s])
      BY <1>3, <3>1 DEF Present
    <3>3. sent[s][i] = Note(p) /\ sent[s][j] = Note(p)
      BY <1>1, <2>0, <3>2 DEF Range
    <3> QED BY <1>2, <2>0, <3>3 DEF NotedOnce
  <2>2. CASE turn[p].with # None
    <3>1. Note(p) \notin Range(sent[s])
      BY <1>2, <2>0, <2>2 DEF NotedOnce
    <3>2. sent[s][i] = Redirected(p) /\ sent[s][j] = Redirected(p)
      BY <1>1, <2>0, <3>1 DEF Range
    <3>3. PICK u : u = Redirected(p)
      OBVIOUS
    <3>4. Once(Tale(s), u)
      BY <1>2, <2>0, <3>3 DEF AnnouncedOnce
    <3> QED BY <1>3, <2>0, <3>2, <3>3, <3>4 DEF Once
  <2> QED BY <2>1, <2>2
<1> HIDE DEF about
<1>5. \A i, j \in about : i = j
  BY <1>4
<1>6. Cardinality(about) <= 1
  BY <1>5, AtMostOne
<1> QED BY <1>6 DEF about

\* The window shows a conversation as it was: what a turn said is on screen when the command that
\* waited for it is back, and the history when the conversation is open; what is on screen is a
\* prefix of what was sent, so in its order and nothing twice; a message that joined a turn is
\* announced once, and never one the page echoed as the first; what could not be read is said once
\* (Inbox, collect, run_turn, open_bot, sendPrompt, serve).
THEOREM ConversationsAreShownAsTheyWere == Spec => []ShownAsItWas
<1>1. Init => SInv
  BY InitStreams
<1>2. IInv /\ SInv /\ [Next]_vars => SInv'
  BY NextStreams
<1>3. IInv /\ SInv => ShownAsItWas
  BY NothingIsLost, InOrderShown, OnScreen, NotedAtMostOnce DEF ShownAsItWas
<1>4. Spec => []IInv
  BY WindowInvariant
<1> QED BY <1>1, <1>2, <1>3, <1>4, PTL DEF Spec

=============================================================================
