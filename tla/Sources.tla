------------------------------- MODULE Sources -------------------------------
(***************************************************************************)
(* Names and values as the daemon handles them: which tools a hook's pattern means  *)
(* (hooks.rs), connector ids and the tool names made of them (connector.rs), those   *)
(* names on their way to a model vendor and back (providers/http.rs), and what the  *)
(* record keeps of a value (record.rs).                                             *)
(*                                                                         *)
(* A name is a sequence of symbols, "_", "." and "*" among them; a JSON object, as it *)
(* came, is a sequence of <<key, value>>.                                           *)
(***************************************************************************)
EXTENDS Naturals, Sequences, FiniteSets, SequencesExt, FiniteSetsExt

CONSTANTS Reserved,     \* namespaces no connector may take
          Letters,      \* what an id may be made of: ASCII letters, digits, "-" and "_"
          Lower,        \* Lower[x]: the small letter of a capital
          Kept          \* how much of a value is kept (4096 bytes)

\* One `*` at most, and it stands for anything.
Glob(pattern, name) ==
    IF "*" \notin ToSet(pattern) THEN pattern = name
    ELSE LET star == CHOOSE i \in DOMAIN pattern : pattern[i] = "*" /\ \A j \in 1 .. i - 1 : pattern[j] # "*"
             head == SubSeq(pattern, 1, star - 1)
             tail == SubSeq(pattern, star + 1, Len(pattern))
         IN Len(name) >= Len(head) + Len(tail) /\ IsPrefix(head, name) /\ IsSuffix(tail, name)

NameSpace == <<"_", "_">>

Cuts(name) == {i \in 1 .. Len(name) - 1 : SubSeq(name, i, i + 1) = NameSpace}

Lowered(id) == [i \in DOMAIN id |-> IF id[i] \in DOMAIN Lower THEN Lower[id[i]] ELSE id[i]]

ASSUME SourcesAssumption ==
    "." \notin Letters /\ \A id \in Reserved : \A i \in DOMAIN id : id[i] \notin DOMAIN Lower

\* A connector id has to survive being a prefix, and is not a reserved one in other letters.  (One that
\* ends in "_" passes, and does not survive.)
ValidId(id) == id # <<>> /\ Cuts(id) = {} /\ ToSet(id) \subseteq Letters /\ Lowered(id) \notin Reserved

Wire(id, tool) == id \o NameSpace \o tool

\* Split at the first separator.
Splits(name) == Cuts(name) # {}
Prefix(name) == SubSeq(name, 1, Min(Cuts(name)) - 1)
Remote(name) == SubSeq(name, Min(Cuts(name)) + 2, Len(name))

\* Vendors refuse a dot.
Sanitize(name) == FlattenSeq([i \in DOMAIN name |-> IF name[i] = "." THEN NameSpace ELSE <<name[i]>>])

\* The naive inverse, which is none.
Unsanitize(name) ==
    LET from[i \in 1 .. Len(name) + 1] ==
          IF i > Len(name) THEN <<>>
          ELSE IF i \in Cuts(name) THEN <<".">> \o from[i + 2] ELSE <<name[i]>> \o from[i + 1]
    IN from[1]

\* What a name from a model stands for: a tool of that very name, else the one that escapes to it;
\* two of them and it is left alone.
Restore(name, offered) ==
    LET candidates == {id \in offered : Sanitize(id) = name}
    IN IF name \in offered \/ Cardinality(candidates) > 1 THEN name
       ELSE IF candidates = {} THEN Unsanitize(name) ELSE CHOOSE id \in candidates : TRUE

\* Object keys in a fixed order, whatever order they came in.
Canonical(object) == SetToSeq(ToSet(object))

\* The head, how long the whole is, and a hash of the whole: two texts have two hashes.
Captured(text) == [head |-> SubSeq(text, 1, IF Len(text) > Kept THEN Kept ELSE Len(text)),
                   bytes |-> Len(text), sha256 |-> text]
Capture(object) == Captured(Canonical(object))
=============================================================================
