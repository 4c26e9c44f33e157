------------------------------- MODULE Promise -------------------------------
(***************************************************************************)
(* What the hub promises about a tool call, without saying how it keeps it:  *)
(* a call runs once, only after somebody entitled to it let it through, and  *)
(* its caller is told once and truly.  A call that was refused never runs,   *)
(* before or after the refusal; one reported as done has run; and one whose  *)
(* caller was told that it failed, or was given up on, may have run or not,  *)
(* but does not start to run any more.                                       *)
(***************************************************************************)
EXTENDS Sequences

CONSTANTS Calls,    \* the tool calls
          Hows,     \* what a caller can be told ...
          Refusals  \* ... and which of these say that the call did not run

VARIABLES cleared,  \* the calls that were let through
          ran,      \* the calls that ran
          told      \* what the caller of each was told

vars == <<cleared, ran, told>>

TypeOK ==
    /\ cleared \subseteq Calls
    /\ ran \subseteq cleared
    /\ told \in [Calls -> Seq(Hows)]

Init ==
    /\ cleared = {}
    /\ ran = {}
    /\ told = [c \in Calls |-> <<>>]

\* Nobody has heard of the call and it has not run.
Open(c) == c \notin ran /\ told[c] = <<>>

\* The policy, or whoever it says to ask, lets the call through.
Clear(c) ==
    /\ Open(c)
    /\ cleared' = cleared \cup {c}
    /\ UNCHANGED <<ran, told>>

\* A call that was let through runs.
Run(c) ==
    /\ Open(c)
    /\ c \in cleared
    /\ ran' = ran \cup {c}
    /\ UNCHANGED <<cleared, told>>

\* The caller is told, once; what it is told of a call is true of it.
Tell(c, how) ==
    /\ told[c] = <<>>
    /\ how \in Refusals => c \notin ran
    /\ how = "ok" => c \in ran
    /\ told' = [told EXCEPT ![c] = <<how>>]
    /\ UNCHANGED <<cleared, ran>>

\* Both at once, for a call that runs where its caller is told.
RunAndTell(c, how) ==
    /\ Open(c)
    /\ c \in cleared
    /\ how \notin Refusals
    /\ ran' = ran \cup {c}
    /\ told' = [told EXCEPT ![c] = <<how>>]
    /\ UNCHANGED cleared

Next ==
    \E c \in Calls :
        \/ Clear(c) \/ Run(c)
        \/ \E how \in Hows : Tell(c, how) \/ RunAndTell(c, how)

Spec == Init /\ [][Next]_vars
=============================================================================
