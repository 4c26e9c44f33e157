----------------------------- MODULE MCHubScripts -----------------------------
(***************************************************************************)
(* Instances of Hub in one run: a script is a set of peers, and the requests  *)
(* are those its peers make.  The peers of the other scripts have been and     *)
(* gone, having asked for nothing.                                            *)
(***************************************************************************)
EXTENDS MCHub

\* Two harnesses with a guest each use the same call id.
Routing  == {"h1", "h2", "guest", "guest2"}

\* A prompted call; and, in a session with a minted id of a client of the
\* published dialect, a prompted call of the hub's own.
Approval == {"w1", "w2", "guest"}

\* A replay reopened live under its call and claimed by another harness, while
\* its computer is taken over and given back by either.
Holding  == {"t1", "t2", "guest"}

\* A guest that comes back before the hub has seen it go.
Returning == {"h1", "guest", "again"}

\* A refused call and a credential request in one session.
Asking   == {"ask"}

\* A replay of two calls, one of them recorded, reopened live under them.
Replays  == {"r1"}

\* A prompted call that the hub carries out itself, in a minted session.
Own      == {"w2"}

\* A harness whose hello names a server, bound to itself.
Itself   == {"self"}

Scripts == {Routing, Approval, Holding, Returning, Asking, Replays, Own, Itself}

\* A configuration has the connections of its scripts.
MCInit ==
    /\ Unused
    /\ \E peers \in {s \in Scripts : s \subseteq Conns} :
          conns = [c \in Conns |-> IF c \in peers THEN "new" ELSE "down"]

MCSpec     == MCInit /\ [][Next]_vars
MCFairSpec == MCSpec /\ Fairness
=============================================================================
