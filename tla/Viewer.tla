------------------------------- MODULE Viewer --------------------------------
(***************************************************************************)
(* `botroster watch` (botroster-cli/src/watch.rs): a page on which a person         *)
(* watches the computer and, after taking it over, types into it.  The page's       *)
(* requests are served concurrently; each is a process here.  `driving` is the      *)
(* viewer's own idea of who has the computer, `holder` is the hub's.                *)
(***************************************************************************)
EXTENDS Naturals, FiniteSets

CONSTANTS Requests,   \* the requests the page (or any other tab) sends
          Asks,       \* Asks[r]: [kind, known], what it is, and whether it holds the key and a kind the viewer knows
          Nobody      \* the holder of a computer nobody took over

ASSUME ViewerAssumption ==
    /\ Nobody \notin {"viewer", "other"}
    /\ \A r \in Requests : Asks[r].kind \in {"takeover", "release", "input", "frame"}

VARIABLES driving,    \* Watch.driving
          holder,     \* who the hub thinks has taken the computer over
          locked,     \* the request that holds Watch.lock
          ask,        \* ask[r]: how far a request is
          crossed     \* a takeover and a release were under way at once

viewVars == <<driving, holder, locked, ask, crossed>>

Stages == {"unsent", "sent", "claims", "claimed", "returns", "waits", "calls", "allowed", "acts",
           "answered", "refused"}

ViewTypeOK ==
    /\ driving \in BOOLEAN /\ crossed \in BOOLEAN
    /\ holder \in {Nobody, "viewer", "other"}
    /\ locked \in Requests \cup {Nobody}
    /\ ask \in [Requests -> Stages]

ViewInit ==
    /\ driving = FALSE /\ crossed = FALSE
    /\ holder = Nobody /\ locked = Nobody
    /\ ask = [r \in Requests |-> "unsent"]

Under(kind) == {r \in Requests : Asks[r].kind = kind /\ ask[r] \notin {"unsent", "answered", "refused"}}

Go(r, stage) == ask' = [ask EXCEPT ![r] = stage]

Send(r) ==
    /\ ask[r] = "unsent"
    /\ Go(r, "sent")
    /\ crossed' = (crossed \/ (Asks[r].kind = "takeover" /\ Under("release") # {})
                           \/ (Asks[r].kind = "release" /\ Under("takeover") # {}))
    /\ UNCHANGED <<driving, holder, locked>>

\* `decide`: the person's own input, and only while they are driving; frames are read whoever drives.
Allows(r) == Asks[r].kind = "frame" \/ driving

\* The release clears the flag before it asks the hub: a failed call must not leave it answering.
Routed(r) ==
    /\ ask[r] = "sent"
    /\ IF ~Asks[r].known \/ (Asks[r].kind = "input" /\ ~driving)
       THEN Go(r, "refused") /\ UNCHANGED driving
       ELSE LET stage == [takeover |-> "claims", release |-> "returns", input |-> "waits", frame |-> "waits"]
            IN /\ Go(r, stage[Asks[r].kind])
               /\ driving' = (driving /\ Asks[r].kind # "release")
    /\ UNCHANGED <<holder, locked, crossed>>

\* The hub gives the computer to one person at a time.
Claims(r) ==
    /\ ask[r] = "claims"
    /\ IF holder = "other"
       THEN Go(r, "refused") /\ UNCHANGED holder
       ELSE Go(r, "claimed") /\ holder' = "viewer"
    /\ UNCHANGED <<driving, locked, crossed>>

Claimed(r) ==
    /\ ask[r] = "claimed"
    /\ Go(r, "answered")
    /\ driving' = TRUE
    /\ UNCHANGED <<holder, locked, crossed>>

Returns(r) ==
    /\ ask[r] = "returns"
    /\ Go(r, "answered")
    /\ holder' = IF holder = "viewer" THEN Nobody ELSE holder
    /\ UNCHANGED <<driving, locked, crossed>>

Locks(r) ==
    /\ ask[r] = "waits" /\ locked = Nobody
    /\ Go(r, "calls") /\ locked' = r
    /\ UNCHANGED <<driving, holder, crossed>>

\* The hub, whose policy asks about every input, asks this connection, which answers from the flag as
\* it is now, not as it was when the request came in.
Decides(r) ==
    /\ ask[r] = "calls"
    /\ IF Allows(r)
       THEN Go(r, "allowed") /\ UNCHANGED locked
       ELSE Go(r, "refused") /\ locked' = Nobody
    /\ UNCHANGED <<driving, holder, crossed>>

\* With that answer, and its lock taken again, it refuses what is for a computer somebody else has by
\* now; anything else goes to the computer.
Forwards(r) ==
    /\ ask[r] = "allowed"
    /\ IF holder # "other"
       THEN Go(r, "acts") /\ UNCHANGED locked
       ELSE Go(r, "refused") /\ locked' = Nobody
    /\ UNCHANGED <<driving, holder, crossed>>

Acted(r) ==
    /\ ask[r] = "acts"
    /\ Go(r, "answered") /\ locked' = Nobody
    /\ UNCHANGED <<driving, holder, crossed>>

ViewStep(r) == Routed(r) \/ Claims(r) \/ Claimed(r) \/ Returns(r) \/ Locks(r) \/ Decides(r) \/ Forwards(r) \/ Acted(r)

\* Another person takes the free computer, or gives it back.
OtherHolds ==
    /\ \E r \in Requests : ask[r] = "unsent"
    /\ holder \in {Nobody, "other"}
    /\ holder' = IF holder = "other" THEN Nobody ELSE "other"
    /\ UNCHANGED <<driving, locked, ask, crossed>>
------------------------------------------------------------------------------
\* A viewer that answers for its person holds the computer: once every takeover and release is
\* answered, `driving` says what the hub says.  (Excepted: a takeover and a release that overlap.
\* The page's own button cannot send them, two tabs can, and the late answer of the takeover then
\* leaves a viewer that says it drives a computer it gave back.)
DrivingMeansHolding ==
    driving /\ ~crossed /\ Under("takeover") = {} => holder = "viewer"

\* Consent is the person's as of now: an input that waited behind a slow frame while the computer
\* was given back is not allowed on the strength of the check made when it arrived.  (This is about the
\* moment of the answer: a release may still come before the hub forwards what was allowed.)
ConsentIsFresh ==
    [][\A r \in Requests : Asks[r].kind = "input" /\ ask[r] = "calls" /\ ask'[r] = "allowed" /\ ~crossed
            => holder = "viewer"]_viewVars
=============================================================================
