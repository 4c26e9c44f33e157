------------------------------ MODULE HubPromise ------------------------------
(***************************************************************************)
(* Hub keeps what Promise promises.  A call is cleared when the policy's      *)
(* verdict or the owner's answer permits it; it has run when a guest has the  *)
(* frame or the hub carried it out; its caller is told when the response is   *)
(* on its connection.                                                        *)
(***************************************************************************)
EXTENDS Hub

\* The endings that say: this call was not carried out.
Refusals == {"byPolicy", "byHook", "byPerson", "noCredential", "unrouted",
             "takenOver", "noSession", "recorded", "diverged"}

P == INSTANCE Promise WITH
        Calls   <- ToolCalls,
        cleared <- {r \in ToolCalls : Permitted(r)},
        ran     <- {r \in ToolCalls : Ran(r)},
        told    <- [r \in ToolCalls |-> answers[r]]

\* A call runs only once it is cleared, never after its caller was told, and
\* its caller is told once and truly: whatever was refused did not run, whatever
\* is reported done ran (tool_call, on_response, finish_relay).
KeepsItsPromise == P!Spec
=============================================================================
