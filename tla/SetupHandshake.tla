--------------------------- MODULE SetupHandshake ---------------------------
(***************************************************************************)
(* What the setup handshake of the E2 agent promises (spec 4.3): the agent *)
(* starts, sends the setup request and awaits the response; while it      *)
(* awaits, every timer expiry resends the request; the response ends the  *)
(* wait for good, and no request is sent after it.                        *)
(***************************************************************************)
EXTENDS Naturals

VARIABLES
    hs,    \* NOT_STARTED, AWAITING_RESPONSE or ESTABLISHED
    sent   \* setup requests sent so far

HsStates == {"NOT_STARTED", "AWAITING_RESPONSE", "ESTABLISHED"}

Init == hs = "NOT_STARTED" /\ sent = 0

\* Start: the first request is sent and the wait begins.
Begin ==
    /\ hs = "NOT_STARTED"
    /\ hs' = "AWAITING_RESPONSE" /\ sent' = 1

\* The retry timer fires while awaiting: the request is sent again.
Resend ==
    /\ hs = "AWAITING_RESPONSE"
    /\ sent' = sent + 1 /\ UNCHANGED hs

\* A valid response arrives: the wait ends.
Establish ==
    /\ hs = "AWAITING_RESPONSE"
    /\ hs' = "ESTABLISHED" /\ UNCHANGED sent

Next == Begin \/ Resend \/ Establish

Spec == Init /\ [][Next]_<<hs, sent>>
=============================================================================
