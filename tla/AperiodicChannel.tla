--------------------------- MODULE AperiodicChannel ---------------------------
(***************************************************************************)
(* What the aperiodic-indication path promises (spec 4.2, 8): a request    *)
(* handed to e2_async_event_agent is transmitted once, in FIFO order, by   *)
(* the reactor, unless the agent stops first.                              *)
(***************************************************************************)
EXTENDS Sequences

CONSTANT Items       \* what a request carries (its ric_req_id)

VARIABLES chan,       \* requests accepted and not yet transmitted
          delivered,  \* requests transmitted, in order
          closed      \* the reactor has left its loop
vars == <<chan, delivered, closed>>

Init == chan = <<>> /\ delivered = <<>> /\ closed = FALSE

\* A producer hands a request over.
Request(r) ==
    /\ chan' = Append(chan, r)
    /\ UNCHANGED <<delivered, closed>>

\* The reactor transmits the oldest request.
Deliver ==
    /\ ~closed /\ chan # <<>>
    /\ delivered' = Append(delivered, Head(chan))
    /\ chan' = Tail(chan)
    /\ UNCHANGED closed

\* The reactor stops; queued requests are dropped with the queue.
Close ==
    /\ ~closed
    /\ closed' = TRUE
    /\ UNCHANGED <<chan, delivered>>

Next == (\E r \in Items : Request(r)) \/ Deliver \/ Close

Spec == Init /\ [][Next]_vars /\ WF_vars(Deliver)
=============================================================================
