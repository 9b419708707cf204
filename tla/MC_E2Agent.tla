----------------------------- MODULE MC_E2Agent -----------------------------
(* Instantiates E2Agent for TLC.  Request ids are chosen by the number of  *)
(* decimal digits, the only thing about them the agent's control depends   *)
(* on: the wake token written to the pipe is "%u\n".                       *)
EXTENDS E2Agent

\* A payload a caller passes as ind_data.
CONSTANT Payload

\* RAN function ids as FlexRIC's sm/*/..._sm_id.h define them.
MC_SM_TC_ID    == 146
MC_SM_SLICE_ID == 145
MC_SM_GTP_ID   == 148

\* Two plugins, so subscriptions and control requests name one of several.
MC_Plugins == {"tc", "gtp"}
\* GTP alone, for the control request run.
MC_Plugins_Gtp == {"gtp"}
\* Callers pass no ind_data (act_def NULL), or may pass a payload.
MC_IndData_Null == {NULL}
MC_IndData_Payload == {NULL, Payload}
\* The control action GTP supports, and one it does not.
MC_Actions_42 == {42}
MC_Actions_Any == {42, 7}

\* The hdr.dummy values of control requests: the one GTP supports, and one more.
MC_Hdrs_0 == {0}
MC_Hdrs_Any == {0, 1}

\* Seven digits: an 8-byte token, exactly one consume_fd read.
MC_ReqIds_8 == {1000000, 9999999}
\* One seven-digit id, for the liveness runs.
MC_ReqId_8 == {4242424}
\* One digit: a 2-byte token, several fit in one read.
MC_ReqIds_2 == {7, 9}
\* Eight digits: a 9-byte token, one read leaves a byte behind.

MC_ReqIds_9 == {10000000, 99999999}
\* Once e2_start_agent or a PENDING_EVENT resend has called
\* generate_setup_request (a request was sent, or its asserts aborted the
\* agent with no_ran_function), what that call returns, for the
\* plugins loaded and for every other set the agent could have loaded,
\* fails exactly when the set is empty, and otherwise is one RAN function
\* descriptor per loaded plugin, carrying that plugin's id, in ascending id
\* order (the order of the registry tree).
SetupRequestAdvertisesRegistry ==
    setupSent > 0 \/ aborted = "no_ran_function" =>
    \A kinds \in SUBSET SmKinds :
        LET sr    == GenerateSetupRequest(SmRegistry(kinds))
            items == sr.ran_func_item
        IN /\ sr.ok <=> kinds # {}
           /\ sr.ok =>
                /\ Len(items) = Cardinality(kinds)
                /\ {items[i].id : i \in DOMAIN items}
                     = {MakeSmAgent(k).ran_func_id : k \in kinds}
                /\ \A i \in 1..Len(items) - 1 : items[i].id < items[i + 1].id

=============================================================================
