---------------------------- MODULE ServiceModel ----------------------------
(***************************************************************************)
(* The agent-side service models of src/sm (TC, SLICE, GTP) and the parts  *)
(* of src/agent/e2_agent.c that call them through the sm_agent_t proc     *)
(* table.  Encoded bytes (headers, messages, RAN function definitions)    *)
(* are abstracted to what the agent does with them; a procedure that       *)
(* reaches a failing assert returns ok = FALSE, which the caller turns      *)
(* into the abort of the process.                                          *)
(***************************************************************************)
EXTENDS Naturals, Sequences, FiniteSets

LOCAL INSTANCE SequencesExt

CONSTANTS
    NULL,         \* the null pointer
    SM_TC_ID,     \* RAN function ids of sm/*/..._sm_id.h
    SM_SLICE_ID,
    SM_GTP_ID

ASSUME {SM_TC_ID, SM_SLICE_ID, SM_GTP_ID} \subseteq 0..65535   \* uint16_t

\* The plugins of this repository, named by the file that implements them.
SmKinds == {"tc", "slice", "gtp"}

\* make_*_sm_agent: the sm_agent_t with its ran_func_id, no action-
\* definition deallocator, and the proc table of its file ("proc").
MakeTcSmAgent    == [proc |-> "tc", ran_func_id |-> SM_TC_ID, free_act_def |-> NULL]
MakeSliceSmAgent == [proc |-> "slice", ran_func_id |-> SM_SLICE_ID, free_act_def |-> NULL]
MakeGtpSmAgent   == [proc |-> "gtp", ran_func_id |-> SM_GTP_ID, free_act_def |-> NULL]

MakeSmAgent(k) == CASE k = "tc"    -> MakeTcSmAgent
                    [] k = "slice" -> MakeSliceSmAgent
                    [] k = "gtp"   -> MakeGtpSmAgent

\* ag->plugin.sm_ds: the loaded plugins keyed by their ran_func_id.
SmRegistry(kinds) ==
    [id \in {MakeSmAgent(k).ran_func_id : k \in kinds} |->
        MakeSmAgent(CHOOSE k \in kinds : MakeSmAgent(k).ran_func_id = id)]

\* on_e2_setup_*_sm_ag: the RAN function descriptor, with the id of the
\* file's own *_sm_id.h (not read back from the sm_agent_t).
OnE2SetupTc    == [rf |-> [id |-> SM_TC_ID, def |-> "TC"]]
OnE2SetupSlice == [rf |-> [id |-> SM_SLICE_ID, def |-> "SLICE"]]
\* Mutant: the GTP file copied from TC keeps TC's id.
OnE2SetupGtpCopied == [rf |-> [id |-> SM_TC_ID, def |-> "GTP"]]
OnE2SetupGtp   == [rf |-> [id |-> SM_GTP_ID, def |-> "GTP"]]

OnE2Setup(sm) == CASE sm.proc = "tc"    -> OnE2SetupTc
                   [] sm.proc = "slice" -> OnE2SetupSlice
                   [] sm.proc = "gtp"   -> OnE2SetupGtp

\* on_subscription_*_sm_ag: decode the event trigger with the plugin's
\* codec; the timer period is its ms, the other fields of
\* subscribe_timer_t (act_def among them) stay zero.
OnSubscriptionTc(event_trigger)    == [ms |-> event_trigger, act_def |-> NULL]
OnSubscriptionSlice(event_trigger) == [ms |-> event_trigger, act_def |-> NULL]
OnSubscriptionGtp(event_trigger)   == [ms |-> event_trigger, act_def |-> NULL]

OnSubscription(sm, et) == CASE sm.proc = "tc"    -> OnSubscriptionTc(et)
                            [] sm.proc = "slice" -> OnSubscriptionSlice(et)
                            [] sm.proc = "gtp"   -> OnSubscriptionGtp(et)

\* on_indication_*_sm_ag: assert(act_def == NULL), then the encoded header
\* {dummy = 0}, the RAN's statistics (io.read_ind) as the message, and
\* call_process_id = NULL with len_cpid = 0.
OnIndicationTc(act_def) ==
    [ok |-> act_def = NULL, call_process_id |-> NULL, len_cpid |-> 0]
OnIndicationSlice(act_def) ==
    [ok |-> act_def = NULL, call_process_id |-> NULL, len_cpid |-> 0]
OnIndicationGtp(act_def) ==
    [ok |-> act_def = NULL, call_process_id |-> NULL, len_cpid |-> 0]

OnIndication(sm, act_def) == CASE sm.proc = "tc"    -> OnIndicationTc(act_def)
                               [] sm.proc = "slice" -> OnIndicationSlice(act_def)
                               [] sm.proc = "gtp"   -> OnIndicationGtp(act_def)

\* on_control_tc_sm_ag / on_control_slice_sm_ag: decode header and message,
\* hand them to the RAN's io.write_ctrl and assert the kind of its answer,
\* which the RAN's callbacks (outside this repository) always give.
OnControlTc(hdr, action)    == [ok |-> TRUE]
OnControlSlice(hdr, action) == [ok |-> TRUE]

\* on_control_gtp_sm_ag: assert(hdr.dummy == 0) and assert(msg.action == 42),
\* then io.write_ctrl with {dummy = 0, action}; the answer is empty.
OnControlGtp(hdr, action) == [ok |-> hdr = 0 /\ action = 42]

OnControl(sm, hdr, action) == CASE sm.proc = "tc"    -> OnControlTc(hdr, action)
                                [] sm.proc = "slice" -> OnControlSlice(hdr, action)
                                [] sm.proc = "gtp"   -> OnControlGtp(hdr, action)

\* sizeof(size_t) on the LP64 build.
SizeOfSizeT == 8

\* if(data->call_process_id != NULL): malloc(sizeof(data->len_cpid)), the
\* size of a size_t, then the byte_array_t's buf and len are written into
\* that block ("alloc" is its size).
CallProcessId(data) ==
    IF data.call_process_id = NULL THEN NULL
    ELSE [buf |-> data.call_process_id, len |-> data.len_cpid,
          alloc |-> SizeOfSizeT]

\* generate_aindication: the indication carries the RIC identifier and
\* plugin of the aind_event_t and the plugin's data.
GenerateAIndication(data, ai_ev) ==
    [ric_id |-> ai_ev.ric_id, sm |-> ai_ev.sm,
     call_process_id |-> CallProcessId(data)]

\* generate_indication: the same from the ind_event_t of a subscription
\* timer, with its action id.
GenerateIndication(data, i_ev) ==
    [ric_id |-> i_ev.ric_id, action_id |-> i_ev.action_id,
     call_process_id |-> CallProcessId(data)]

-----------------------------------------------------------------------------
(* generate_setup_request                                                  *)

\* The ran_func_id keys of sm_ds in the order assoc_front / assoc_next
\* visit them (ascending, the registry being a search tree).
AscendingKeys(S) == SetToSortSeq(S, <)

\* for(i = 0; i < len_rf; ++i): each plugin must be stored under its own
\* ran_func_id, and its on_e2_setup must report that id; after the loop the
\* iterator must be at the end of the registry.
RECURSIVE SetupLoop(_, _, _, _)
SetupLoop(sm_ds, keys, i, len_rf) ==
    IF i >= len_rf THEN [ok |-> i = Len(keys), items |-> <<>>]
    ELSE LET sm   == sm_ds[keys[i + 1]]
             def  == OnE2Setup(sm)
             rest == SetupLoop(sm_ds, keys, i + 1, len_rf)
         IN [ok    |-> /\ sm.ran_func_id = keys[i + 1]
                       /\ sm.ran_func_id = def.rf.id
                       /\ rest.ok,
             items |-> <<def.rf>> \o rest.items]

\* assert(len_rf > 0): an agent without plugins aborts; otherwise one
\* descriptor per registered RAN function.
GenerateSetupRequest(sm_ds) ==
    LET len_rf == Cardinality(DOMAIN sm_ds)
        loop   == SetupLoop(sm_ds, AscendingKeys(DOMAIN sm_ds), 0, len_rf)
    IN [ok |-> len_rf > 0 /\ loop.ok, ran_func_item |-> loop.items]
=============================================================================
