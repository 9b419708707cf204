------------------------------ MODULE E2Agent ------------------------------
(***************************************************************************)
(* The E2 agent of src/agent/e2_agent.c: one reactor thread running        *)
(* e2_start_agent / e2_event_loop_agent, producer threads calling          *)
(* e2_async_event_agent, and the owner thread calling e2_free_agent.  The  *)
(* controller (RIC) on the other end of the SCTP association and the       *)
(* kernel timers are the environment.                                      *)
(*                                                                         *)
(* The registries are abstracted to what classification needs: pending   *)
(* says ag->pending holds SETUP_REQUEST_PENDING_EVENT (keyed by the fd     *)
(* SetupTimer), indEv holds the ind_event_t entries of ag->ind_event; the  *)
(* timer fd of the subscription with ric_req_id r is identified with r.    *)
(* Plugins are called through ServiceModel.                                *)
(* The aperiodic hand-off keeps its full control: the thread-safe queue    *)
(* ag->aind as a sequence and the pipe ag->io.pipe as a byte count.        *)
(***************************************************************************)
EXTENDS Integers, Sequences, FiniteSets, DecimalFormat, ServiceModel

CONSTANTS
    Producers,       \* threads that call e2_async_event_agent
    ReqIds,          \* ric_req_id values the controller subscribes with
    LookupAttempts,  \* the for-loop bound in e2_async_event_agent (10)
    MaxCalls,        \* bound: aperiodic requests made over a behaviour
    MaxSetupSends,   \* bound: setup requests (first send plus resends)
    MaxNetQueue,     \* bound: SCTP messages in flight to the agent
    SetupTimer,      \* the timer fd of the setup-request pending event
    Plugins,         \* the service models init_plugin_ag loads
    IndData,         \* ind_data the callers of e2_async_event_agent pass
    CtrlActions,     \* the action field of the control requests the RIC sends
    PipeCap,         \* bytes the pipe holds unread (65536 on Linux)
    CtrlHdrs,        \* the hdr.dummy field of those control requests
    SctpFd,          \* ag->ep.base.fd, the SCTP socket to the RIC
    PipeFd           \* ag->io.pipe.r, the read end of the wake pipe

ASSUME /\ ReqIds \subseteq Nat /\ ReqIds # {}   \* uint32_t values
       /\ LookupAttempts \in Nat \ {0}
       /\ MaxCalls \in Nat /\ MaxSetupSends \in Nat \ {0}
       /\ MaxNetQueue \in Nat \ {0} /\ SetupTimer \notin ReqIds
       /\ Plugins \subseteq SmKinds /\ NULL \in IndData
       /\ PipeCap \in Nat \ {0}
       /\ {SctpFd, PipeFd} \cap (ReqIds \cup {SetupTimer}) = {}
       /\ SctpFd # PipeFd

NoReason == "none"

TimerFds == ReqIds \cup {SetupTimer}

\* ag->plugin.sm_ds, filled by init_plugin_ag in e2_init_agent.
sm_ds == SmRegistry(Plugins)

RanFuncIds == DOMAIN sm_ds

\* An ind_event_t: the RIC identifier, the plugin, the action definition.
IndEvents == [ric_id : ReqIds, sm : {sm_ds[f] : f \in RanFuncIds},
              act_def : {NULL}]

\* An aind_event_t: the RIC identifier and plugin copied from the entry,
\* and the caller's ind_data.
AindEvents == [ric_id : ReqIds, sm : {sm_ds[f] : f \in RanFuncIds},
               ind_data : IndData]

VARIABLES
    rpc,            \* reactor thread: where it is in e2_event_loop_agent
    stop_token,     \* ag->stop_token
    agent_stopped,  \* ag->agent_stopped
    freed,          \* e2_free_agent has released the agent
    aborted,        \* the assertion that aborted the process, or NoReason
    pending,        \* ag->pending holds the setup-request pending event
    setupSent,      \* setup requests sent so far
    indEv,          \* the entries of ag->ind_event
    armed,          \* timer fds registered with the epoll instance
    ready,          \* armed timer fds that have expired (readable)
    netIn,          \* SCTP messages not yet received by the agent
    ricSubs,        \* controller: subscriptions it has requested
    setupAnswered,  \* controller: it has sent the setup response
    tsq,            \* ag->aind: the queued aind_event_t
    pipe,           \* bytes readable on ag->io.pipe.r
    ppc,            \* producer: where it is in e2_async_event_agent
    preq,           \* producer: the ric_req_id of its current call
    pdata,          \* producer: the ind_data of its current call
    paind,          \* producer: the aind_event_t it built under the lock
    pattempt,       \* producer: lookup attempts made (loop index i)
    calls,          \* aperiodic calls started so far
    aindOut         \* the aperiodic indications sent, in order

reactorVars == <<rpc, stop_token, agent_stopped, freed, aborted>>
regVars     == <<pending, setupSent, indEv, armed, ready>>
envVars     == <<netIn, ricSubs, setupAnswered>>
aindVars    == <<tsq, pipe, ppc, preq, pdata, paind, pattempt, calls, aindOut>>
vars == <<reactorVars, regVars, envVars, aindVars>>

Msgs == [type : {"setup_resp", "notification"}]
          \cup [type : {"sub"}, req : ReqIds, ran_func : RanFuncIds]
          \cup [type : {"del"}, req : ReqIds]
          \cup [type : {"ctrl"}, ran_func : RanFuncIds, hdr : CtrlHdrs,
                 action : CtrlActions]

TypeOK ==
    /\ rpc \in {"init", "loop", "wait", "aind_consume", "pop_wait", "stopped"}
    /\ stop_token \in BOOLEAN /\ agent_stopped \in BOOLEAN /\ freed \in BOOLEAN
    /\ aborted \in {NoReason, "ric_req_id_not_found", "unknown_event",
                    "no_ran_function", "on_indication_assert",
                    "on_control_assert", "plugin_use_after_free"}
    /\ pending \in BOOLEAN /\ setupSent \in 0..MaxSetupSends
    /\ indEv \subseteq IndEvents /\ armed \subseteq TimerFds
    /\ ready \subseteq TimerFds
    /\ netIn \in Seq(Msgs) /\ Len(netIn) <= MaxNetQueue
    /\ ricSubs \subseteq ReqIds /\ setupAnswered \in BOOLEAN
    /\ tsq \in Seq(AindEvents) /\ pipe \in Nat
    /\ ppc \in [Producers -> {"idle", "lookup", "push", "write"}]
    /\ preq \in [Producers -> ReqIds] /\ pdata \in [Producers -> IndData]
    /\ paind \in [Producers -> AindEvents \cup {NULL}]
    /\ pattempt \in [Producers -> 0..LookupAttempts]
    /\ calls \in 0..MaxCalls
    /\ aindOut \in Seq([ric_id : ReqIds, sm : {sm_ds[f] : f \in RanFuncIds},
                        call_process_id : {NULL}])

Init ==
    /\ rpc = "init" /\ stop_token = FALSE /\ agent_stopped = FALSE
    /\ freed = FALSE /\ aborted = NoReason
    /\ pending = FALSE /\ setupSent = 0
    /\ indEv = {} /\ armed = {} /\ ready = {}
    /\ netIn = <<>> /\ ricSubs = {} /\ setupAnswered = FALSE
    /\ tsq = <<>> /\ pipe = 0
    /\ ppc = [p \in Producers |-> "idle"]
    /\ preq = [p \in Producers |-> CHOOSE r \in ReqIds : TRUE]
    /\ pdata = [p \in Producers |-> NULL] /\ paind = [p \in Producers |-> NULL]
    /\ pattempt = [p \in Producers |-> 0]
    /\ calls = 0 /\ aindOut = <<>>

-----------------------------------------------------------------------------
(* Reactor thread.                                                         *)

\* generate_setup_request passes its asserts (at least one plugin).
SetupOk == GenerateSetupRequest(sm_ds).ok

\* Mutant: the pending event is not inserted (bi_map_insert left out).
StartNoPending ==
    /\ rpc = "init"
    /\ IF SetupOk
         THEN /\ setupSent' = 1
              /\ armed' = armed \cup {SetupTimer}
              /\ rpc' = "loop"
              /\ UNCHANGED <<aborted, pending>>
         ELSE /\ aborted' = "no_ran_function"
              /\ UNCHANGED <<setupSent, pending, armed, rpc>>
    /\ UNCHANGED <<stop_token, agent_stopped, freed, indEv, ready,
                   envVars, aindVars>>

\* e2_start_agent: send the setup request built by generate_setup_request,
\* create the 3000 ms recurring timer and insert the pending event keyed by
\* its fd, then enter the event loop.
Start ==
    /\ rpc = "init"
    /\ IF SetupOk
         THEN /\ setupSent' = 1
              /\ pending' = TRUE /\ armed' = armed \cup {SetupTimer}
              /\ rpc' = "loop"
              /\ UNCHANGED aborted
         ELSE /\ aborted' = "no_ran_function"
              /\ UNCHANGED <<setupSent, pending, armed, rpc>>
    /\ UNCHANGED <<stop_token, agent_stopped, freed, indEv, ready,
                   envVars, aindVars>>

\* Top of the while loop: leave it once stop_token is set, and then (and
\* only then) publish agent_stopped.
CheckStop ==
    /\ rpc = "loop"
    /\ IF stop_token
         THEN rpc' = "stopped" /\ agent_stopped' = TRUE
         ELSE rpc' = "wait" /\ UNCHANGED agent_stopped
    /\ UNCHANGED <<stop_token, freed, aborted, regVars, envVars, aindVars>>

\* ind_fd / ind_event: t is a key of the left (fd) view of ag->ind_event.
IndEvent(t) == \E e \in indEv : e.ric_id = t

\* The entry ind_event returns for t.
IndEntry(t) == CHOOSE e \in indEv : e.ric_id = t

\* pend_event: ag->pending holds exactly its one entry, keyed by t.
PendEvent(t) == pending /\ t = SetupTimer

\* net_pkt: fd is the SCTP socket.
NetPkt(fd) == fd = SctpFd

\* aind_event: fd is the read end of the pipe (the pop_tsq it then makes
\* is part of AperiodicEvent).
AindEvent(fd) == fd = PipeFd

\* The value event_asio_agent returns for "no fd ready".
NoFd == -1

\* The fds epoll reports ready: the socket while a message is queued, the
\* pipe while it holds unread bytes, and the expired timers.
ReadyFds == {fd \in {SctpFd} : netIn # <<>>} \cup {fd \in {PipeFd} : pipe > 0}
              \cup ready

\* next_async_event_agent: the type of the event for the fd event_asio_agent
\* returned, tested in the code's order; a message on the socket is read
\* (e2ap_recv_msg_agent) to tell a notification from a payload.
NextAsyncEvent(fd) ==
    CASE fd = NoFd       -> "CHECK_STOP_TOKEN_EVENT"
      [] NetPkt(fd)      -> IF Head(netIn).type = "notification"
                              THEN "SCTP_CONNECTION_SHUTDOWN_EVENT"
                              ELSE "SCTP_MSG_ARRIVED_EVENT"
      [] AindEvent(fd)   -> "APERIODIC_INDICATION_EVENT"
      [] IndEvent(fd)    -> "INDICATION_EVENT"
      [] PendEvent(fd)   -> "PENDING_EVENT"
      [] OTHER           -> "UNKNOWN_EVENT"

\* Mutant: epoll_wait with an infinite timeout never returns -1.
WaitTimeoutInfinite == FALSE

\* event_asio_agent returned -1: no fd became ready before the timeout, the
\* event is CHECK_STOP_TOKEN_EVENT and the loop goes round.
WaitTimeout ==
    /\ rpc = "wait"
    /\ ReadyFds = {}
    /\ rpc' = "loop"
    /\ UNCHANGED <<stop_token, agent_stopped, freed, aborted, regVars,
                   envVars, aindVars>>

\* The message handlers of msg_handler_agent.c (not in this repository),
\* as the spec states their effect: the registry entry and its timer go
\* together; plugins are reached through sm_ds by RAN function id.
HandleSetupResponse ==
    /\ pending' = FALSE
    /\ armed' = armed \ {SetupTimer} /\ ready' = ready \ {SetupTimer}
    /\ UNCHANGED <<setupSent, indEv, aborted>>

\* The plugin's on_subscription gives the timer period (its value does not
\* matter: timers expire nondeterministically) and the action definition.
HandleSubscription(r, f) ==
    LET timer == OnSubscription(sm_ds[f], 1000)
    IN /\ indEv' = indEv \cup {[ric_id |-> r, sm |-> sm_ds[f],
                                act_def |-> timer.act_def]}
       /\ armed' = armed \cup {r}
       /\ UNCHANGED <<pending, setupSent, ready, aborted>>

HandleSubscriptionDelete(r) ==
    /\ indEv' = {e \in indEv : e.ric_id # r}
    /\ armed' = armed \ {r} /\ ready' = ready \ {r}
    /\ UNCHANGED <<pending, setupSent, aborted>>

\* The control request goes to the plugin's on_control; the acknowledge is
\* sent with e2_send_control_acknowledge.
HandleControl(f, hdr, action) ==
    /\ IF OnControl(sm_ds[f], hdr, action).ok
         THEN UNCHANGED aborted
         ELSE aborted' = "on_control_assert"
    /\ UNCHANGED regVars

\* notification_handle_ag: reported, the loop continues.
HandleNotification == UNCHANGED <<regVars, aborted>>

\* The SCTP fd is ready: receive one message; a notification is
\* SCTP_CONNECTION_SHUTDOWN_EVENT, a payload is decoded and handled.
NetEvent ==
    /\ rpc = "wait" /\ SctpFd \in ReadyFds
    /\ LET m == Head(netIn) IN
         CASE NextAsyncEvent(SctpFd) = "SCTP_CONNECTION_SHUTDOWN_EVENT"
                                      -> HandleNotification
           [] m.type = "setup_resp"   -> HandleSetupResponse
           [] m.type = "sub"          -> HandleSubscription(m.req, m.ran_func)
           [] m.type = "del"          -> HandleSubscriptionDelete(m.req)
           [] m.type = "ctrl"         -> HandleControl(m.ran_func, m.hdr, m.action)
    /\ netIn' = Tail(netIn)
    /\ rpc' = "loop"
    /\ UNCHANGED <<stop_token, agent_stopped, freed, ricSubs,
                   setupAnswered, aindVars>>

\* The pipe is ready: aind_event pops one aind_event_t with pop_tsq, which
\* blocks while the queue is empty (rpc = "pop_wait") and returns once a
\* producer has pushed; on_indication and the send follow.  consume_fd on
\* the pipe is the separate step AperiodicConsume.
AperiodicEvent ==
    /\ IF rpc = "pop_wait" THEN tsq # <<>> ELSE rpc = "wait" /\ PipeFd \in ReadyFds
    /\ IF tsq # <<>>
         THEN LET ev   == Head(tsq)
                  data == OnIndication(ev.sm, ev.ind_data)
              IN /\ tsq' = Tail(tsq)
                 /\ IF data.ok
                      THEN /\ aindOut' = Append(aindOut,
                                                GenerateAIndication(data, ev))
                           /\ rpc' = "aind_consume"
                           /\ UNCHANGED aborted
                      ELSE /\ aborted' = "on_indication_assert"
                           /\ UNCHANGED <<aindOut, rpc>>
         ELSE rpc' = "pop_wait" /\ UNCHANGED <<tsq, aindOut, aborted>>
    /\ UNCHANGED <<stop_token, agent_stopped, freed, regVars, envVars, pipe,
                   ppc, preq, pdata, paind, pattempt, calls>>

\* Mutant: consume_fd is not called on the aperiodic path.
AperiodicConsumeNoDrain ==
    /\ rpc = "aind_consume"
    /\ rpc' = "loop"
    /\ UNCHANGED <<stop_token, agent_stopped, freed, aborted, regVars,
                   envVars, aindVars>>

\* consume_fd: one read of sizeof(uint64_t) bytes from the pipe.
AperiodicConsume ==
    /\ rpc = "aind_consume"
    /\ pipe' = pipe - ReadLen(pipe)
    /\ rpc' = "loop"
    /\ UNCHANGED <<stop_token, agent_stopped, freed, aborted, regVars,
                   envVars, tsq, ppc, preq, pdata, paind, pattempt, calls,
                   aindOut>>


\* A timer fd t is ready.  In the order of next_async_event_agent: found
\* by ind_event, it is INDICATION_EVENT (on_indication with the stored
\* act_def, then the send); else pend_event's asserts require the pending
\* entry for t, and it is PENDING_EVENT (generate_setup_request again and
\* resend).  consume_fd(t) then reads the whole expiration count.
TimerEvent(t) ==
    /\ rpc = "wait" /\ t \in ready
    /\ CASE NextAsyncEvent(t) = "INDICATION_EVENT" ->
              /\ ready' = ready \ {t} /\ rpc' = "loop"
              /\ aborted' = IF OnIndication(IndEntry(t).sm, IndEntry(t).act_def).ok
                              THEN aborted ELSE "on_indication_assert"
              /\ UNCHANGED setupSent
         [] NextAsyncEvent(t) = "PENDING_EVENT" ->
              /\ ready' = ready \ {t} /\ rpc' = "loop"
              /\ setupSent' = setupSent + 1
              /\ aborted' = IF SetupOk THEN aborted ELSE "no_ran_function"
         [] OTHER ->
              /\ aborted' = "unknown_event"
              /\ UNCHANGED <<ready, setupSent, rpc>>
    /\ UNCHANGED <<stop_token, agent_stopped, freed, pending, indEv, armed,
                   envVars, aindVars>>

-----------------------------------------------------------------------------
(* Producer threads: e2_async_event_agent(ag, ric_req_id, ind_data).       *)

\* A call is made only for a subscription that is established (the
\* caller's side of the contract).
Call(p, r, d) ==
    /\ ppc[p] = "idle" /\ calls < MaxCalls /\ IndEvent(r)
    /\ ppc' = [ppc EXCEPT ![p] = "lookup"]
    /\ preq' = [preq EXCEPT ![p] = r]
    /\ pdata' = [pdata EXCEPT ![p] = d]
    /\ paind' = [paind EXCEPT ![p] = NULL]
    /\ pattempt' = [pattempt EXCEPT ![p] = 0]
    /\ calls' = calls + 1
    /\ UNCHANGED <<reactorVars, regVars, envVars, tsq, pipe,
                   aindOut>>

\* The aind_event_t copied from the entry found for p's ric_req_id.
CopyAind(p) ==
    [ric_id |-> IndEntry(preq[p]).ric_id, sm |-> IndEntry(preq[p]).sm,
     ind_data |-> pdata[p]]

\* Mutant: the attempt bound is checked before the increment (one extra
\* attempt, past the loop bound).
LookupLate(p) ==
    /\ ppc[p] = "lookup"
    /\ IF IndEvent(preq[p])
         THEN /\ ppc' = [ppc EXCEPT ![p] = "push"]
              /\ paind' = [paind EXCEPT ![p] = CopyAind(p)]
              /\ UNCHANGED <<pattempt, aborted>>
         ELSE /\ pattempt' = [pattempt EXCEPT ![p] = @ + 1]
              /\ IF pattempt[p] = LookupAttempts
                   THEN aborted' = "ric_req_id_not_found"
                   ELSE UNCHANGED aborted
              /\ UNCHANGED <<ppc, paind>>
    /\ UNCHANGED <<rpc, stop_token, agent_stopped, freed, regVars,
                   envVars, tsq, pipe, preq, pdata, calls, aindOut>>

\* Mutant: the lookup loop has no bound and retries until the entry is
\* there.
LookupUnbounded(p) ==
    /\ ppc[p] = "lookup"
    /\ IF IndEvent(preq[p])
         THEN /\ ppc' = [ppc EXCEPT ![p] = "push"]
              /\ paind' = [paind EXCEPT ![p] = CopyAind(p)]
         ELSE UNCHANGED <<ppc, paind>>
    /\ UNCHANGED <<rpc, stop_token, agent_stopped, freed, aborted, regVars,
                   envVars, tsq, pipe, preq, pdata, pattempt, calls, aindOut>>

\* One iteration of the lookup loop, under mtx_ind_event: search the right
\* view of ag->ind_event by ric_req_id.  Found: copy the entry and unlock.
\* Not found: unlock, usleep(10) and try again; after the last attempt the
\* assert(it != l && "Not found RIC Request ID") aborts the process.
Lookup(p) ==
    /\ ppc[p] = "lookup"
    /\ IF IndEvent(preq[p])
         THEN /\ ppc' = [ppc EXCEPT ![p] = "push"]
              /\ paind' = [paind EXCEPT ![p] = CopyAind(p)]
              /\ UNCHANGED <<pattempt, aborted>>
         ELSE /\ pattempt' = [pattempt EXCEPT ![p] = @ + 1]
              /\ IF pattempt[p] + 1 = LookupAttempts
                   THEN aborted' = "ric_req_id_not_found"
                   ELSE UNCHANGED aborted
              /\ UNCHANGED <<ppc, paind>>
    /\ UNCHANGED <<rpc, stop_token, agent_stopped, freed, regVars,
                   envVars, tsq, pipe, preq, pdata, calls, aindOut>>

\* push_tsq(&ag->aind, &aind, ...).
Push(p) ==
    /\ ppc[p] = "push"
    /\ tsq' = Append(tsq, paind[p])
    /\ ppc' = [ppc EXCEPT ![p] = "write"]
    /\ UNCHANGED <<reactorVars, regVars, envVars, pipe, preq, pdata, paind,
                   pattempt, calls, aindOut>>

\* write(ag->io.pipe.w, str, rc) with str = "%u\n" of ric_req_id.  On a
\* full pipe the write blocks until the token fits (a write of at most
\* PIPE_BUF bytes is never split).
WriteWake(p) ==
    /\ ppc[p] = "write"
    /\ pipe + WakeLen(preq[p]) <= PipeCap
    /\ pipe' = pipe + WakeLen(preq[p])
    /\ ppc' = [ppc EXCEPT ![p] = "idle"]
    /\ UNCHANGED <<reactorVars, regVars, envVars, tsq, preq, pdata, paind,
                   pattempt, calls, aindOut>>

-----------------------------------------------------------------------------
(* Owner thread: e2_free_agent.                                            *)

\* ag->stop_token = true (the reactor runs by then).
RequestStop ==
    /\ rpc # "init" /\ ~stop_token
    /\ stop_token' = TRUE
    /\ UNCHANGED <<rpc, agent_stopped, freed, aborted, regVars,
                   envVars, aindVars>>

\* free_ind_event_map(ev): if(ev->sm->free_act_def != NULL) call it, then
\* free(ev).  With smLoaded FALSE, ev->sm points to a plugin already
\* freed (free_*_sm_ag: free(sm)): the read is of freed memory and yields
\* the stale NULL (nothing is called) or an overwritten word that is
\* called as a function, and the process dies.
FreeIndEventMap(ev, smLoaded) ==
    CASE ~smLoaded                 -> {"skipped", "wild_call"}
      [] ev.sm.free_act_def = NULL -> {"skipped"}
      [] OTHER                     -> {"released"}

\* The usleep loop ends once agent_stopped is seen; then, in this order,
\* free_plugin_ag (every plugin's free_sm), free_pending_agent,
\* free_indication_event (free_ind_event_map on each remaining entry,
\* whose plugin is gone by then), free_tsq and free(ag).
Free ==
    /\ stop_token /\ agent_stopped /\ ~freed
    /\ freed' = TRUE
    /\ \E out \in UNION {FreeIndEventMap(e, FALSE) : e \in indEv} \cup {"skipped"} :
          aborted' = IF out = "wild_call" THEN "plugin_use_after_free"
                                          ELSE aborted
    /\ UNCHANGED <<rpc, stop_token, agent_stopped, regVars,
                   envVars, aindVars>>

-----------------------------------------------------------------------------
(* Environment: the kernel timers and the controller.                      *)

\* An armed timer expires: the recurring 3000 ms setup timer (bounded
\* resends) or the periodic timer of a subscription.
Tick(t) ==
    /\ t \in armed \ ready
    /\ t = SetupTimer => setupSent < MaxSetupSends
    /\ ready' = ready \cup {t}
    /\ UNCHANGED <<reactorVars, pending, setupSent, indEv, armed, envVars,
                   aindVars>>

CtrlSend(m) ==
    /\ Len(netIn) < MaxNetQueue
    /\ netIn' = Append(netIn, m)

\* The controller answers the setup request once, and only then
\* subscribes; it deletes only what it subscribed.
Controller ==
    /\ \/ /\ setupSent > 0 /\ ~setupAnswered
          /\ CtrlSend([type |-> "setup_resp"])
          /\ setupAnswered' = TRUE /\ UNCHANGED ricSubs
       \/ \E r \in ReqIds \ ricSubs, f \in RanFuncIds :
          /\ setupAnswered
          /\ CtrlSend([type |-> "sub", req |-> r, ran_func |-> f])
          /\ ricSubs' = ricSubs \cup {r} /\ UNCHANGED setupAnswered
       \/ \E r \in ricSubs :
          /\ CtrlSend([type |-> "del", req |-> r])
          /\ ricSubs' = ricSubs \ {r} /\ UNCHANGED setupAnswered
       \/ \E f \in RanFuncIds, h \in CtrlHdrs, a \in CtrlActions :
          /\ setupAnswered
          /\ CtrlSend([type |-> "ctrl", ran_func |-> f, hdr |-> h, action |-> a])
          /\ UNCHANGED <<ricSubs, setupAnswered>>
       \/ /\ setupSent > 0
          /\ CtrlSend([type |-> "notification"])
          /\ UNCHANGED <<ricSubs, setupAnswered>>
    /\ UNCHANGED <<reactorVars, regVars, aindVars>>

-----------------------------------------------------------------------------
Running == aborted = NoReason /\ ~freed

ReactorStep ==
    /\ Running
    /\ \/ Start \/ CheckStop \/ WaitTimeout \/ NetEvent \/ AperiodicEvent
       \/ AperiodicConsume \/ \E t \in TimerFds : TimerEvent(t)

ProducerStep(p) ==
    /\ Running
    /\ Lookup(p) \/ Push(p) \/ WriteWake(p)

Environment ==
    /\ Running
    /\ \/ \E p \in Producers, r \in ReqIds, d \in IndData : Call(p, r, d)
       \/ RequestStop \/ Free
       \/ \E t \in TimerFds : Tick(t)
       \/ Controller

\* The process has aborted, or the agent is released: nothing more happens.
Halted == ~Running /\ UNCHANGED vars

Next ==
    \/ ReactorStep
    \/ \E p \in Producers : ProducerStep(p)
    \/ Environment
    \/ Halted

\* The reactor is the only thread of its kind and never waits but in
\* epoll_wait (which returns on a ready fd or after its timeout); epoll
\* rotates its ready list, so a pipe that is ready again and again is
\* eventually returned; a producer inside e2_async_event_agent only
\* waits for the mutex, held briefly.
Fairness ==
    /\ WF_vars(ReactorStep)
    /\ SF_vars(Running /\ AperiodicEvent)
    /\ \A p \in Producers : WF_vars(ProducerStep(p))

Spec == Init /\ [][Next]_vars /\ Fairness

-----------------------------------------------------------------------------
(* Properties.                                                             *)

\* The reactor pops ag->aind only when the pipe byte that woke it belongs
\* to an event already pushed: it never blocks in pop_tsq on an empty
\* queue while the SCTP socket, the timers and the stop token wait.
NoPopOnEmpty == rpc # "pop_wait"

\* After e2_free_agent sets stop_token, the reactor eventually leaves the
\* event loop and publishes agent_stopped (or the process has aborted), so
\* the owner's usleep loop ends.  The reactor reads stop_token only at the
\* top of its loop (line 404), so this needs every event it dispatches to
\* return there: spec 4.5 bounds the wait by the epoll timeout.
StopTerminates == stop_token ~> (agent_stopped \/ aborted # NoReason)

\* No aperiodic request ends in the assert of the lookup loop: every call
\* made for an established subscription finds it.
LookupNeverAborts == aborted # "ric_req_id_not_found"

\* A request made through e2_async_event_agent with an ind_data payload,
\* as the spec's aperiodic-delivery case makes it, is sent as an
\* indication: the plugin's on_indication, called by aind_event's branch
\* with that payload, never aborts the process.
AperiodicIndicationNeverAborts == aborted # "on_indication_assert"

\* A control request the RIC sends to a RAN function of the setup request
\* never aborts the agent: the plugin's on_control is not one of the
\* spec's fatal invariant checks.
ControlNeverAborts == aborted # "on_control_assert"

\* e2_free_agent releases the remaining subscriptions at shutdown through
\* their plugins' deallocation procedure while those plugins are still
\* loaded: free_ind_event_map never reads a released sm_agent_t.
NoPluginUseAfterFree == aborted # "plugin_use_after_free"

\* An aperiodic indication is sent only for a subscription that is still
\* active when the reactor sends it: the aind_event_t copied by
\* e2_async_event_agent under mtx_ind_event does not outlive the
\* subscription delete the reactor handles before popping it.
NoIndicationAfterDelete ==
    [][Len(aindOut') > Len(aindOut) => IndEvent(aindOut'[Len(aindOut')].ric_id)]_vars

\* A thread that called e2_async_event_agent eventually returns from it,
\* unless the agent stops or the process ends first: the write of its
\* wake token, which blocks while the pipe is full, is released by the
\* reactor's consume_fd reads.
ProducerReturns ==
    \A p \in Producers :
        ppc[p] # "idle" ~> (ppc[p] = "idle" \/ agent_stopped \/ ~Running)

\* The setup handshake implements spec 4.3's state machine: the agent is
\* awaiting the response exactly while ag->pending holds its entry, the
\* request is resent only then, and the response ends the wait for good.
Handshake == INSTANCE SetupHandshake
    WITH hs <- CASE rpc = "init" -> "NOT_STARTED"
                 [] pending      -> "AWAITING_RESPONSE"
                 [] OTHER        -> "ESTABLISHED",
         sent <- setupSent

HandshakeSpec == Handshake!Spec

\* The aperiodic hand-off is a reliable FIFO channel from the producers to
\* the controller: every pushed request is sent, once and in order, unless
\* the agent stops first.
Channel == INSTANCE AperiodicChannel
    WITH Items <- ReqIds,
         chan <- [i \in DOMAIN tsq |-> tsq[i].ric_id],
         delivered <- [i \in DOMAIN aindOut |-> aindOut[i].ric_id],
         closed <- agent_stopped \/ ~Running

ChannelSpec == Channel!Spec
=============================================================================
