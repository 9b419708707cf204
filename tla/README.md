# TLA+ models of the WiLLM / FlexRIC E2 agent

This directory holds TLA+ models of the E2 agent in
`src/openair2/E2AP/flexric/src/agent/e2_agent.c`, with TLC configurations that
check them. The agent is the RAN-side endpoint of the E2 protocol.

## 1. Inventory of the system

### Components

| Component | Source | State | Operations |
|---|---|---|---|
| Reactor (event loop) | `e2_agent.c` 360-502 | `stop_token`, `agent_stopped`, epoll set (SCTP fd, pipe read end, timer fds) | `e2_start_agent`, `e2_event_loop_agent`, `next_async_event_agent`, `consume_fd` |
| Event classification | `e2_agent.c` 267-329, 360-398 | — | `next_async_event_agent`: `net_pkt` (SCTP socket), `aind_event` (pipe), `ind_event` / `ind_fd` (subscription timers), `pend_event` (setup timer), in that order |
| Registries | `e2_agent.c` 504-537 | `ind_event` bi-map (timer fd ↔ subscription) under `mtx_ind_event`; `pending` bi-map (timer fd ↔ pending setup) | insert and remove in the message handlers (not in this repository) |
| Setup handshake | `e2_agent.c` 539-563 | pending entry, 3000 ms recurring timer | first send, resend on each timer expiry, cleared by the setup response |
| Aperiodic indication path | `e2_agent.c` 583-637, 429-446 | thread-safe queue `aind`, pipe `io.pipe` | `e2_async_event_agent` (any thread): lookup with retries, `push_tsq`, write of the `"%u\n"` token; reactor: `pop_tsq`, send, `consume_fd` |
| Shutdown | `e2_agent.c` 565-581 | `stop_token`, `agent_stopped` | `e2_free_agent` |
| Indication generation | `e2_agent.c` 120-174 | — | `generate_aindication`, `generate_indication`: copy the ids and allocate the call-process id |
| Service models TC, SLICE, GTP (agent side) | `sm/*_sm_agent.c` | per-SM encoding/decoding state | `on_subscription`, `on_indication`, `on_control`, `on_e2_setup`, `on_ric_service_update`, `free` |
| KPM service model (RIC side) | `sm/kpm_sm_v03.00/kpm_sm_ric.c` | — | encode/decode of subscription, indication and control |
| MAC SM round-trip test | `test/sm/mac_sm/main.c` | — | a test program |

### How they interact

A single reactor thread owns the SCTP endpoint, the registries and every send.
Other threads (RAN threads, xApp-driven callers) interact with it only through
`e2_async_event_agent`:
1. The caller takes `mtx_ind_event` and looks the subscription up by `ric_req_id`. It tries up to ten times, sleeping in between, and then asserts.
2. It copies the subscription and pushes an `aind_event_t` on the queue.
3. It writes the decimal `ric_req_id` followed by a newline to the pipe.

The reactor sees the pipe as readable. It then pops one event, sends the indication, and reads at most 8 bytes from the pipe (`consume_fd`).

Shutdown is two flags. `e2_free_agent` sets `stop_token` and spins until the reactor, at the top of its loop, sets `agent_stopped`. It then frees, in this order: the plugins, the pending registry, the indication registry, the queue, and the agent. Releasing the indication registry calls `free_ind_event_map` on each remaining subscription, which reads its plugin's `free_act_def`.

### Hazards

The hazards are listed with their lines in `PROJECT.json` under "hazards". The central ones are:
- the length of the pipe token against the fixed 8-byte read;
- the push/write order;
- the blocking `pop_tsq` inside the single reactor thread;
- the bounded lookup retry racing a subscription delete;
- `e2_free_agent` not waiting for producer threads;
- timers that are still armed after their registry entry is gone;
- the stop token, which is only seen between epoll waits;
- the `aind_event_t` copy, which is sent after its subscription may have been deleted;
- shutdown freeing the plugins before the subscriptions that point to them.

## 2. Modules

| Module | Models |
|---|---|
| `DecimalFormat` | `NumDigits` (RECURSIVE): the number of digits `%u` prints. `WakeLen`: the token `e2_async_event_agent` writes (digits + 1). `ReadLen`: how many bytes one `consume_fd` read drains (at most 8). |
| `E2Agent` | The reactor, the producers, the owner thread and the environment (controller, kernel timers) composed in one specification. `NextAsyncEvent(fd)` is `next_async_event_agent`'s classification in the code's order. `ReadyFds` is the set epoll may report, with `SctpFd` and `PipeFd` as model values. The reactor actions dispatch on the event type it returns: `WaitTimeout` when nothing is ready (`fd == -1`), `NetEvent` for the socket, `AperiodicEvent` for the pipe, and `TimerEvent` for a timer. An unclassified timer is the final assert. |
| `ServiceModel` | The agent-side plugins (`sm/tc_sm`, `sm/slice_sm`, `sm/gtp_sm`) as operators:
  - `make_*_sm_agent` (id and proc table);
  - each plugin's `on_e2_setup`, `on_subscription`, `on_indication` (each asserts `act_def == NULL`) and `on_control` as its own operator (for example `OnControlGtp` asserts `hdr.dummy == 0` and action 42), with a dispatcher per procedure that stands for the call through `sm->proc`;
  - the plugin registry `sm_ds`;
  - `generate_setup_request` (a RECURSIVE loop over the registry in key order, with its asserts);
  - `generate_aindication` and `generate_indication`, with `CallProcessId`: the `byte_array_t` they allocate for a call-process id records its length and the bytes the `malloc` asked for (`sizeof(size_t)`).

  A failing assert is a result with `ok = FALSE`, and the caller turns it into an abort. |
| `SetupHandshake` | An abstract specification of spec 4.3's handshake: `NOT_STARTED`, then `AWAITING_RESPONSE` with one send, a resend on each timer expiry, and `ESTABLISHED` for good on the response. `E2Agent` refines it (`HandshakeSpec`). The mapping is `hs`: `rpc = "init"` is `NOT_STARTED`, `pending` is `AWAITING_RESPONSE`, and otherwise `ESTABLISHED`; `sent` is `setupSent`. |
| `AperiodicChannel` | An abstract specification of what the aperiodic path promises: a FIFO channel. Each request appended is delivered in order, and delivery is weakly fair until the agent stops. |
| `MC_E2Agent` | Instantiates the modules for TLC with the request-id sets and the plugin sets. FlexRIC's RAN function ids are used: TC 146, SLICE 145, GTP 148. It also states `SetupRequestAdvertisesRegistry`, a check of `generate_setup_request` over every set of plugins. |

### E2Agent state and how it maps to the code

| Variable | What it stands for in the code |
|---|---|
| `rpc` | The reactor's program counter: `init` (before `e2_start_agent`), `wait` (in `epoll_wait`), `pop_wait` (blocked in `pop_tsq` on an empty queue), `aind_consume` (between the send and `consume_fd`), `stopped`. |
| `stop_token`, `agent_stopped` | The two shutdown flags. |
| `freed` | `e2_free_agent` has returned. |
| `aborted` | The reason for an assert failure that ended the process. |
| `pending`, `setupSent` | The pending-setup entry, and the number of setup requests sent. |
| `indEv` | The `ind_event_t` entries of the `ind_event` registry: `ric_id`, plugin, `act_def`. Each subscription has its own timer fd, named by its `ric_req_id`. |
| `armed`, `ready` | Timer fds registered in epoll, and those that have expired and not yet been read. |
| `tsq`, `pipe` | The queued `aind_event_t`s (RIC id, plugin, `ind_data`), and the number of unread bytes in the pipe. |
| `ppc`, `preq`, `pdata`, `paind`, `pattempt` | Each producer thread's state in `e2_async_event_agent`: its position, its request id, its `ind_data`, the `aind_event_t` it copied under the lock, and its lookup attempt count. |
| `calls` | The number of calls started. It is bounded by `MaxCalls`. |
| `aindOut` | The aperiodic indications sent, in order. |
| `netIn`, `ricSubs`, `setupAnswered` | The controller: messages in flight to the agent, the subscriptions it believes exist, and whether it has answered the setup. |

Each action is one whole branch of the code. `PROJECT.json` "map" names its lines.
- `Start` covers `e2_start_agent`: `generate_setup_request` (which aborts when no plugin is loaded), the first send, the pending entry, and the timer.
- `CheckStop` is the `stop_token` test at the loop top.
- `WaitTimeout` is an `epoll_wait` that returns no fd.
- `NetEvent` receives one SCTP message and runs its handler. The handlers are in `msg_handler_agent.c`, which is not in this repository, so they are spec-modelled:
  - a setup response removes the pending entry and its timer;
  - a subscription request adds an `ind_event` entry and arms its timer; the entry's `act_def` comes from the plugin's `on_subscription`;
  - a delete removes both;
  - a control request calls the plugin's `on_control`.
- `AperiodicEvent` is `aind_event`. It pops, or blocks when the queue is empty. It then calls `on_indication` with the caller's `ind_data` and sends. `AperiodicConsume` is `consume_fd` on the pipe.
- `TimerEvent` is the timer branch, tried in order:
  - `ind_event`: `on_indication` with the stored `act_def`;
  - `pend_event`: `generate_setup_request` again;
  - otherwise the final `assert(0 && "unknown event")`.
- `Call`, `Lookup`, `Push` and `WriteWake` are the four steps of `e2_async_event_agent`. The lock is held across the lookup loop, so each attempt is one atomic step.
- `RequestStop` and `Free` are `e2_free_agent`. `Free` is the releases in their order. `free_ind_event_map` (`FreeIndEventMap`) runs on each remaining subscription after `free_plugin_ag`, so it reads freed memory. That read is undefined behaviour, and the model lets it yield either of the two outcomes a build can produce: the stale NULL, so nothing is called, or a garbage pointer that is called, so the process dies.
- `Tick` and `Controller` are the environment: timer expiry, and the RIC's messages.

### Fairness and why the code justifies it

- `WF(ReactorStep)`: the reactor thread is never descheduled forever, and `epoll_wait` returns, either on a ready fd or on its timeout.
- `SF(AperiodicEvent)`: epoll round-robins its ready list, so a pipe that stays readable is eventually reported. This holds even if other fds keep becoming ready.
- `WF(ProducerStep(p))` for each producer thread. A producer blocked on a full pipe is disabled, so `ProducerReturns` rests on the reactor's fairness, which drains the pipe, and not on the producer's own.
- No fairness on the controller, timers, or the owner thread: the RIC may stay silent, and nobody has to call `e2_free_agent`.

## 3. Runs

| Run | Config | Expect | What it shows |
|---|---|---|---|
| `agent_safety` | `MC_E2Agent.cfg` | pass | The run has 7-digit ids (8-byte tokens), the GTP plugin, and two producers making three calls. The calls race subscriptions, deletes, control requests, setup resends and shutdown. In every behaviour the reactor never blocks popping an empty queue. The handshake refines `SetupHandshake`: it sends only while the pending entry exists, and it never waits again after the response. For every set of loaded plugins, `generate_setup_request` fails exactly when the set is empty. Otherwise it advertises one descriptor per plugin, each with that plugin's id, in ascending id order. |
| `agent_liveness` | `MC_E2Agent_Live.cfg` | pass | A stop request always ends the loop. The aperiodic path refines `AperiodicChannel` (`ChannelSpec`): every queued request is eventually sent, in order. Every caller of `e2_async_event_agent` eventually returns (`ProducerReturns`), including a writer that blocks on the full 16-byte pipe. |
| `lost_wakeup` | `MC_E2Agent_LostWakeup.cfg` | violation | One-digit ids: one 8-byte read drains two 2-byte tokens. A request is left queued with an empty pipe and is never sent. |
| `over_wake` | `MC_E2Agent_OverWake.cfg` | violation | Eight-digit ids: a 9-byte token leaves one byte after the read. The reactor wakes again and blocks in `pop_tsq`. |
| `stop_hang` | `MC_E2Agent_StopHang.cfg` | violation | The same 9-byte tokens, under the liveness run's fairness. The reactor blocks in `pop_tsq` on the byte left in the pipe after the producers are done. It never returns to the top of the loop, the only place it reads `stop_token` (line 404), so a stop request is never seen and `e2_free_agent` spins forever. Spec 4.5 bounds this wait by the epoll timeout. |
| `delete_race` | `MC_E2Agent_DeleteRace.cfg` | violation | A delete handled after the caller started makes the lookup retries end in the assert. |
| `aperiodic_payload` | `MC_E2Agent_Payload.cfg` | violation | An aperiodic request that carries `ind_data`, as the spec's aperiodic-delivery case does, aborts the agent. The TC, SLICE and GTP `on_indication` all assert `act_def == NULL`. |
| `gtp_control` | `MC_E2Agent_GtpControl.cfg` | violation | A control request to GTP with `hdr.dummy` other than 0, or an action other than 42, aborts the agent. |
| `release_order` | `MC_E2Agent_ReleaseOrder.cfg` | violation | A shutdown with one subscription still active makes `free_ind_event_map` read the plugin that `free_plugin_ag` has already freed. |
| `stale_aperiodic` | `MC_E2Agent_StaleAind.cfg` | violation | A caller copies the subscription under the lock. The reactor then handles the delete, and after that pops the copy and sends an indication for the deleted subscription. |

The eight violations are recorded as findings in `PROJECT.json`.

Only 8-byte tokens, meaning `ric_req_id` in 1000000..9999999, keep the pipe in step with the queue. With them, `pipe = 8 * (writes - reads)`, and a read follows each pop. For any other length the channel property, or the no-empty-pop property, fails.

### Bounds and why they are enough

- **Producers: two.** This gives an interleaving of two tokens in the pipe, which is what the lost-wakeup and stale-read cases need.
- **MaxCalls: three.** With 5-byte tokens, a lost wake-up needs three outstanding events, so three calls are enough to reach it.
- **LookupAttempts: 2 (10 in the code).** The retry loop holds the lock, and the registry changes only between attempts, so the outcome is the same as with 10:
  - if the entry is present at some attempt, the call succeeds;
  - if it is gone for all attempts, the call aborts.
  The count only lengthens the paths.
- **PipeCap: 16 bytes** in the passing runs, which is two 8-byte tokens. With three calls, a third writer finds the pipe full and blocks after its push, so the queue runs ahead of the pipe. The violation runs use Linux's 65536 bytes. The model takes the pipe to be blocking. Its flags are set in `asio_agent.c`, which is not in this repository. A non-blocking pipe would drop the token instead, because `assert(rc != 0)` lets -1 through.
- **CtrlHdrs and CtrlActions: `{0}` and `{42}`** in the passing runs. The `gtp_control` run adds `hdr.dummy = 1` and action 7.
- **MaxSetupSends: 2.** This covers a setup request resent before the response arrives.
- **MaxNetQueue: 1 or 2.** This bounds how many controller messages can be in flight at once.
- **Plugins: GTP alone** in the passing runs. GTP is the plugin whose `on_control` has a content assert. Two plugins (TC and GTP) multiply the state space by about 25 and change none of the control: every plugin goes through the same `sm_ds` lookups and the same asserts. The payload run uses both plugins.
- **Request-id sets.** They are chosen by token length: 2 bytes, 8 bytes, or 9 bytes. `ReqIds` stay below 2^31 because TLC integers are 32-bit signed. The `uint32_t` range above that is reached only through the token length, and that is covered by `DecimalFormat`. The width is that of `e2_async_event_agent`'s `uint32_t` parameter, which is also what `snprintf` renders (line 633). The type of the registry's `ric_id.ric_req_id` field is not in this repository. If it is 16 bits wide, as in E2AP, then subscriptions only ever have ids below 65536, with tokens of 2 to 6 bytes. The lost wake-up of `lost_wakeup` is then the normal case, and the 7- and 8-digit sets model callers that pass wider ids.

## 4. What is not modelled, and the plan

- **Message contents and encoding.** The `e2_send_*` helpers and the E2AP codec are abstracted to "a message was sent". `generate_setup_request`, `generate_aindication` and `generate_indication` are modelled only for what they check and copy. The undersized `malloc(sizeof(size_t))` for a `byte_array_t` at `e2_agent.c:140` and `:168` is listed as a hazard. The agent never reaches it, because the plugins here return no call-process id, and what the overflowing stores corrupt is outside TLC's reach.
- **Data race on `stop_token` and `agent_stopped`.** It is a data race, but the model treats the flags as sequentially consistent. Neither load can be hoisted out of its loop, because the loop bodies call `epoll_wait` and `usleep`. Eventual visibility is therefore what `StopTerminates` checks. Weak-memory reordering of the reactor's last writes is outside TLC's reach.
- **The bi-map and queue implementations, and `msg_handler_agent.c`.** They are not in this repository. The handlers are spec-modelled, and `pop_tsq` is modelled as blocking.
- **Service models, partly.** `on_ric_service_update` is `assert(0)` in all three plugins and is never called by the agent. `free_*_sm_ag` is the `free(sm)` that `Free` accounts for. TC and SLICE's `on_control` assert on the RAN's `write_ctrl` answer, which is outside this repository, so it is taken to succeed.
- **Callers still inside `e2_async_event_agent` at shutdown.** `e2_free_agent` waits only for the reactor. Spec 4.5 scopes the two-flag handshake to the reactor thread, so quiescing callers is the owner's obligation. It is listed as a hazard, with no property.
- **Timers left armed by a handler.** The handlers that remove registry entries and their timer fds are in `msg_handler_agent.c`, which is not in this repository. The spec-modelled handlers remove both together, so no property can show whether the real ones do. `pend_event`'s asserts are still modelled as the `unknown_event` abort.
- **The token-length arithmetic itself.** `NumDigits` is the model's rendering of `"%u"`. A check of it against TLC's own decimal rendering would hold whatever the code does, so the runs check only its consequences: `NoPopOnEmpty`, `ChannelSpec` and `StopTerminates`.
- **Plugin order.** The spec's scenario says the setup request lists plugins "in plugin-registration order". The code lists them in the registry tree's key order, and the model checks that order. Registration happens in plugin loading, which is not in this repository.
- **Lookup by `ric_req_id` only (line 603).** The caller passes no action id or RAN function, so no property can say which of two entries sharing a request id it meant. The model's controller keeps request ids unique.
- **A second setup response.** The setup-response handler is not in this repository, so what it does with a response when no pending entry is left is unknown.
- **KPM RIC-side codec and the MAC round-trip test.** These are pure encode/decode and a test program.
