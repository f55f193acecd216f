# Verification of esp-lwlte in TLA+

esp-lwlte is an ESP-IDF component that drives an LTE modem (Air780EP) by AT
commands over a UART. It is small and almost all of it is concurrency: tasks of
different priorities, a mutex, a semaphore, an event group, two queues and a
peer that answers when it likes. This directory models that part of it, checks
it with TLC on small instances and proves its safety with TLAPS for all
instances. Paths below are relative to `src/components/esp-lwlte/`;
`lwlte_core.c` is `src/middleware/lwlte_core.c`.

## 1. Inventory

| Component | State | Operations | Correct if |
|---|---|---|---|
| AT command exchange (`lwlte_core.c:48-165`) | `at_waiter`: lock, semaphore, two outcome bits, response, two strings; flag `AT_CMD_IS_SENDING` | `lwlte_core_send_at_cmd_internal`, `handle_one_line` | a call returns the modem's answer to its own command, with its response; no wakeup is lost; nobody keeps the lock |
| Receive path (`lwlte_ll_hal.c:29-48`, `lwlte_core.c:110-127, 167-201`) | driver's ring buffer and event queue, rx task's chunk, `core_input_queue`, worker's item and line | rx task, `lwlte_core_input`, `core_worker_task` | lines are handled whole, once, in order |
| Initialization and bring-up (`lwlte_core.c:216-400`) | event group, start time, the task | `lwlte_core_init_internal`, `network_activate_task`, `lwlte_core_get_signal_strength` | flags mean what they say, the steps keep their order, the task ends in time |
| Status getters and waits (`lwlte_core.c:402-476`) | none of their own | six getters, `lwlte_core_wait_module_ready`, `lwlte_core_wait_network_connected` | report a flag, or a time-out after the time asked for; a set flag is never a time-out |
| MQTT client (`lwlte_mqtt_client.c`) | a static context: deep copy of the configuration, flags | init, deinit; the rest are stubs | no use of freed copies, none lost; the documented rule for the will; silence is no success |
| Port layer (`src/port/`) | none | flags, queue, mutex, semaphore, thread, time, memory, log, UART, GPIO | times keep their meaning within a tick or two, -1 is no limit |
| API (`lwlte.c`, `lwlte_mqtt.c`, `lwlte_err.*`) | none | forwards calls, maps results | - |
| HTTP, TCP, ping | - | empty files | - |
| Example and build (`src/main/appmain.c`, `src/sdkconfig`) | - | one call of `lwlte_core_init` | - |

**How they interact.** The UART driver puts bytes into a ring buffer and posts an
event per chunk. The rx task (priority 10) reads as many bytes as the event says
and passes them to `lwlte_core_input`, which blocks on a queue of ten items.
`core_worker_task` (priority 10) splits each item into lines; `handle_one_line`
sets flags of the module, or, while `AT_CMD_IS_SENDING` is set, appends the line
to the response, looks for the two strings the caller waits for and gives the
semaphore. Callers (the bring-up task at priority 1, the application) take the
lock, set the flag, reset the waiter, write to the UART, wait on the semaphore
with a time-out, copy the response, clear the flag, unlock and then read the
outcome. The tasks share the processor (`sdkconfig:1272`, one core).
The application's task calls the MQTT client, which waits for the module by
`lwlte_core_wait_module_ready` and sends its command like any other caller.

**What is hard.** The waiter is written by callers and worker without a common
lock; only the priorities keep a caller out of `handle_one_line`. The semaphore
outlives the exchange it was given for. Outcome bits are read behind the unlock.
Lines and chunks have borders that need not agree. Strings left in buffers decide
steps of the bring-up. Deadlines are measured from a start time that a refused
call overwrites. Times go through `int`, `uint32_t` and ticks, and round three
ways. The context of the MQTT client outlives its copies. The full list, with the
line where each bites and the properties that cover it, is `hazards` in
`PROJECT.json`.

## 2. Modules

| Module | Models |
|---|---|
| `AtExchange` | abstract: what a call promises. Refuse, Request, Ask, Answer, Return; one command at a time |
| `AtWaiter` | the exchange statement by statement, any lines at any time |
| `AtModem` | `AtWaiter` with a well-behaved modem; implements `AtExchange` by a refinement mapping |
| `RxPath` | driver events, rx task, core queue, worker |
| `BringUp` | init, the flags, `network_activate_task` |
| `SysTime` | milliseconds and ticks: the conversions, their widths, the clock (operators only) |
| `CoreWaits` | the getters and waits of the core and how long they last; extends `SysTime` |
| `MqttClient` | the MQTT client's context, composed with `CoreWaits` |
| `AtWaiterProofs`, `AtModemProofs`, `RxPathProofs`, `BringUpProofs`, `SysTimeProofs`, `CoreWaitsProofs`, `MqttClientProofs` | theorems and their proofs |
| `MCAtWaiter`, `MCAtModem`, `MCMqttClient` | constants for TLC |

Operators named as mutants in their comments (`LockUnguarded`, `InputOrDrop`, ...)
are not part of a specification. Each stands before the definition it distorts in
the way a plausible bug would; with it in place of that definition, the property
`PROJECT.json` names must fail.

### AtWaiter

A step is one call of a FreeRTOS wrapper or one store to the waiter. `pc[c]` is
where caller `c` stands in `lwlte_core_send_at_cmd_internal`: `SetFlag` is line
73, `ClearOk` 74, `ClearError` 75, `ClearResponse` 77, `SetErrorStr` 78,
`SetWaitStr` 79, `Write` 81, `Take`/`Expire` 92, `Copy` 94-97, `ClearFlag` 99,
`Unlock` 100, `ReadOk` 101, `ReadError` 104. `wpc` is where the worker stands in
`handle_one_line`: `HandleAside` is the first three branches (and a line that
nobody waits for), `TakeLine` the test of the flag, then append, match, outcome,
signal.

*Priorities.* With one core and a preemptive scheduler a task of lower priority
runs only while the worker is blocked; `MayRun` says so. `Preempting` is the set
of callers with the worker's priority or more, which may run between any two of
its steps. The bring-up task and `app_main` are below the worker, but nothing in
the API keeps an application from calling at any priority, so both are checked.

*Text.* `strstr` is all the code does with a response. A line is a value and
`Has[line]` the strings that occur in it; a response is the set of its lines
(the strings hold no line end, so none can span two lines). An empty string is
found everywhere, which matters before the first command. `strncpy` without a
terminator (line 95) leaves the part of the caller's buffer it does not cover:
what `Copies` gives has an arbitrary part of the old lines, all of them if the
response is empty. A buffer shorter than the response is filled with its first part
only. `Roomy` are the callers whose buffer is as long as `at_response`; to the others
that can happen, as to the MQTT client with its 100 bytes.

*Time.* `Expire` may happen whenever the semaphore is not given.

### AtModem

The modem is not in the repository. It is modelled as well-behaved as one can be,
so that what still goes wrong is the code's doing: one command at a time, an
answer in time or none, URCs in between. `After[cmd]` are lines that follow the
one that ends the wait: `AT+CPIN?` is answered by `+CPIN: READY` *and* `OK`, and
the code waits for the first only. Late answers are not modelled here (with them
no property about results can hold, AT replies carry no number; see the hazards).
The mapping to `AtExchange` (`Phase`): a command counts as asked when it is written
and as answered when the modem sends the last line or the time is up.

### RxPath

Bytes are numbered in the order they are sent; a run of bytes is a pair of
numbers, so the path of every byte is exact while its content is reduced to
"ends a line", "NUL" or neither. `Arrive` is the driver (external, as ESP-IDF
documents it): a chunk of any size, and if the event queue is full the bytes stay
in the ring buffer without an event. `ReadEvent`, `Refuse`, `Input`, `Recv`,
`Line`, `Discard` are the code. The sizes of the buffers are not modelled: a chunk
fits (the driver's chunk is at most the FIFO, far below `uart_buf_size`).

### BringUp

One unit of time is the second the task sleeps between steps. Each command is one
step with every outcome: the strings of its reply (or none), in any time up to
`AtTime`, over what the buffer held: for a buffer on the stack any subset of what
earlier replies left there, for `AT+CIICR` the reply to `AT+CSTT`. The reply may
also be missing at once, since a signal left in the semaphore ends the wait. Flags
are a set; `confirmed` is history, the steps the modem has really confirmed. Init is
one action per statement another task can observe; what starts the UART either
succeeds or does not return (`ESP_ERROR_CHECK`), so its error returns are
unreachable and not modelled. Other tasks that send commands meanwhile, and late
replies, are left out of this module. `+CSQ: high` stands for the values that pass:
those above 9, and with them 99, which means "not known". `listening` says whether
the rx task and the worker exist: the results of creating them, and of creating the
bring-up task, are not looked at. `AT+CSQ` may be answered by an `OK` whose report a
chunk has cut away; `GET_CSQ` then takes the report from what the stack held, or
reads behind a NULL pointer (`CsqPanic`), and the chip starts again (`Reset`).

### SysTime and CoreWaits

A unit is a millisecond, a tick comes every `Period`. `Words` is the number of
values of the types times go through; `Unsigned` is the conversion of a signed
time-out at the call of `lwlte_sys_flags_wait`, so -1 becomes `Forever`.
`pdMS_TO_TICKS` is FreeRTOS's macro with a product of one word; `ms_to_ticks`, the
same in `lwlte_sys_flags.c` and `lwlte_sys_queue.c`, is in addition never 0 for a
time that is not. The semaphore of an AT command takes the macro as it is.

In `CoreWaits` a task calls `Get`, `Wait` (either of the two flags),
`SignalStrength`. A wait gets its ticks (`Block`) anywhere between two ticks
(`phase`), `Pass` is a millisecond, which takes a tick from `left` at the end of a
period, and a task whose flag is set or whose time is up runs before time goes on
(the guard of `Pass`): the properties speak of how long the code asks to wait, not
of how busy the processor is. `Wake` and `Read` are the two looks at the flag, and
anything may set it in between. `Receive` appends a line, any line, while a command
is being sent: the reply, or what `handle_one_line` does not keep from the response
although it answers nothing, such as a second `+CGEV: ME PDN ACT`. The wait is over
when there is an `OK` or an `ERROR` among the lines, or when its time is up; a
command that was cut before its line end just gets no reply. What can happen to a
command on its way, its wait for the lock included, is the matter of `AtWaiter` and
`AtModem`, and a signal left by an earlier one (finding 2) is left out: it would
only end the wait sooner.

`Strength` is the end of `AT+CSQ`: -1, or what `GET_CSQ` reads, from the reply or
from what the stack held. With an `OK` and no report at all it may read behind a
NULL pointer instead (`Panic`), and so may the bring-up task while it asks for the
signal (`BringUpPanic`): the chip restarts, and every variable is what it was at the
start.

### MqttClient

`strs` says of each pointer of the static context whether it is NULL, points to a
copy with text, to an empty copy, or to memory that was freed; `ints` are the will
numbers that are not -1: at first both, since the context is zero. `Configs` are all
configurations `lwlte_mqtt_client_init` accepts. `Configure` is the creation of the
flags with the field-by-field copy, `Send` the test for a will and the command with
the strings it reads, cut at 100 bytes or not, `Conclude` the look for `OK` in
`response_buf`. That is an empty string until a reply is copied into it, without a
terminator. `MayFind` says what the look may give: an empty string has no `OK`, a
reply of that one line has it, and behind any other what the stack held may be
found, or the end of the reply may be cut off at 100 bytes, so both are possible.
`Deinit` frees every copy and keeps the pointers. Reading or freeing freed memory is
a `fault`: its content is arbitrary, and the client is not called again, since
nothing can be said of the program afterwards. `MReset` is a restart of the chip:
the context, and the caller with it, begin anew.

`careful` is history of the caller: it sets a configuration only if none is set,
releases only what it has set, and gives every string that it ever gave. The
header asks for less; with a caller that is not careful, `fault` and `leaked` are
reached. There is one caller: the client has no lock.

## 3. Runs

| Run | Specification and bounds | Shows |
|---|---|---|
| `at_waiter` | 2 callers, 2 commands, 3 lines, no preemption, symmetry in the callers; 1.3 M states | types; flag exact; a caller that waits is woken; response fresh; signals only while sending |
| `at_waiter_preempt` | 2 callers, one preempts the worker; 113 k states | flag exact; answers tracked to the signal; a holder of the lock returns |
| `at_modem_one` | 1 caller with a buffer, all 7 kinds of lines, behind a reply only what the code keeps from the waiter; 91 k states, fairness | results are replies; the response is delivered to a buffer long enough; no stale signal; implements `AtExchange`; a caller that waits for an answer returns by the wakeup alone |
| `at_modem_two` | 2 callers | **violated:** the result read behind the unlock is another call's |
| `at_modem_after` | 1 caller, `OK` behind `+CPIN: READY` | **violated:** the next call does not wait |
| `rx_path` | 7 bytes, 3 lines, a NUL, event queue of 2, core queue of 1; 67 k states | lines in order; reads never short; a line in one chunk whole in one place at any moment, and handled; only the end of a chunk cuts a line |
| `rx_split` | 4 bytes, 2 lines | **violated:** a line in two chunks loses its beginning |
| `bring_up` | `MaxTime` 3, `AtTime` 1, modem ready within 4, 2 refused calls of init, tasks that may be missing, resets; 405 k states | order of flags; no early command; bounded; ends |
| `bring_up_confirmed` | same | **violated:** connected without PDN, GPRS or address |
| `mqtt_client` | 64 values per word, a tick of 2 ms, limits -1, 0, 1 and 4 ms, commands of 4 ms, `AT+CSQ` with 3, one optional string besides the will, two flags, four kinds of lines, resets; 277 k states | times kept; short waits block; no false time-out; -1 is no limit; careful use is sound; the will follows; silence is no success; calls with a limit end |
| `mqtt_will` | one limit, one flag | **violated:** a will without qos and retain is sent |
| `at_wait` | `CoreWaits` alone, same times | **violated:** a command waits milliseconds where ticks are configured |

**Bounds.** Two callers are enough for every race on the waiter: its steps name
one caller that holds the lock and one that does not, and the theorems remove the
bound. Two commands with different wait strings are needed for a stale string to
matter, one line of each kind for each branch. In `rx_path`, three lines in seven
bytes have chunks that hold several lines, cut a line once and twice, and a NUL in
the middle; a core queue of one and an event queue of two are full in most
behaviours. (The code has ten each.) In `bring_up`, `MaxTime` 3 gives several
rounds of the loop, with every step failing in some of them; `MaxWait` and
`MaxInit` bound only the wait before the modem is ready and calls that are
refused. In `mqtt_client`, a word of 64 values is wide enough for every limit and
small enough for the special values; the limits are none, no time, less than a
tick and several ticks, with each phase of the tick at which a wait can begin. One
optional string that may be given or left out stands for both, and the will's four
fields are each given, left out or, if strings, empty. Nothing counts, so any
number of calls of init and deinit follow each other. Deadlock is checked except
in the runs of `RxPath`, where the stream ends.

**Fairness.** `AtWaiter`: the worker runs (WF); a caller that has the lock takes its
steps (SF, because a caller below the worker is enabled only while the worker is
blocked, which happens again and again); its wait ends, since every wait on the
semaphore has a time-out. Nothing is assumed of getting the lock: a FreeRTOS mutex
is taken by whoever runs first. `AtModem` adds that a modem that does not stay
silent ends its reply at last. `RxPath`: the two tasks have equal priority and share
the processor by time slices, and init completes (WF each). `BringUp`: the task runs
(WF); nothing is assumed of modem or application. `MqttClient`: time goes on and a
task whose wait is over runs (WF of `WaitStep`), and it takes its own steps in init
(WF of `InitStep`); nothing is assumed of modem or core, nor that a reset ever
comes.

**Findings** (`findings` in `PROJECT.json`)

1. `response_ok` and `response_error` are read after the unlock (`lwlte_core.c:101,
   104`). Another caller may have reset them: a command answered with `OK` returns
   `LWLTE_TIMEOUT`, or the other command's outcome.
2. A line behind the one waited for gives the semaphore again (`158`). The next
   call takes that signal and returns `LWLTE_TIMEOUT` at once (`92`). In the
   bring-up `AT+CPIN?` does this to `AT+CSQ`, which fails one round.
3. A line cut by a chunk is not put together (`177-179`), against the comment of
   line 176.
4. `NETWORK_CONNECTED` may be set without a PDN (`342-345`), GPRS (`351-352`) or
   an address (`366`).
5. `at_wait_ticks` is passed as milliseconds (`295, 315, 350, 351, 365`) and
   converted to ticks once more (`lwlte_sys_mutex.c:56`): the example's second is
   a tenth of one.
6. A will of topic and message alone is not ignored before the first deinit
   (`lwlte_mqtt_client.c:119-122`), against `include/lwlte_mqtt.h:44-45`: the
   static context's qos and retain are 0, not unset.

## 4. Theorems

For every value of the constants, under the named assumptions of the modules
(sizes are natural numbers, queues hold at least one item, `NoOne` is no caller,
strings are strings).

| Module | Theorem | States |
|---|---|---|
| `AtWaiterProofs` | `TypeCorrect`, `FlagExact`, `WakeupTracked`, `NoLostWakeup` | `TypeOK`, `SendingFlagExact`, `AnswerTracked`, `AnswerWakes`, whoever preempts whom |
| | `FreshResponse`, `SignalWhileSending` | `ResponseFresh`, `SignalOnlyWhileSending`, if `Preempting = {}` |
| `AtModemProofs` | `ModemIsCase` | `AtModem` is a special case of `AtWaiter` |
| | `ResponseAwaited`, `OutcomeHeld` | `WaitsForResponse`; the outcome is the caller's own up to its unlock: for a quiet modem, any number of callers of any priority |
| | `ReplyReturned`, `ResponseDelivered`, `KeepsPromise` | `ResultIsReply`, `AnswerDelivered`, `ImplementsExchange`, for one caller of any priority; the response, for a buffer as long as `at_response` |
| `RxPathProofs` | `TypeCorrect`, `InOrder` | `TypeOK`, `LinesInOrder` |
| | `NeverShort`, `NothingLost`, `UncutIsWhole` | `ReadNeverShort`, `IntactKept`, `UncutWhole` |
| `BringUpProofs` | `TypeCorrect`, `InOrder`, `Accepted`, `EarlyConfirmed`, `Bounded` | `TypeOK`, `StepsInOrder`, `CommandsAccepted`, `EarlyStepsConfirmed`, `BringUpBounded` |
| | `ConnectedIsEarly` | how far finding 4 goes: with `NETWORK_CONNECTED` the SIM card and the signal were reported, and the PDN unless its wait ran out |
| `SysTimeProofs` | `DeadlineAcrossWrap` | the bring-up's deadline is exact although its clock overflows twice |
| `CoreWaitsProofs` | `WaitsCorrect` | the invariant of the waits, for the core by itself |
| | `NeverAsConfigured`, `ConfiguredIfTickIsMs` | finding 5 for every configuration of two ticks or more that fits: at any tick longer than a millisecond a command waits too short, at a tick of one it does not |
| `MqttClientProofs` | `MTypesCorrect`, `LimitsKept`, `ShortWaitsBlock`, `CarefulUse`, `WillFollows` | `MTypeOK`, `LimitKept`, `ShortWaitBlocks`, `CarefulUseSafe`, `WillFollowsConfig` |
| | `NoLimitHeld`, `NoFalseTimeoutHeld`, `SilenceHeld` | the action properties `NoLimitNoTimeout`, `NoFalseTimeout`, `SilenceFails` |

**Arguments.** `FlagExact` is inductive by itself: the lock admits one caller to the
statements between set and clear.

`WakeupTracked` is not. Its invariant `WakeInv` adds that a caller that waits finds
its own strings in the waiter (`Armed`: nobody else can store to them) and that the
lines heard since its command was written are still in the response (`HeardKept`):
so a line that answers is found when it is matched, and the worker does not leave
`handle_one_line` without the signal. The semaphore may already hold an old signal;
that wakes the caller too, only with the wrong outcome.

`FreshResponse` and `SignalWhileSending` need that a caller moves only while the
worker is at its queue (`WorkerQuiet`); with a preempting caller both are false,
which is why they assume `Preempting = {}`.

The theorems of `AtModemProofs` need three named hypotheses, and findings 1 and 2
are what happens without two of them. `QuietAfter`: what the modem sends behind the
line that ends a wait is kept from the waiter by the code; with an `OK` there
`WaitsForResponse` is false. `NonEmpty`: no command waits for the empty string,
which would be found in any line; no caller in `src/` passes one. `OneCaller`, only
for what is read behind the unlock; with two callers `ResultIsReply` is false.
Nothing is assumed of priorities: a modem that answers once per command makes no use
of the gaps a preempting caller opens in `handle_one_line`. Their invariant
`ExchangeInv` follows a command around. What the caller has reset stays reset until
it writes (`ResetInv`), because while no one waits the worker is at its queue and
the semaphore is empty (`RestInv`). Until the last line nothing in the response ends
the wait (`AskingInv`). From then on the worker carries that line through append,
match, outcome and signal, and what is stored agrees with what the modem answered
before the semaphore is given (`AnsweredInv`); so the caller that wakes finds its
own outcome and line up to its unlock (`LeavingInv`). For one caller they are still
there behind it (`ReadingInv`).

`KeepsPromise` maps every statement to a stutter but for the call and its refusal,
the write (`Ask`), the modem's last line or the end of the time (`Answer`) and the
read of the outcome (`Return`).

`InOrder` of the receive path rests on `Chain`: what was handled, the rest of the
worker's item, the items queued, the rx task's chunk and the bytes not yet read
follow each other in the stream. Every step moves the head of one link to the end of
the next. It needs neither that events are complete nor that queues are long.

`NeverShort` rests on `EventsInv`: numbers can be laid out, from `read` on, that are
as far apart as the events in the queue say, and none is beyond `sent`. Saying it
with a layout and not with a sum is what makes it inductive: a chunk that comes
extends the layout, an event that is read cuts its first element off, a lost event
leaves it alone. As long as none is lost the layout ends at `sent` and its numbers
are the ends of the chunks, with no other in between. That is used by `NothingLost`.
Its invariant adds that each piece under way lies within one chunk (`ChunksInv`). A
line that came in one chunk is then whole in the piece that holds its beginning, and
a NUL before it in that piece would be in its chunk, so the worker's loop comes to
it or to a line before it (`DiscardKept`, by the least line end ahead). The
least-number principle is the library's theorem on well-founded relations, stated
for a set (`LeastNumber`).

`UncutIsWhole` says how far finding 3 goes: if no chunk ends within a line, every
line that is handled is whole, since then each item begins where a line does
(`AtCuts`).

`NeverAsConfigured` says the same of finding 5: by `TimeKept` a command that runs
out of time has lasted at most its milliseconds, or a tick, and either is less than
the configured ticks unless a tick is a millisecond. It is stated for configurations
whose product with the tick rate does not overflow.

`InOrder`, `Accepted` and `EarlyConfirmed` of the bring-up rest on `OrderInv`: the
task has come past a step only with the step's flag, the core takes lines only when
init has finished, a report of the SIM card left on the stack means that its flag is
set, and a report of a good signal that one was given, so a test never sees what was
not reported at some time.

`Bounded` rests on `Budget`: each place of a round has a limit for the time since
the last call of init, and each step leads from one limit to the next. A refused
call of init moves the start and only widens the budget.

`LimitsKept` rests on `TimeKept`: what has passed of a wait and what is left of it,
less the part of the tick in which it began, make up the ticks it was given; a
millisecond only moves between the two. The lemmas of `SysTimeProofs` say how far
those ticks are from the milliseconds asked for. The property is stated for limits
whose product with the tick rate does not overflow (`Fits`), the type for all.

`NoFalseTimeoutHeld` and `NoLimitHeld` need that flags are only ever set, but for a restart,
which ends the call: what was met is still set at the second look, and a wait
without limit is left only with its flag.

`CarefulUse` and `WillFollows` rest on `CopiesKept` and `WillKept`: a careful
caller's copies are all there while a configuration is set and all gone or NULL
otherwise, so a copy replaces nothing and deinit frees nothing twice; from the first
deinit on the context has no number of an older will. `GivenKept`, that a pointer
once set is never NULL again, is why the caller has to give each string it ever
gave.

`SilenceHeld` rests on `BufferKept` and `Replying`: a buffer that was written holds
what was received since the command of this very call, and until init looks at it
nothing forgets that; a buffer that was not written is empty, although the call
before may have left an `OK` in the same place.

The waits' invariant is proved once, for every step of the core, and used under the
client's next-state relation.

**Only model-checked.** Liveness (`HolderReturns`, `AnsweredReturns`,
`IntactHandled`, `BringUpEnds`, `WaitReturns`, `InitReturns`), which is out of the
prover's reach. What safety there is behind `IntactHandled` and
`BringUpEnds`, that a line is never lost and that the time is bounded, is proved
(`IntactKept`, `BringUpBounded`). Every invariant and every action
property of the passing runs, and the refinement, has a theorem.

## 5. Not modelled

Sizes of buffers and texts: `strcat` into `at_response` without a limit
(`lwlte_core.c:154`), and which part of a response a short buffer gets: `Copies` lets
it be any. Failing allocations, of the event group and the queue of
`lwlte_core_init_internal` and of the client's copies. The record that
`lwlte_sys_thread_create` hands to its trampoline: one of two exclusive branches
frees it, in straight-line code. Mutex starvation, which nothing in the code
bounds. Concurrent calls of the MQTT client. Waits for several bits,
`clear_on_exit`, `lwlte_sys_queue_send_from_isr`, deletion of threads, queues and
the UART driver: nothing calls them. The port, `clean_session` and `keepalive` of
the broker, which are copied and never read. Logging, the memory wrapper, empty
files and the example hold no state worth a model. `lwlte_mqtt.c` is not among the
sources of `CMakeLists.txt` and calls a function that is static in `lwlte.c`;
`MqttClient` takes the client's API as it is written.

## 6. Plan

Done: the modules and theorems above. What would add most, in this order:

1. A modem that answers late, for the bring-up: `BringUp` with replies that cross.
2. Creation of the event group and the queue that fails, and what a second call of
   init makes of it.
3. A bound for the response: how many lines of a reply `at_response` can take before
   `strcat` overruns it, and which of them reach a caller whose buffer is shorter.
