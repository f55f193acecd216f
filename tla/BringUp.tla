------------------------------ MODULE BringUp ------------------------------
(***************************************************************************)
(* Start-up of the core: lwlte_core_init_internal, which an application    *)
(* calls once or more, the lines of the modem that handle_one_line turns   *)
(* into flags, and network_activate_task, which brings the connection up   *)
(* step by step and sets a flag after each step.                           *)
(*                                                                         *)
(* One unit of time is the second the task sleeps between two steps. An AT *)
(* command is what lwlte_core_send_at_cmd_internal leaves in the caller's  *)
(* buffer: the strings of the reply, and of what the buffer held before    *)
(* whatever the copy, which stores no terminator, does not cover. A buffer *)
(* is a local array without an initial value: it holds any of what earlier *)
(* replies left on the stack of the task. The text may be empty at any     *)
(* time up to AtTime: no answer, or a signal left by the command before.   *)
(* Time passes for this task only when it sleeps or waits, and no other    *)
(* task sends commands meanwhile.                                          *)
(*                                                                         *)
(* A task may fail to be created, which init does not notice. A read       *)
(* behind a NULL pointer resets the chip: the program begins anew.         *)
(***************************************************************************)
EXTENDS Naturals

CONSTANTS
    MaxTime,  \* config.init_max_time_ms, in units of time
    AtTime,   \* how long a command without an answer takes
    MaxWait,  \* bound of the model: how long the modem may take to get ready
    MaxInit   \* bound of the model: how many calls of init are refused

ASSUME TimeAssumption ==
    /\ MaxTime \in Nat /\ AtTime \in Nat /\ MaxWait \in Nat /\ MaxInit \in Nat

VARIABLES
    flags,      \* the event group of s_lwlte_core_context
    created,    \* the flags and the queue of the core exist
    listening,  \* the rx task and the worker exist
    app,        \* where the application stands in lwlte_core_init_internal
    result,     \* what its last call returned
    inits,      \* how many calls were refused
    start,      \* init_start_time_ms
    clock,      \* lwlte_sys_time_get_ms()
    npc,        \* where network_activate_task stands
    response,   \* the buffer of the commands that set up GPRS
    stack,      \* the strings earlier replies left on the stack of the task
    expired,    \* history: the wait for the PDN ran out of time
    confirmed   \* history: the steps the modem has confirmed

vars == <<flags, created, listening, app, result, inits, start, clock, npc, response,
          stack, expired, confirmed>>
appVars == <<created, listening, app, result, inits, start>>
taskVars == <<npc, response, stack, expired>>

Flags == {"CORE_INITIALIZING", "CORE_INITIALIZED", "MODULE_READY",
          "SIM_CARD_READY", "SIGNAL_GOOD", "PDN_ACTIVATED", "IP_GPRS_ACTIVATED",
          "IP_ADDRESS_ASSIGNED", "NETWORK_CONNECTED"}
Strings == {"+CPIN: READY", "+CSQ: low", "+CSQ: high", "address", "OK", "ERROR"}
Reports == {"+CSQ: low", "+CSQ: high"}
Steps == {"sim", "signal", "pdn", "gprs", "ip"}

\* The task sleeps before each step; a failed one starts the loop again.
AfterSleep == [sleep_sim |-> "sim", sleep_csq |-> "csq", sleep_pdn |-> "pdn",
               sleep_gprs |-> "cstt", sleep_ip |-> "ip"]
LoopPCs == DOMAIN AfterSleep \cup
           {"sim", "csq", "pdn", "wait_pdn", "cstt", "ciicr", "ip", "connect"}
TaskPCs == {"none", "wait_ready", "check_time", "connected", "timed_out"} \cup LoopPCs

Init ==
    /\ flags = {}
    /\ created = FALSE
    /\ listening = FALSE
    /\ app = "idle"
    /\ result = "none"
    /\ inits = 0
    /\ start = 0
    /\ clock = 0
    /\ npc = "none"
    /\ response = {}
    /\ stack = {}
    /\ expired = FALSE
    /\ confirmed = {}

\* The chip restarts, with the memory it starts with.
Reset ==
    /\ flags' = {}
    /\ created' = FALSE /\ listening' = FALSE
    /\ app' = "idle" /\ result' = "none" /\ inits' = 0
    /\ start' = 0 /\ clock' = 0
    /\ npc' = "none"
    /\ response' = {} /\ stack' = {}
    /\ expired' = FALSE /\ confirmed' = {}

-----------------------------------------------------------------------------
(* The application: lwlte_core_init_internal.                              *)

\* Mutant: the time by which the network must be up is stored, and taken for the
\* time the call began.
InitCallDeadline ==
    /\ app = "idle"
    /\ start' = clock + MaxTime
    /\ UNCHANGED <<clock, taskVars, confirmed>>

\* Whatever becomes of the call, the time it starts is recorded first.
InitCall ==
    /\ app = "idle"
    /\ start' = clock
    /\ UNCHANGED <<clock, taskVars, confirmed>>

\* A call is refused for a config that is NULL, or since the core exists.
InitRefused ==
    /\ InitCall
    /\ inits < MaxInit
    /\ inits' = inits + 1
    /\ \/ result' = "INVALID_ARG"
       \/ created /\ result' = "ALREADY_INITIALIZED"
    /\ UNCHANGED <<flags, created, listening, app>>

\* The result of creating the rx task and the worker is not looked at.
InitFirst ==
    /\ InitCall
    /\ ~created
    /\ created' = TRUE
    /\ listening' \in BOOLEAN
    /\ flags' = {"CORE_INITIALIZING"}
    /\ app' = "gpio"
    /\ UNCHANGED <<result, inits>>

\* What starts the UART either succeeds or does not return (ESP_ERROR_CHECK). The
\* enable pin is held low for a second.
InitGpio ==
    /\ app = "gpio"
    /\ app' = "activate"
    /\ clock' = clock + 1
    /\ UNCHANGED <<flags, created, listening, result, inits, start, taskVars, confirmed>>

\* Nor is that of creating network_activate_task.
InitActivate ==
    /\ app = "activate"
    /\ app' = "finish"
    /\ npc' \in {"none", "wait_ready"}
    /\ UNCHANGED <<flags, created, listening, result, inits, start, clock, response,
                   stack, expired, confirmed>>

InitFinish ==
    /\ app = "finish"
    /\ app' = "idle"
    /\ flags' = (flags \ {"CORE_INITIALIZING"}) \cup {"CORE_INITIALIZED"}
    /\ result' = "OK"
    /\ UNCHANGED <<created, listening, inits, start, clock, taskVars, confirmed>>

InitCore == InitRefused \/ InitFirst \/ InitGpio \/ InitActivate \/ InitFinish

-----------------------------------------------------------------------------
(* The modem's lines, as far as they reach handle_one_line.                *)

\* Mutant: the line is taken before the core is initialized.
HeardEarly(flag) ==
    /\ created
    /\ flags' = IF listening THEN flags \cup {flag} ELSE flags

\* A line that comes before the core is initialized is refused.
Heard(flag) ==
    /\ created
    /\ flags' = IF listening /\ "CORE_INITIALIZED" \in flags
               THEN flags \cup {flag} ELSE flags

\* "RDY": the modem has come up, for the first time or once more.
Rdy ==
    /\ Heard("MODULE_READY")
    /\ UNCHANGED <<appVars, clock, taskVars, confirmed>>

\* Mutant: the flag is set whatever the line says of the PDN.
PdnActUnread ==
    /\ Heard("PDN_ACTIVATED")
    /\ UNCHANGED <<appVars, clock, taskVars, confirmed>>

\* "+CGEV: ME PDN ACT".
PdnAct ==
    /\ Heard("PDN_ACTIVATED")
    /\ confirmed' = confirmed \cup {"pdn"}
    /\ UNCHANGED <<appVars, clock, taskVars>>

-----------------------------------------------------------------------------
(* network_activate_task.                                                  *)

\* The modem takes its time to get ready.
WaitReady ==
    /\ npc = "wait_ready"
    /\ clock < MaxWait
    /\ clock' = clock + 1
    /\ UNCHANGED <<flags, appVars, taskVars, confirmed>>

Ready ==
    /\ npc = "wait_ready"
    /\ "MODULE_READY" \in flags
    /\ npc' = "check_time"
    /\ UNCHANGED <<flags, appVars, clock, response, stack, expired, confirmed>>

CheckTime ==
    /\ npc = "check_time"
    /\ npc' = IF clock - start < MaxTime THEN "sleep_sim" ELSE "timed_out"
    /\ UNCHANGED <<flags, appVars, clock, response, stack, expired, confirmed>>

Sleep ==
    /\ npc \in DOMAIN AfterSleep
    /\ npc' = AfterSleep[npc]
    /\ clock' = clock + 1
    /\ UNCHANGED <<flags, appVars, response, stack, expired, confirmed>>

\* A step whose flag is set is not done again. The last step is never skipped:
\* the task leaves with its flag.
Skip(from, flag, to) ==
    /\ npc = from
    /\ flag \in flags
    /\ npc' = to
    /\ UNCHANGED <<flags, appVars, clock, response, stack, expired, confirmed>>

\* Mutant: the loop goes on behind a failed step.
ConcludeAnyway(passed, flag, next) ==
    /\ npc' = next
    /\ flags' = IF passed THEN flags \cup {flag} ELSE flags

\* A step passes if a test on the buffer says so; otherwise the loop begins again.
Conclude(passed, flag, next) ==
    /\ npc' = IF passed THEN next ELSE "check_time"
    /\ flags' = IF passed THEN flags \cup {flag} ELSE flags

\* A command is answered, or not, by the strings of text within AtTime.
Exchange(text) ==
    /\ stack' = stack \cup text
    /\ \E d \in 0..AtTime : clock' = clock + d

Confirm(step, proof, text) ==
    confirmed' = IF proof \in text THEN confirmed \cup {step} ELSE confirmed

Sim ==
    /\ npc = "sim"
    /\ "SIM_CARD_READY" \notin flags
    /\ \E text \in {{}, {"+CPIN: READY"}, {"+CPIN: READY", "OK"}, {"ERROR"}},
          left \in SUBSET stack :
         /\ Exchange(text)
         /\ Confirm("sim", "+CPIN: READY", text)
         /\ Conclude("+CPIN: READY" \in text \cup left, "SIM_CARD_READY", "sleep_csq")
    /\ UNCHANGED <<appVars, response, expired>>

\* lwlte_core_get_signal_strength; it looks at its buffer only after LWLTE_OK, and
\* takes the first report in it. Chunks may have cut the report or the OK out of
\* the reply. "+CSQ: high" stands for the values that pass: those above 9, and with
\* them 99, by which the modem says that it does not know.
Csq ==
    /\ npc = "csq"
    /\ "SIGNAL_GOOD" \notin flags
    /\ \E text \in {{}, {"OK"}, {"ERROR"}} \cup {{r} : r \in Reports}
                    \cup {{r, "OK"} : r \in Reports},
          left \in SUBSET stack :
         LET report == Reports \cap (IF Reports \cap text # {} THEN text ELSE left)
         IN  /\ "OK" \in text => report # {}
             /\ Exchange(text)
             /\ Confirm("signal", "+CSQ: high", text)
             /\ Conclude("OK" \in text /\ "+CSQ: high" \in report, "SIGNAL_GOOD", "sleep_pdn")
    /\ UNCHANGED <<appVars, response, expired>>

\* Without any report GET_CSQ reads behind a NULL pointer.
CsqPanic ==
    /\ npc = "csq"
    /\ "SIGNAL_GOOD" \notin flags
    /\ Reset

Pdn ==
    /\ npc = "pdn"
    /\ "PDN_ACTIVATED" \notin flags
    /\ npc' = "wait_pdn"
    /\ UNCHANGED <<flags, appVars, clock, response, stack, expired, confirmed>>

\* Mutant: the task waits once more if the flag is missing.
PdnWaitedAgain ==
    /\ npc = "wait_pdn"
    /\ \/ /\ "PDN_ACTIVATED" \in flags
          /\ npc' = "sleep_gprs"
          /\ \E d \in 0..MaxTime : clock' = clock + d
       \/ /\ "PDN_ACTIVATED" \notin flags
          /\ npc' = "wait_pdn"
          /\ clock' = clock + MaxTime
    /\ UNCHANGED <<flags, appVars, response, stack, expired, confirmed>>

\* Mutant: the wait has no timeout.
PdnWaitForever ==
    /\ npc = "wait_pdn"
    /\ "PDN_ACTIVATED" \in flags
    /\ npc' = "sleep_gprs"
    /\ \E d \in 0..MaxTime : clock' = clock + d
    /\ UNCHANGED <<flags, appVars, response, stack, expired, confirmed>>

\* The wait ends with the flag or without it; the task goes on alike.
PdnWaited ==
    /\ npc = "wait_pdn"
    /\ npc' = "sleep_gprs"
    /\ \/ /\ "PDN_ACTIVATED" \in flags
          /\ \E d \in 0..MaxTime : clock' = clock + d
          /\ UNCHANGED expired
       \/ /\ "PDN_ACTIVATED" \notin flags
          /\ clock' = clock + MaxTime
          /\ expired' = TRUE
    /\ UNCHANGED <<flags, appVars, response, stack, confirmed>>

Cstt ==
    /\ npc = "cstt"
    /\ "IP_GPRS_ACTIVATED" \notin flags
    /\ npc' = "ciicr"
    /\ \E text \in {{}, {"OK"}, {"ERROR"}}, left \in SUBSET stack :
         /\ Exchange(text)
         /\ response' = text \cup left
    /\ UNCHANGED <<flags, appVars, expired, confirmed>>

\* The buffer is the one of AT+CSTT, and holds its reply if nothing is copied.
Ciicr ==
    /\ npc = "ciicr"
    /\ \E text \in {{}, {"OK"}, {"ERROR"}}, left \in SUBSET response :
         /\ text = {} => left = response
         /\ Exchange(text)
         /\ response' = {}
         /\ Confirm("gprs", "OK", text)
         /\ Conclude("OK" \in text \cup left, "IP_GPRS_ACTIVATED", "sleep_ip")
    /\ UNCHANGED <<appVars, expired>>

\* The step passes unless the buffer holds an error.
Ip ==
    /\ npc = "ip"
    /\ "IP_ADDRESS_ASSIGNED" \notin flags
    /\ \E text \in {{}, {"address"}, {"address", "OK"}, {"ERROR"}},
          left \in SUBSET stack :
         /\ Exchange(text)
         /\ Confirm("ip", "address", text)
         /\ Conclude("ERROR" \notin text \cup left, "IP_ADDRESS_ASSIGNED", "connect")
    /\ UNCHANGED <<appVars, response, expired>>

Connect ==
    /\ npc = "connect"
    /\ npc' = "connected"
    /\ flags' = flags \cup {"NETWORK_CONNECTED"}
    /\ UNCHANGED <<appVars, clock, response, stack, expired, confirmed>>

Task ==
    \/ Ready \/ CheckTime \/ Sleep \/ Sim \/ Csq \/ CsqPanic \/ Pdn \/ PdnWaited
    \/ Cstt \/ Ciicr \/ Ip \/ Connect
    \/ Skip("sim", "SIM_CARD_READY", "sleep_csq")
    \/ Skip("csq", "SIGNAL_GOOD", "sleep_pdn")
    \/ Skip("pdn", "PDN_ACTIVATED", "sleep_gprs")
    \/ Skip("cstt", "IP_GPRS_ACTIVATED", "sleep_ip")

Next == InitCore \/ Rdy \/ PdnAct \/ WaitReady \/ Task

Spec == Init /\ [][Next]_vars

\* The scheduler runs the task, and every wait of it but the first is finite.
FairSpec == Spec /\ WF_vars(Task)

-----------------------------------------------------------------------------
(* Properties.                                                             *)

\* Every variable has its type.
TypeOK ==
    /\ flags \subseteq Flags
    /\ created \in BOOLEAN
    /\ listening \in BOOLEAN
    /\ app \in {"idle", "gpio", "activate", "finish"}
    /\ result \in {"none", "OK", "INVALID_ARG", "ALREADY_INITIALIZED"}
    /\ inits \in 0..MaxInit
    /\ clock \in Nat
    /\ start \in 0..clock
    /\ npc \in TaskPCs
    /\ response \subseteq Strings
    /\ stack \subseteq Strings
    /\ expired \in BOOLEAN
    /\ confirmed \subseteq Steps

\* The flags tell how far the bring-up has come: none is set before those of the
\* steps before it, however often the loop starts again, except that the PDN may
\* be given up once. The flag of the last step is set only when the task leaves.
StepsInOrder ==
    /\ "SIM_CARD_READY" \in flags => "MODULE_READY" \in flags
    /\ "SIGNAL_GOOD" \in flags => "SIM_CARD_READY" \in flags
    /\ "IP_GPRS_ACTIVATED" \in flags =>
         "SIGNAL_GOOD" \in flags /\ ("PDN_ACTIVATED" \in flags \/ expired)
    /\ "IP_ADDRESS_ASSIGNED" \in flags =>
         "IP_GPRS_ACTIVATED" \in flags /\ npc \in {"connect", "connected"}
    /\ "NETWORK_CONNECTED" \in flags <=> npc = "connected"

\* The task sends no command before the core takes commands, although it starts
\* before lwlte_core_init_internal has finished.
CommandsAccepted == npc \in LoopPCs => "CORE_INITIALIZED" \in flags

\* The SIM card, the signal and the PDN are flagged only if the modem has
\* reported them, at some time: what a buffer holds beyond the reply to its
\* command is a report the modem has given before.
EarlyStepsConfirmed ==
    /\ "SIM_CARD_READY" \in flags => "sim" \in confirmed
    /\ "SIGNAL_GOOD" \in flags => "signal" \in confirmed
    /\ "PDN_ACTIVATED" \in flags => "pdn" \in confirmed

\* The time is looked at once per round, and a round may wait for the PDN as long
\* as the whole bring-up may take: it ends within twice init_max_time_ms plus
\* its sleeps and commands, counted from the last call of init.
BringUpBounded ==
    npc \in LoopPCs => clock - start <= 2 * MaxTime + 4 + 5 * AtTime

\* Once the modem is ready a task that exists ends, connected or not, or the chip
\* is reset, whatever the modem answers or fails to answer.
BringUpEnds ==
    "MODULE_READY" \in flags /\ npc # "none"
        ~> npc \in {"connected", "timed_out"} \/ ~created

\* The network is said to be connected only if the modem has confirmed every
\* step. Two tests on a buffer that the modem has not filled, and a wait whose
\* outcome is not looked at, break it.
ConnectedConfirmed == "NETWORK_CONNECTED" \in flags => confirmed = Steps

=============================================================================
