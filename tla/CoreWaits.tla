------------------------------ MODULE CoreWaits ------------------------------
(***************************************************************************)
(* A task of the application in the functions of lwlte_core.c that look at *)
(* the module's flags, wait for one with a limit, or send AT+CSQ, and how  *)
(* long they really wait. One unit of time is a millisecond; the tick      *)
(* interrupt comes every Period. A call may begin at any time between two  *)
(* ticks. A task whose wait is over runs before time goes on.              *)
(*                                                                         *)
(* What happens to an AT command on its way is the matter of AtWaiter and  *)
(* AtModem; here lines of any kind come while it waits for its reply, or   *)
(* none, and a signal left by an earlier command does not end the wait.    *)
(*                                                                         *)
(* A read behind a NULL pointer resets the chip: the program begins anew.  *)
(***************************************************************************)
EXTENDS SysTime

CONSTANTS
    Status,      \* the flags of the module that callers ask for
    Limits,      \* the values of timeout_ms that callers pass
    AtWaitTicks  \* config.at_wait_ticks

StatusFlags == {"MODULE_READY", "SIM_CARD_READY", "SIGNAL_GOOD", "PDN_ACTIVATED",
                "IP_GPRS_ACTIVATED", "NETWORK_CONNECTED"}
Awaitable == {"MODULE_READY", "NETWORK_CONNECTED"}

ASSUME LimitAssumption ==
    /\ Status \subseteq StatusFlags
    /\ "MODULE_READY" \in Status
    /\ Limits \subseteq -(Words \div 2) .. (Words \div 2) - 1
    /\ AtWaitTicks \in Nat \ {0}

VARIABLES
    created,  \* s_lwlte_core_context.flags is not NULL
    flags,    \* the bits of the module that callers ask for
    pc,       \* where the task stands
    awaited,  \* the flag it waits for
    limit,    \* the timeout it was called with
    left,     \* the ticks its wait has left
    phase,    \* milliseconds since the last tick
    elapsed,  \* history: milliseconds since the wait began
    met,      \* history: the flag was set at some time of the call
    text,     \* the lines appended to the response of the command
    result    \* what the last call returned

core == <<created, flags>>
clocks == <<awaited, limit, left, phase, elapsed, met>>
vars == <<core, pc, clocks, text, result>>

\* The functions that wait for the reply to a command: that of the core, and any
\* other; and what they tell apart in the reply.
Commands == {"csq", "command"}
Lines == {"OK", "ERROR", "+CSQ: ", "other"}

Init ==
    /\ created = FALSE
    /\ flags = {}
    /\ pc = "idle"
    /\ awaited = "none"
    /\ limit = 0 /\ left = 0 /\ phase = 0 /\ elapsed = 0
    /\ met = FALSE
    /\ text = {}
    /\ result = "none"

-----------------------------------------------------------------------------
(* The rest of the core.                                                   *)

\* lwlte_core_init_internal creates the event group.
Create ==
    /\ ~created
    /\ created' = TRUE
    /\ UNCHANGED <<flags, pc, clocks, text, result>>

\* The worker or network_activate_task sets a flag; none is ever cleared.
Raise(f) ==
    /\ created
    /\ f # "MODULE_READY" => "MODULE_READY" \in flags
    /\ flags' = flags \cup {f}
    /\ met' = (met \/ awaited = f)
    /\ UNCHANGED <<created, pc, awaited, limit, left, phase, elapsed, text, result>>

\* handle_one_line appends a line while a command is being sent, whether or not
\* it answers it: a URC that is not kept from the response, such as a second
\* "+CGEV: ME PDN ACT", an echo, or what is late of an earlier reply.
Receive(l) ==
    /\ pc \in Commands
    /\ text' = text \cup {l}
    /\ UNCHANGED <<core, pc, clocks, result>>

Environment == Create \/ (\E l \in Lines : Receive(l)) \/ \E f \in Status : Raise(f)

-----------------------------------------------------------------------------
(* Calls.                                                                  *)

Return(r) ==
    /\ pc' = "idle"
    /\ result' = r
    /\ awaited' = "none"
    /\ limit' = 0 /\ left' = 0 /\ phase' = 0 /\ elapsed' = 0
    /\ met' = FALSE

\* The task blocks for so many ticks.
Block(at, ms, ticks) ==
    /\ pc' = at
    /\ limit' = ms
    /\ left' = ticks
    /\ phase' \in 0 .. Period - 1
    /\ elapsed' = 0
    /\ result' = "none"

\* The six getters.
Get(f) ==
    /\ pc = "idle"
    /\ Return(IF f \in flags THEN "true" ELSE "false")
    /\ UNCHANGED <<core, text>>

\* lwlte_core_wait_module_ready and lwlte_core_wait_network_connected.
Refuse ==
    /\ pc = "idle"
    /\ ~created
    /\ Return("NOT_INITIALIZED")
    /\ UNCHANGED <<core, text>>

Wait(f, ms) ==
    /\ pc = "idle"
    /\ created
    /\ Block("wait", ms, ms_to_ticks(Unsigned(ms)))
    /\ awaited' = f
    /\ met' = (f \in flags)
    /\ UNCHANGED <<core, text>>

\* An AT command: the wait for its reply, by a semaphore.
Command(at, ms) ==
    /\ pc = "idle"
    /\ ms > 0
    /\ Block(at, ms, pdMS_TO_TICKS(ms))
    /\ text' = {}
    /\ UNCHANGED <<core, awaited, met>>

\* lwlte_core_get_signal_strength
SignalUnknown ==
    /\ pc = "idle"
    /\ "MODULE_READY" \notin flags
    /\ Return("failed")
    /\ UNCHANGED <<core, text>>

SignalStrength ==
    /\ "MODULE_READY" \in flags
    /\ Command("csq", AtWaitTicks)

Calls ==
    \/ Refuse \/ SignalUnknown \/ SignalStrength
    \/ \E f \in Status : Get(f)
    \/ \E f \in Awaitable \cap Status, ms \in Limits : Wait(f, ms)

-----------------------------------------------------------------------------
(* The task waits.                                                         *)

Answered == {"OK", "ERROR"} \cap text # {}
Satisfied == IF pc = "wait" THEN awaited \in flags ELSE Answered
Waiting == pc \in {"wait"} \cup Commands /\ ~Satisfied
TimeUp == Waiting /\ left = 0

Pass ==
    /\ Waiting
    /\ left \notin {0, Forever}
    /\ elapsed' = elapsed + 1
    /\ phase' = (phase + 1) % Period
    /\ left' = IF phase' = 0 THEN left - 1 ELSE left
    /\ UNCHANGED <<core, pc, awaited, limit, met, text, result>>

\* Mutant: the wait clears the flag it was for (clear_on_exit).
WakeClearing ==
    /\ pc = "wait"
    /\ Satisfied \/ TimeUp
    /\ pc' = "read"
    /\ flags' = flags \ {awaited}
    /\ UNCHANGED <<created, clocks, text, result>>

\* Mutant: the task waits on until the flag is set.
WakeWithFlag ==
    /\ pc = "wait"
    /\ Satisfied
    /\ pc' = "read"
    /\ UNCHANGED <<core, clocks, text, result>>

\* Set or not, the bit is read once more behind the wait.
Wake ==
    /\ pc = "wait"
    /\ Satisfied \/ TimeUp
    /\ pc' = "read"
    /\ UNCHANGED <<core, clocks, text, result>>

Read ==
    /\ pc = "read"
    /\ Return(IF awaited \in flags THEN "OK" ELSE "TIMEOUT")
    /\ UNCHANGED <<core, text>>

\* lwlte_core_send_at_cmd_internal returns.
Reply ==
    /\ pc = "command"
    /\ Satisfied \/ TimeUp
    /\ Return(IF "OK" \in text THEN "OK" ELSE IF "ERROR" \in text THEN "ERROR" ELSE "TIMEOUT")
    /\ UNCHANGED <<core, text>>

\* lwlte_core_get_signal_strength returns -1 or what it reads in the report: the
\* one of the reply or, without one, one an earlier reply left on the stack.
Strength ==
    /\ pc = "csq"
    /\ Satisfied \/ TimeUp
    /\ Return(IF "OK" \in text THEN "number" ELSE "failed")
    /\ text' = {}
    /\ UNCHANGED core

Step == Pass \/ Wake \/ Read \/ Reply \/ Strength

-----------------------------------------------------------------------------
(* The chip restarts.                                                      *)

Restart ==
    /\ created' = FALSE
    /\ flags' = {}
    /\ text' = {}
    /\ Return("none")

\* There is an OK and no report at all: GET_CSQ reads behind a NULL pointer.
Panic ==
    /\ pc = "csq"
    /\ "OK" \in text /\ "+CSQ: " \notin text
    /\ Restart

\* The same befalls network_activate_task, see BringUp, while it asks for the signal.
BringUpPanic ==
    /\ "MODULE_READY" \in flags
    /\ {"SIGNAL_GOOD", "NETWORK_CONNECTED"} \cap flags = {}
    /\ Restart

Reset == Panic \/ BringUpPanic

Next == Environment \/ Calls \/ Step \/ Reset

Spec == Init /\ [][Next]_vars

-----------------------------------------------------------------------------
(* Properties.                                                             *)

Results == {"true", "false", "failed", "number", "OK", "ERROR", "TIMEOUT", "NOT_INITIALIZED"}

\* Every variable has its type; what a call returns is left to whoever called.
WaitsTypeOK ==
    /\ created \in BOOLEAN
    /\ flags \subseteq Status
    /\ pc \in {"idle", "wait", "read"} \cup Commands
    /\ awaited \in Awaitable \cup {"none"}
    /\ limit \in Int
    /\ left \in 0 .. Forever
    /\ phase \in 0 .. Period - 1
    /\ elapsed \in Nat
    /\ met \in BOOLEAN
    /\ text \in SUBSET Lines

TypeOK == WaitsTypeOK /\ result \in Results \cup {"none"}

\* The header of lwlte_sys_flags: a time-out is a time in milliseconds. A wait
\* that runs out has lasted that long but for less than two ticks, one lost in
\* rounding and one begun before the call, and no longer, or one tick.
LimitKept ==
    TimeUp /\ Fits(limit) =>
        /\ limit < elapsed + 2 * Period
        /\ elapsed <= limit \/ elapsed <= Period

\* A wait for a flag with any time at all leaves the processor to the task that
\* sets it, however short it is against a tick; a command has no such promise.
ShortWaitBlocks == TimeUp /\ pc = "wait" /\ limit > 0 => elapsed > 0

\* The time-out -1 means no time-out, although the type it goes through on its
\* way has no negative values.
NoLimitNoTimeout ==
    [][pc = "read" /\ pc' = "idle" /\ limit = -1 => result' # "TIMEOUT"]_vars

\* A caller is told that the time is up only if the flag was not set at any
\* time of the call, even if it is set between the wait and the second look.
NoFalseTimeout ==
    [][pc = "read" /\ pc' = "idle" /\ met => result' # "TIMEOUT"]_vars

\* Every call with a limit comes to an end, whatever becomes of the module: it
\* returns, or the chip restarts under it.
WaitReturns == pc # "idle" /\ limit # -1 ~> pc = "idle"

\* The configuration gives the time a command waits for its reply in ticks.
ConfiguredWait == TimeUp /\ pc = "csq" => elapsed > (AtWaitTicks - 1) * Period

=============================================================================
