------------------------------ MODULE AtWaiter ------------------------------
(***************************************************************************)
(* The AT command exchange of lwlte_core.c: tasks that call                *)
(* lwlte_core_send_at_cmd_internal, the worker task that runs              *)
(* handle_one_line on every line the modem sends, and the at_waiter they   *)
(* share: a mutex, a binary semaphore, two outcome bits, the accumulated   *)
(* response and the two strings looked for in it.                          *)
(*                                                                         *)
(* A step is one call of the FreeRTOS wrappers or one store to the waiter. *)
(* The scheduler is preemptive on a single core (sdkconfig:1272): a task   *)
(* with a lower priority than the worker runs only while the worker is     *)
(* blocked, so the worker handles a line in one go as far as such a task   *)
(* can tell. A task of the worker's priority or above may run between any  *)
(* two steps of the worker; Preempting is the set of those tasks.          *)
(*                                                                         *)
(* Text is abstracted to what strstr tells apart. A line is a value whose  *)
(* Has[line] is the set of strings that occur in it; no string searched    *)
(* for spans two lines, since lines end in '\n' and the strings hold none. *)
(* A response is therefore the set of the lines appended to it.            *)
(***************************************************************************)
EXTENDS Naturals

CONSTANTS
    Callers,     \* tasks that call lwlte_core_send_at_cmd_internal
    Preempting,  \* those whose priority is at least the worker's
    Buffered,    \* those that pass a response_buf, not NULL
    Roomy,       \* those whose response_buf is as long as at_response
    Cmds,        \* the commands they send
    WaitStr,     \* WaitStr[cmd], ErrStr[cmd]: the strings that end the wait
    ErrStr,
    Lines,       \* the lines the modem can send
    Has,         \* Has[line]: the strings that occur in the line
    NoOne,       \* the holder of a free mutex
    NoLine       \* the worker's line buffer while it is empty

ASSUME CallersAssumption ==
    /\ NoOne \notin Callers
    /\ Preempting \subseteq Callers
    /\ Buffered \subseteq Callers
    /\ Roomy \subseteq Buffered

ASSUME TextAssumption ==
    /\ NoLine \notin Lines
    /\ WaitStr \in [Cmds -> STRING]
    /\ ErrStr \in [Cmds -> STRING]
    /\ \A l \in Lines : Has[l] \subseteq STRING

VARIABLES
    pc,              \* pc[c]: where caller c stands in the function
    cmd,             \* cmd[c]: the command of c's current or last call
    result,          \* result[c]: what c's last call returned
    response_buf,    \* response_buf[c]: the lines in the buffer c passes
    flags,           \* the event group of s_lwlte_core_context
    lock,            \* at_waiter.lock: its holder, or NoOne
    done,            \* at_waiter.done: the count of the binary semaphore
    response_ok, response_error, at_response, at_wait_string,
    at_error_string, \* the other fields of at_waiter
    wpc,             \* where the worker stands in handle_one_line
    line,            \* the line it handles
    seen,            \* history: lines the worker took since the last lock
    heard            \* history: lines appended since the last command was written

waiter == <<response_ok, response_error, at_response, at_wait_string,
            at_error_string>>
callers == <<pc, cmd, result, response_buf>>
worker == <<wpc, line>>
vars == <<callers, flags, lock, done, waiter, worker, seen, heard>>

FlagBits == {"CORE_INITIALIZED", "MODULE_READY", "MODULE_PDN_ACTIVATED",
             "AT_CMD_IS_SENDING"}
Results == {"none", "OK", "ERROR", "TIMEOUT", "INVALID_ARG", "NOT_INITIALIZED"}

\* The statements of lwlte_core_send_at_cmd_internal, in their order.
Locked == {"set_flag", "clear_ok", "clear_error", "clear_response",
           "set_error_str", "set_wait_str", "write", "wait", "copy",
           "clear_flag", "unlock"}
Sending == Locked \ {"set_flag", "unlock"}
CallerPCs == {"idle", "lock", "read_ok", "read_error"} \cup Locked
WorkerPCs == {"recv", "append", "match_wait", "match_error", "set_ok",
              "set_error", "signal"}

\* strstr on a response. An empty needle is found in every haystack.
Found(response, str) == str = "" \/ \E l \in response : str \in Has[l]

-----------------------------------------------------------------------------
Init ==
    /\ pc = [c \in Callers |-> "idle"]
    /\ cmd \in [Callers -> Cmds]
    /\ result = [c \in Callers |-> "none"]
    /\ response_buf = [c \in Callers |-> {}]
    /\ flags = {}
    /\ lock = NoOne
    /\ done = 0
    /\ response_ok = FALSE
    /\ response_error = FALSE
    /\ at_response = {}
    /\ at_wait_string = ""
    /\ at_error_string = ""
    /\ wpc = "recv"
    /\ line = NoLine
    /\ seen = {}
    /\ heard = {}

\* lwlte_core_init_internal reaches its last statements; until then calls and
\* input are refused.
CoreInitialized ==
    /\ flags = {}
    /\ flags' = {"CORE_INITIALIZED"}
    /\ UNCHANGED <<callers, lock, done, waiter, worker, seen, heard>>

-----------------------------------------------------------------------------
(* The caller.                                                             *)

MayRun(c) == c \in Preempting \/ wpc = "recv"

Goto(c, from, to) ==
    /\ MayRun(c)
    /\ pc[c] = from
    /\ pc' = [pc EXCEPT ![c] = to]

\* The caller moves on and nothing else changes: a statement left out. The
\* mutants below are what plausible bugs would turn their neighbours into.
MoveOn(c, from, to) ==
    /\ Goto(c, from, to)
    /\ UNCHANGED <<cmd, result, response_buf, flags, lock, done, waiter, worker, seen, heard>>

\* The early returns: the core is not up, or an argument is NULL or a time or
\* size out of range.
Refuse(c) ==
    /\ Goto(c, "idle", "idle")
    /\ result' = [result EXCEPT ![c] =
                    IF "CORE_INITIALIZED" \in flags THEN "INVALID_ARG"
                                                    ELSE "NOT_INITIALIZED"]
    /\ UNCHANGED <<cmd, response_buf, flags, lock, done, waiter, worker, seen, heard>>

Call(c, k) ==
    /\ "CORE_INITIALIZED" \in flags
    /\ Goto(c, "idle", "lock")
    /\ cmd' = [cmd EXCEPT ![c] = k]
    /\ result' = [result EXCEPT ![c] = "none"]
    /\ UNCHANGED <<response_buf, flags, lock, done, waiter, worker, seen, heard>>

\* Mutant: the mutex is taken whoever holds it.
LockUnguarded(c) ==
    /\ Goto(c, "lock", "set_flag")
    /\ lock' = c
    /\ seen' = {}
    /\ UNCHANGED <<cmd, result, response_buf, flags, done, waiter, worker, heard>>

Lock(c) ==
    /\ lock = NoOne
    /\ Goto(c, "lock", "set_flag")
    /\ lock' = c
    /\ seen' = {}
    /\ UNCHANGED <<cmd, result, response_buf, flags, done, waiter, worker, heard>>

SetFlag(c) ==
    /\ Goto(c, "set_flag", "clear_ok")
    /\ flags' = flags \cup {"AT_CMD_IS_SENDING"}
    /\ UNCHANGED <<cmd, result, response_buf, lock, done, waiter, worker, seen, heard>>

\* Mutant: the bit keeps the outcome of the call before.
ClearOkDropped(c) == MoveOn(c, "clear_ok", "clear_error")

ClearOk(c) ==
    /\ Goto(c, "clear_ok", "clear_error")
    /\ response_ok' = FALSE
    /\ UNCHANGED <<cmd, result, response_buf, flags, lock, done, response_error,
                   at_response, at_wait_string, at_error_string, worker, seen, heard>>

ClearError(c) ==
    /\ Goto(c, "clear_error", "clear_response")
    /\ response_error' = FALSE
    /\ UNCHANGED <<cmd, result, response_buf, flags, lock, done, response_ok,
                   at_response, at_wait_string, at_error_string, worker, seen, heard>>

\* Mutant: the response is not reset.
ClearResponseDropped(c) == MoveOn(c, "clear_response", "set_error_str")

ClearResponse(c) ==
    /\ Goto(c, "clear_response", "set_error_str")
    /\ at_response' = {}
    /\ UNCHANGED <<cmd, result, response_buf, flags, lock, done, response_ok,
                   response_error, at_wait_string, at_error_string, worker, seen, heard>>

SetErrorStr(c) ==
    /\ Goto(c, "set_error_str", "set_wait_str")
    /\ at_error_string' = ErrStr[cmd[c]]
    /\ UNCHANGED <<cmd, result, response_buf, flags, lock, done, response_ok,
                   response_error, at_response, at_wait_string, worker, seen, heard>>

\* Mutant: the wait string stays that of the call before.
SetWaitStrDropped(c) == MoveOn(c, "set_wait_str", "write")

SetWaitStr(c) ==
    /\ Goto(c, "set_wait_str", "write")
    /\ at_wait_string' = WaitStr[cmd[c]]
    /\ UNCHANGED <<cmd, result, response_buf, flags, lock, done, response_ok,
                   response_error, at_response, at_error_string, worker, seen, heard>>

\* lwlte_ll_uart_write; its result is ignored.
Write(c) ==
    /\ Goto(c, "write", "wait")
    /\ heard' = {}
    /\ UNCHANGED <<cmd, result, response_buf, flags, lock, done, waiter, worker, seen>>

\* The semaphore is taken, or the time is up and it still cannot be taken.
\* Either way the function goes on alike: the result of the wait is dropped.
Take(c) ==
    /\ done = 1
    /\ Goto(c, "wait", "copy")
    /\ done' = 0
    /\ UNCHANGED <<cmd, result, response_buf, flags, lock, waiter, worker, seen, heard>>

\* Mutant: the wait has no timeout.
ExpireNever(c) ==
    /\ done = 1
    /\ Goto(c, "wait", "copy")
    /\ done' = 0
    /\ UNCHANGED <<cmd, result, response_buf, flags, lock, waiter, worker, seen, heard>>

Expire(c) ==
    /\ done = 0
    /\ Goto(c, "wait", "copy")
    /\ UNCHANGED <<cmd, result, response_buf, flags, lock, done, waiter, worker, seen, heard>>

\* Mutant: the size passed is that of a pointer, not of the array.
CopiesCut(c) ==
    IF at_response = {} THEN {response_buf[c]} ELSE SUBSET at_response

\* What strncpy can leave in the buffer. It stores no terminator, so what the
\* buffer held beyond the copied bytes stays: all of it if the response is
\* empty, else whatever they do not cover. A buffer the response does not fit in
\* is filled with the first part of it: lines at its end are lost or cut.
Copies(c) ==
    IF at_response = {}
    THEN {response_buf[c]}
    ELSE {at_response \cup rest : rest \in SUBSET response_buf[c]}
         \cup (IF c \in Roomy THEN {} ELSE SUBSET at_response)

Copy(c) ==
    /\ Goto(c, "copy", "clear_flag")
    /\ IF c \in Buffered
       THEN \E buf \in Copies(c) : response_buf' = [response_buf EXCEPT ![c] = buf]
       ELSE UNCHANGED response_buf
    /\ UNCHANGED <<cmd, result, flags, lock, done, waiter, worker, seen, heard>>

\* Mutant: the flag is left set.
ClearFlagDropped(c) == MoveOn(c, "clear_flag", "unlock")

ClearFlag(c) ==
    /\ Goto(c, "clear_flag", "unlock")
    /\ flags' = flags \ {"AT_CMD_IS_SENDING"}
    /\ UNCHANGED <<cmd, result, response_buf, lock, done, waiter, worker, seen, heard>>

Unlock(c) ==
    /\ Goto(c, "unlock", "read_ok")
    /\ lock' = NoOne
    /\ UNCHANGED <<cmd, result, response_buf, flags, done, waiter, worker, seen, heard>>

\* The outcome bits are read after the unlock, one after the other.
ReadOk(c) ==
    /\ Goto(c, "read_ok", IF response_ok THEN "idle" ELSE "read_error")
    /\ result' = [result EXCEPT ![c] = IF response_ok THEN "OK" ELSE @]
    /\ UNCHANGED <<cmd, response_buf, flags, lock, done, waiter, worker, seen, heard>>

ReadError(c) ==
    /\ Goto(c, "read_error", "idle")
    /\ result' = [result EXCEPT ![c] =
                    IF response_error THEN "ERROR" ELSE "TIMEOUT"]
    /\ UNCHANGED <<cmd, response_buf, flags, lock, done, waiter, worker, seen, heard>>

\* What a caller that has got the lock does until it returns.
Exchange(c) ==
    \/ SetFlag(c) \/ ClearOk(c) \/ ClearError(c) \/ ClearResponse(c)
    \/ SetErrorStr(c) \/ SetWaitStr(c) \/ Write(c) \/ Take(c) \/ Expire(c)
    \/ Copy(c) \/ ClearFlag(c) \/ Unlock(c) \/ ReadOk(c) \/ ReadError(c)

-----------------------------------------------------------------------------
(* The worker: handle_one_line.                                            *)

\* What the worker tests before it turns to the waiter: a line with "RDY", the
\* first "+CGEV: ME PDN ACT" and a line with "+MSUB:" go no further.
IsReady(l) == "RDY" \in Has[l]
IsPdnAct(l) ==
    /\ "+CGEV: ME PDN ACT" \in Has[l]
    /\ "MODULE_PDN_ACTIVATED" \notin flags
IsUrc(l) == IsReady(l) \/ IsPdnAct(l) \/ "+MSUB:" \in Has[l]

\* A URC, or a line that comes while no command is being sent: at most a flag
\* of the module is set.
HandleAside(l) ==
    /\ wpc = "recv"
    /\ "CORE_INITIALIZED" \in flags
    /\ IsUrc(l) \/ "AT_CMD_IS_SENDING" \notin flags
    /\ flags' = flags \cup
         (IF IsReady(l) THEN {"MODULE_READY"}
          ELSE IF IsPdnAct(l) THEN {"MODULE_PDN_ACTIVATED"} ELSE {})
    /\ seen' = seen \cup {l}
    /\ UNCHANGED <<callers, lock, done, waiter, worker, heard>>

\* Mutant: a line is matched whether or not a command is being sent.
TakeLineAlways(l) ==
    /\ wpc = "recv"
    /\ "CORE_INITIALIZED" \in flags
    /\ ~IsUrc(l)
    /\ wpc' = "append"
    /\ line' = l
    /\ seen' = seen \cup {l}
    /\ UNCHANGED <<callers, flags, lock, done, waiter, heard>>

\* The flag is tested; what follows relies on it and does not test it again.
TakeLine(l) ==
    /\ wpc = "recv"
    /\ {"CORE_INITIALIZED", "AT_CMD_IS_SENDING"} \subseteq flags
    /\ ~IsUrc(l)
    /\ wpc' = "append"
    /\ line' = l
    /\ seen' = seen \cup {l}
    /\ UNCHANGED <<callers, flags, lock, done, waiter, heard>>

AppendLine ==
    /\ wpc = "append"
    /\ wpc' = "match_wait"
    /\ at_response' = at_response \cup {line}
    /\ heard' = heard \cup {line}
    /\ UNCHANGED <<callers, flags, lock, done, response_ok, response_error,
                   at_wait_string, at_error_string, line, seen>>

\* Mutant: a response without the wait string is not looked at further.
MatchWaitOnly ==
    /\ wpc = "match_wait"
    /\ IF Found(at_response, at_wait_string)
       THEN wpc' = "set_ok" /\ line' = line
       ELSE wpc' = "recv" /\ line' = NoLine
    /\ UNCHANGED <<callers, flags, lock, done, waiter, seen, heard>>

MatchWait ==
    /\ wpc = "match_wait"
    /\ wpc' = IF Found(at_response, at_wait_string) THEN "set_ok" ELSE "match_error"
    /\ UNCHANGED <<callers, flags, lock, done, waiter, line, seen, heard>>

\* Mutant: an error string ends nothing.
MatchErrorLost ==
    /\ wpc = "match_error"
    /\ wpc' = "recv"
    /\ line' = NoLine
    /\ UNCHANGED <<callers, flags, lock, done, waiter, seen, heard>>

MatchError ==
    /\ wpc = "match_error"
    /\ IF Found(at_response, at_error_string)
       THEN wpc' = "set_error" /\ line' = line
       ELSE wpc' = "recv" /\ line' = NoLine
    /\ UNCHANGED <<callers, flags, lock, done, waiter, seen, heard>>

SetOk ==
    /\ wpc = "set_ok"
    /\ wpc' = "signal"
    /\ response_ok' = TRUE
    /\ UNCHANGED <<callers, flags, lock, done, response_error, at_response,
                   at_wait_string, at_error_string, line, seen, heard>>

\* Mutant: an error is recorded as success.
SetErrorAsOk ==
    /\ wpc = "set_error"
    /\ wpc' = "signal"
    /\ response_ok' = TRUE
    /\ UNCHANGED <<callers, flags, lock, done, response_error, at_response,
                   at_wait_string, at_error_string, line, seen, heard>>

SetError ==
    /\ wpc = "set_error"
    /\ wpc' = "signal"
    /\ response_error' = TRUE
    /\ UNCHANGED <<callers, flags, lock, done, response_ok, at_response,
                   at_wait_string, at_error_string, line, seen, heard>>

\* Mutants: a counting semaphore; no semaphore given at all.
SignalCounting ==
    /\ wpc = "signal"
    /\ wpc' = "recv"
    /\ line' = NoLine
    /\ done' = done + 1
    /\ UNCHANGED <<callers, flags, lock, waiter, seen, heard>>

SignalDropped ==
    /\ wpc = "signal"
    /\ wpc' = "recv"
    /\ line' = NoLine
    /\ UNCHANGED <<callers, flags, lock, done, waiter, seen, heard>>

\* xSemaphoreGive on a binary semaphore: a second give changes nothing.
Signal ==
    /\ wpc = "signal"
    /\ wpc' = "recv"
    /\ line' = NoLine
    /\ done' = 1
    /\ UNCHANGED <<callers, flags, lock, waiter, seen, heard>>

\* What the worker does with a line it has taken.
WorkerStep ==
    \/ AppendLine \/ MatchWait \/ MatchError \/ SetOk \/ SetError \/ Signal

Environment ==
    \/ CoreInitialized
    \/ \E c \in Callers : Refuse(c) \/ \E k \in Cmds : Call(c, k)
    \/ \E l \in Lines : HandleAside(l) \/ TakeLine(l)

Next ==
    \/ Environment
    \/ \E c \in Callers : Lock(c) \/ Exchange(c)
    \/ WorkerStep

Spec == Init /\ [][Next]_vars

\* The scheduler runs the worker, and a wait with a finite time ends. A caller
\* that has the lock runs whenever the worker blocks, which it does again and
\* again: hence SF. Nothing is assumed of Lock, since a FreeRTOS mutex is not
\* handed over but taken by whoever runs first.
Fairness ==
    /\ WF_vars(WorkerStep)
    /\ \A c \in Callers : SF_vars(Exchange(c))

FairSpec == Spec /\ Fairness

-----------------------------------------------------------------------------
(* Properties.                                                             *)

\* Every variable has its type.
TypeOK ==
    /\ pc \in [Callers -> CallerPCs]
    /\ cmd \in [Callers -> Cmds]
    /\ result \in [Callers -> Results]
    /\ response_buf \in [Callers -> SUBSET Lines]
    /\ flags \in SUBSET FlagBits
    /\ lock \in Callers \cup {NoOne}
    /\ done \in {0, 1}
    /\ response_ok \in BOOLEAN
    /\ response_error \in BOOLEAN
    /\ at_response \in SUBSET Lines
    /\ at_wait_string \in {""} \cup {WaitStr[k] : k \in Cmds}
    /\ at_error_string \in {""} \cup {ErrStr[k] : k \in Cmds}
    /\ wpc \in WorkerPCs
    /\ line \in Lines \cup {NoLine}
    /\ wpc # "recv" => line \in Lines
    /\ seen \in SUBSET Lines
    /\ heard \in SUBSET Lines

\* LWLTE_FLAGS_AT_CMD_IS_SENDING is set exactly while one caller is between the
\* store that sets it and the one that clears it, and that caller holds the
\* lock: no caller clears the flag under another, or leaves it set behind it.
SendingFlagExact ==
    /\ \A c \in Callers : pc[c] \in Locked <=> lock = c
    /\ "AT_CMD_IS_SENDING" \in flags <=> \E c \in Callers : pc[c] \in Sending

Answers(l, k) == WaitStr[k] \in Has[l] \/ ErrStr[k] \in Has[l]

\* No lost wakeup: while a caller waits and a line that answers its command has
\* been appended, the semaphore is given or the worker is on its way to give it.
AnswerTracked ==
    \A c \in Callers :
        pc[c] = "wait" /\ (\E l \in heard : Answers(l, cmd[c])) =>
            \/ done = 1
            \/ wpc \in {"match_wait", "set_ok", "set_error", "signal"}
            \/ wpc = "match_error" /\ Found(heard, ErrStr[cmd[c]])

\* Seen from outside the worker: once it is through with a line that answers
\* the command written, the caller that waits finds the semaphore given, so it
\* can not run into its timeout any more.
AnswerWakes ==
    \A c \in Callers :
        /\ pc[c] = "wait"
        /\ wpc = "recv"
        /\ \E l \in heard : Answers(l, cmd[c])
        => done = 1

\* The response a caller copies out holds only lines the worker took after
\* that caller got the lock; nothing of an earlier exchange is left in it.
ResponseFresh ==
    \A c \in Callers :
        pc[c] \in {"set_error_str", "set_wait_str", "write", "wait", "copy"}
            => at_response \subseteq seen

\* Nothing signals the semaphore unless a command is being sent at that
\* moment, so a caller that has left can not be signalled after it left.
SignalOnlyWhileSending ==
    [][done = 0 /\ done' = 1 => "AT_CMD_IS_SENDING" \in flags]_vars

\* A caller that got the lock releases it and returns, whatever the modem
\* sends or withholds: no wait is endless and no one keeps the lock for ever.
HolderReturns == \A c \in Callers : pc[c] = "set_flag" ~> pc[c] = "idle"

=============================================================================
