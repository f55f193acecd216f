------------------------------- MODULE AtModem -------------------------------
(***************************************************************************)
(* AtWaiter with a modem that behaves as well as one can: it works on one  *)
(* command at a time, and either answers it in time or stays silent. Its   *)
(* answer is any number of lines without a meaning of their own and one    *)
(* line that ends the wait; After[cmd] are the lines that complete the     *)
(* reply behind that line, such as the "OK" behind "+CPIN: READY". Between *)
(* replies it sends only URCs. The modem is not part of the repository: it *)
(* is modelled from the strings the code looks for in what it sends.       *)
(***************************************************************************)
EXTENDS AtWaiter

CONSTANT After  \* After[cmd]: lines sent behind the one that ends the wait

ASSUME AfterAssumption == After \in [Cmds -> SUBSET Lines]

VARIABLES
    asked,  \* the caller whose command the modem works on, or NoOne
    mute,   \* the modem will not answer that command
    owed,   \* lines of the last reply still to be sent
    reply   \* history: reply[c] is the answer to c's last command

modem == <<asked, mute, owed, reply>>
mvars == <<vars, modem>>

MInit ==
    /\ Init
    /\ asked = NoOne
    /\ mute = FALSE
    /\ owed = {}
    /\ reply = [c \in Callers |-> "none"]

Receive(l) == TakeLine(l) \/ HandleAside(l)

\* A command reaches the modem, which is through with the one before.
Command(c) ==
    /\ asked = NoOne
    /\ owed = {}
    /\ Write(c)
    /\ asked' = c
    /\ mute' \in BOOLEAN
    /\ owed' = {}
    /\ reply' = [reply EXCEPT ![c] = "none"]

Meaningless(l) == \A k \in Cmds : ~Answers(l, k)

ReplyLine(l) ==
    /\ asked # NoOne
    /\ ~mute
    /\ ~IsUrc(l)
    /\ Meaningless(l)
    /\ Receive(l)
    /\ UNCHANGED modem

LastLine(l) ==
    /\ asked # NoOne
    /\ ~mute
    /\ Answers(l, cmd[asked])
    /\ Receive(l)
    /\ reply' = [reply EXCEPT ![asked] =
                    IF WaitStr[cmd[asked]] \in Has[l] THEN "OK" ELSE "ERROR"]
    /\ owed' = IF reply'[asked] = "OK" THEN After[cmd[asked]] ELSE {}
    /\ asked' = NoOne
    /\ UNCHANGED mute

AfterLine(l) ==
    /\ l \in owed
    /\ Receive(l)
    /\ owed' = owed \ {l}
    /\ UNCHANGED <<asked, mute, reply>>

\* Only lines the code keeps from the waiter: a second "+CGEV: ME PDN ACT" is
\* no URC to it.
Urc(l) ==
    /\ IsUrc(l)
    /\ Receive(l)
    /\ UNCHANGED modem

\* The modem answers in time if it answers at all.
GiveUp(c) ==
    /\ asked = c
    /\ mute
    /\ Expire(c)
    /\ asked' = NoOne
    /\ reply' = [reply EXCEPT ![c] = "TIMEOUT"]
    /\ UNCHANGED <<mute, owed>>

\* The steps of the code that do not involve the modem.
CodeStep ==
    \/ CoreInitialized
    \/ \E c \in Callers :
         \/ Refuse(c) \/ (\E k \in Cmds : Call(c, k)) \/ Lock(c)
         \/ SetFlag(c) \/ ClearOk(c) \/ ClearError(c) \/ ClearResponse(c)
         \/ SetErrorStr(c) \/ SetWaitStr(c) \/ Take(c) \/ Copy(c)
         \/ ClearFlag(c) \/ Unlock(c) \/ ReadOk(c) \/ ReadError(c)
    \/ WorkerStep

MNext ==
    \/ CodeStep /\ UNCHANGED modem
    \/ \E c \in Callers : Command(c) \/ GiveUp(c)
    \/ \E l \in Lines : ReplyLine(l) \/ LastLine(l) \/ AfterLine(l) \/ Urc(l)

MSpec == MInit /\ [][MNext]_mvars

\* The steps of the code a caller takes once it has the lock, time-outs of
\* answered commands left out: GiveUp is the only way to run out of time.
CallerStep(c) ==
    \/ Command(c) \/ GiveUp(c)
    \/ /\ \/ SetFlag(c) \/ ClearOk(c) \/ ClearError(c) \/ ClearResponse(c)
          \/ SetErrorStr(c) \/ SetWaitStr(c) \/ Take(c) \/ Copy(c)
          \/ ClearFlag(c) \/ Unlock(c) \/ ReadOk(c) \/ ReadError(c)
       /\ UNCHANGED modem

\* Besides the scheduling of AtWaiter: a modem that is not mute ends its reply
\* at last, whatever URCs it sends in between.
ModemFairness ==
    /\ WF_mvars(WorkerStep /\ UNCHANGED modem)
    /\ \A c \in Callers : SF_mvars(CallerStep(c))
    /\ SF_mvars(\E l \in Lines : LastLine(l))
    /\ SF_mvars(\E l \in Lines : AfterLine(l))

FairMSpec == MSpec /\ ModemFairness

-----------------------------------------------------------------------------
Returned(c) == pc[c] = "idle" /\ result[c] \in {"OK", "ERROR", "TIMEOUT"}

\* A call returns what the modem answered to that very command: LWLTE_OK or
\* LWLTE_ERROR as the last line of its reply says, LWLTE_TIMEOUT only if the
\* modem stayed silent.
ResultIsReply == \A c \in Callers : Returned(c) => result[c] = reply[c]

\* A caller leaves the wait on the semaphore only once the modem has answered
\* the command it wrote: the signal it takes is not one left by an earlier call.
WaitsForResponse ==
    [][\A c \in Callers :
         pc[c] = "wait" /\ pc'[c] = "copy" /\ done = 1 => reply[c] # "none"]_mvars

\* A caller that waits returns, although no wait that the modem answers is cut
\* short by the timeout here: the wakeup by the worker alone is enough.
AnsweredReturns == \A c \in Callers : pc[c] = "wait" ~> pc[c] = "idle"

\* A call that returns LWLTE_OK has put the line it waited for in the buffer its
\* caller goes on to parse, if that buffer is as long as the response can be.
AnswerDelivered ==
    \A c \in Roomy :
        Returned(c) /\ result[c] = "OK"
            => Found(response_buf[c], WaitStr[cmd[c]])

\* The exchange as its callers see it. A command counts as asked when it
\* is written and as answered when its last line is sent or the time is up.
Phase(c) ==
    IF pc[c] = "idle" THEN "idle"
    ELSE IF pc[c] \in {"wait", "copy", "clear_flag", "unlock", "read_ok", "read_error"}
         THEN IF reply[c] = "none" THEN "asking" ELSE "answered"
         ELSE "queued"

Promise == INSTANCE AtExchange WITH
    phase <- [c \in Callers |-> Phase(c)],
    answer <- reply,
    returned <- result

\* lwlte_core_send_at_cmd_internal keeps its promise.
ImplementsExchange == Promise!Spec

=============================================================================
