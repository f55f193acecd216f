--------------------------- MODULE AtWaiterProofs ---------------------------
(***************************************************************************)
(* Theorems about AtWaiter, for every set of callers, commands and lines.  *)
(*                                                                         *)
(* TypeCorrect and FlagExact need nothing but the steps themselves.        *)
(* NoLostWakeup rests on an inductive invariant that follows the exchange  *)
(* from the reset of the waiter to the signal. The two theorems about a    *)
(* worker that is not preempted assume Preempting = {}: without it they    *)
(* are false.                                                              *)
(***************************************************************************)
EXTENDS AtWaiter, TLAPS

-----------------------------------------------------------------------------
(* Types.                                                                  *)

\* The initial values have their types.
LEMMA InitType == Init => TypeOK
<1> SUFFICES ASSUME Init PROVE TypeOK
  OBVIOUS
<1>1. pc \in [Callers -> CallerPCs] /\ result \in [Callers -> Results]
  BY DEF Init, CallerPCs, Results
<1>2. flags \in SUBSET FlagBits /\ wpc \in WorkerPCs
  BY DEF Init, WorkerPCs
<1> QED
  BY <1>1, <1>2 DEF Init, TypeOK

\* Every step of the code and of the modem preserves the types.
LEMMA NextType == TypeOK /\ [Next]_vars => TypeOK'
<1> SUFFICES ASSUME TypeOK, [Next]_vars PROVE TypeOK'
  OBVIOUS
<1> USE DEF TypeOK, callers, waiter, worker
<1>1. CASE CoreInitialized
  BY <1>1 DEF CoreInitialized, FlagBits
<1>2. ASSUME NEW c \in Callers, Refuse(c) PROVE TypeOK'
  BY <1>2 DEF Refuse, Goto, CallerPCs, Results
<1>3. ASSUME NEW c \in Callers, NEW k \in Cmds, Call(c, k) PROVE TypeOK'
  BY <1>3 DEF Call, Goto, CallerPCs, Results
<1>4. ASSUME NEW c \in Callers, Lock(c) PROVE TypeOK'
  BY <1>4 DEF Lock, Goto, CallerPCs, Locked
<1>5. ASSUME NEW c \in Callers, SetFlag(c) \/ ClearFlag(c) PROVE TypeOK'
  BY <1>5 DEF SetFlag, ClearFlag, Goto, CallerPCs, Locked, FlagBits
<1>6. ASSUME NEW c \in Callers, ClearOk(c) \/ ClearError(c) \/ ClearResponse(c)
      PROVE TypeOK'
  BY <1>6 DEF ClearOk, ClearError, ClearResponse, Goto, CallerPCs, Locked
<1>7. ASSUME NEW c \in Callers, SetErrorStr(c) \/ SetWaitStr(c) PROVE TypeOK'
  BY <1>7 DEF SetErrorStr, SetWaitStr, Goto, CallerPCs, Locked
<1>8. ASSUME NEW c \in Callers, Write(c) \/ Take(c) \/ Expire(c) PROVE TypeOK'
  BY <1>8 DEF Write, Take, Expire, Goto, CallerPCs, Locked
<1>9. ASSUME NEW c \in Callers, Copy(c) PROVE TypeOK'
  <2>1. Copies(c) \subseteq SUBSET Lines
    BY DEF Copies
  <2>2. response_buf' \in [Callers -> SUBSET Lines]
    BY <1>9, <2>1 DEF Copy
  <2>3. pc' \in [Callers -> CallerPCs]
    BY <1>9 DEF Copy, Goto, CallerPCs, Locked
  <2> QED
    BY <1>9, <2>2, <2>3 DEF Copy
<1>10. ASSUME NEW c \in Callers, Unlock(c) PROVE TypeOK'
  BY <1>10 DEF Unlock, Goto, CallerPCs
<1>11. ASSUME NEW c \in Callers, ReadOk(c) \/ ReadError(c) PROVE TypeOK'
  BY <1>11 DEF ReadOk, ReadError, Goto, CallerPCs, Results
<1>12. ASSUME NEW l \in Lines, HandleAside(l) \/ TakeLine(l) PROVE TypeOK'
  BY <1>12 DEF HandleAside, TakeLine, WorkerPCs, FlagBits
<1>13. CASE WorkerStep
  BY <1>13 DEF WorkerStep, AppendLine, MatchWait, MatchError, SetOk, SetError,
               Signal, WorkerPCs
<1>14. CASE UNCHANGED vars
  BY <1>14 DEF vars
<1> QED
  BY <1>1, <1>2, <1>3, <1>4, <1>5, <1>6, <1>7, <1>8, <1>9, <1>10, <1>11,
     <1>12, <1>13, <1>14 DEF Next, Environment, Exchange

\* Every variable keeps its type.
THEOREM TypeCorrect == Spec => []TypeOK
BY InitType, NextType, PTL DEF Spec

-----------------------------------------------------------------------------
(* The lock and the flag. SendingFlagExact is inductive as it stands.       *)

\* Only the statement from the lock to the unlock move a caller in or out of
\* Locked, and only the two flag statements in or out of Sending.
LEMMA NextFlagExact ==
    TypeOK /\ SendingFlagExact /\ [Next]_vars => SendingFlagExact'
<1> SUFFICES ASSUME TypeOK, SendingFlagExact, [Next]_vars PROVE SendingFlagExact'
  OBVIOUS
<1> USE DEF SendingFlagExact, callers, waiter, worker
<1>0. pc \in [Callers -> CallerPCs] /\ lock \in Callers \cup {NoOne}
  BY DEF TypeOK
<1>1. CASE CoreInitialized
  BY <1>1 DEF CoreInitialized
<1>2. ASSUME NEW c \in Callers, Refuse(c) PROVE SendingFlagExact'
  BY <1>0, <1>2 DEF Refuse, Goto, Locked, Sending
<1>3. ASSUME NEW c \in Callers, NEW k \in Cmds, Call(c, k) PROVE SendingFlagExact'
  BY <1>0, <1>3 DEF Call, Goto, Locked, Sending
<1>4. ASSUME NEW c \in Callers, Lock(c) PROVE SendingFlagExact'
  BY <1>0, <1>4, CallersAssumption DEF Lock, Goto, Locked, Sending
<1>5. ASSUME NEW c \in Callers, SetFlag(c) PROVE SendingFlagExact'
  BY <1>0, <1>5 DEF SetFlag, Goto, Locked, Sending
<1>6. ASSUME NEW c \in Callers,
             \/ ClearOk(c) \/ ClearError(c) \/ ClearResponse(c)
             \/ SetErrorStr(c) \/ SetWaitStr(c)
      PROVE SendingFlagExact'
  BY <1>0, <1>6 DEF ClearOk, ClearError, ClearResponse, SetErrorStr, SetWaitStr,
                    Goto, Locked, Sending
<1>7. ASSUME NEW c \in Callers, Write(c) \/ Take(c) \/ Expire(c) \/ Copy(c)
      PROVE SendingFlagExact'
  BY <1>0, <1>7 DEF Write, Take, Expire, Copy, Goto, Locked, Sending
<1>8. ASSUME NEW c \in Callers, ClearFlag(c) PROVE SendingFlagExact'
  BY <1>0, <1>8 DEF ClearFlag, Goto, Locked, Sending
<1>9. ASSUME NEW c \in Callers, Unlock(c) PROVE SendingFlagExact'
  BY <1>0, <1>9, CallersAssumption DEF Unlock, Goto, Locked, Sending
<1>10. ASSUME NEW c \in Callers, ReadOk(c) \/ ReadError(c) PROVE SendingFlagExact'
  BY <1>0, <1>10 DEF ReadOk, ReadError, Goto, Locked, Sending
<1>11. ASSUME NEW l \in Lines, HandleAside(l) \/ TakeLine(l) PROVE SendingFlagExact'
  BY <1>11 DEF HandleAside, TakeLine
<1>12. CASE WorkerStep
  BY <1>12 DEF WorkerStep, AppendLine, MatchWait, MatchError, SetOk, SetError, Signal
<1>13. CASE UNCHANGED vars
  BY <1>13 DEF vars
<1> QED
  BY <1>1, <1>2, <1>3, <1>4, <1>5, <1>6, <1>7, <1>8, <1>9, <1>10, <1>11,
     <1>12, <1>13 DEF Next, Environment, Exchange

\* At first no caller holds the lock and the flag is clear.
LEMMA InitFlagExact == Init => SendingFlagExact
BY CallersAssumption DEF Init, SendingFlagExact, Locked, Sending

\* LWLTE_FLAGS_AT_CMD_IS_SENDING is set exactly while a caller that holds the
\* lock of the waiter is between setting and clearing it.
THEOREM FlagExact == Spec => []SendingFlagExact
<1>1. Init => TypeOK /\ SendingFlagExact
  BY InitType, InitFlagExact
<1>2. TypeOK /\ SendingFlagExact /\ [Next]_vars => (TypeOK /\ SendingFlagExact)'
  BY NextType, NextFlagExact
<1> QED
  BY <1>1, <1>2, PTL DEF Spec

-----------------------------------------------------------------------------
(* No lost wakeup. A line that answers the command can only be missed if    *)
(* the worker looks for other strings than the caller asked for, or in a    *)
(* response that no longer holds the line: hence the first two conjuncts.   *)

\* The strings are in place by the time the command is written.
Armed ==
    \A c \in Callers :
        /\ pc[c] \in {"set_wait_str", "write", "wait"}
               => at_error_string = ErrStr[cmd[c]]
        /\ pc[c] \in {"write", "wait"} => at_wait_string = WaitStr[cmd[c]]

\* What was heard during the wait is still in the response.
HeardKept == \A c \in Callers : pc[c] = "wait" => heard \subseteq at_response

\* The inductive invariant behind AnswerTracked.
WakeInv == SendingFlagExact /\ Armed /\ HeardKept /\ AnswerTracked

\* At most one caller stands between the lock and the unlock.
LEMMA OneHolder ==
    ASSUME SendingFlagExact, NEW c \in Callers, NEW d \in Callers,
           pc[c] \in Locked, pc[d] \in Locked
    PROVE  c = d
BY DEF SendingFlagExact

\* The steps that change neither the waiter, nor what was heard, nor where a
\* caller stands between the reset of the strings and the end of the wait.
LEMMA NextWakeAside ==
    ASSUME TypeOK, WakeInv,
           \/ CoreInitialized \/ \E l \in Lines : HandleAside(l)
           \/ \E c \in Callers :
                \/ Refuse(c) \/ \E k \in Cmds : Call(c, k)
                \/ Lock(c) \/ SetFlag(c) \/ Copy(c) \/ ClearFlag(c)
                \/ Unlock(c) \/ ReadOk(c) \/ ReadError(c)
    PROVE  Armed' /\ HeardKept' /\ AnswerTracked'
<1> USE DEF callers, waiter, worker, WakeInv, TypeOK
<1>1. /\ UNCHANGED <<at_wait_string, at_error_string, at_response, heard, done, wpc>>
      /\ \A d \in Callers : pc'[d] \in {"set_wait_str", "write", "wait"}
                               => pc'[d] = pc[d] /\ cmd'[d] = cmd[d]
  <2>1. CASE CoreInitialized \/ \E l \in Lines : HandleAside(l)
    BY <2>1 DEF CoreInitialized, HandleAside
  <2>2. CASE \E c \in Callers : Refuse(c) \/ \E k \in Cmds : Call(c, k)
    BY <2>2 DEF Refuse, Call, Goto
  <2>3. CASE \E c \in Callers : Lock(c) \/ SetFlag(c) \/ Copy(c) \/ ClearFlag(c)
    BY <2>3 DEF Lock, SetFlag, Copy, ClearFlag, Goto
  <2>4. CASE \E c \in Callers : Unlock(c) \/ ReadOk(c) \/ ReadError(c)
    BY <2>4 DEF Unlock, ReadOk, ReadError, Goto
  <2> QED
    BY <2>1, <2>2, <2>3, <2>4
<1>2. Armed'
  BY <1>1 DEF Armed
<1>3. HeardKept'
  BY <1>1 DEF HeardKept
<1>4. AnswerTracked'
  BY <1>1 DEF AnswerTracked, Answers, Found
<1> QED
  BY <1>2, <1>3, <1>4

\* The steps of the holder that set up the wait or end it. No other caller
\* stands where the invariant says anything.
LEMMA NextWakeHolder ==
    ASSUME TypeOK, WakeInv, NEW c \in Callers,
           \/ ClearOk(c) \/ ClearError(c) \/ ClearResponse(c)
           \/ SetErrorStr(c) \/ SetWaitStr(c) \/ Write(c) \/ Take(c) \/ Expire(c)
    PROVE  Armed' /\ HeardKept' /\ AnswerTracked'
<1> USE DEF callers, waiter, worker
<1>1. \A d \in Callers : pc[d] \in {"set_wait_str", "write", "wait"} => d = c
  <2>1. pc[c] \in Locked
    BY DEF ClearOk, ClearError, ClearResponse, SetErrorStr, SetWaitStr, Write,
           Take, Expire, Goto, Locked
  <2> QED
    BY <2>1, OneHolder DEF WakeInv, Locked
<1>2. /\ pc' = [pc EXCEPT ![c] = pc'[c]]
      /\ \A d \in Callers : d # c => pc'[d] = pc[d]
      /\ cmd' = cmd
  BY DEF TypeOK, ClearOk, ClearError, ClearResponse, SetErrorStr, SetWaitStr,
         Write, Take, Expire, Goto
<1>3. Armed'
  BY <1>1, <1>2
     DEF TypeOK, WakeInv, Armed, ClearOk, ClearError, ClearResponse, SetErrorStr,
         SetWaitStr, Write, Take, Expire, Goto
<1>4. HeardKept'
  BY <1>1, <1>2
     DEF TypeOK, WakeInv, HeardKept, ClearOk, ClearError, ClearResponse,
         SetErrorStr, SetWaitStr, Write, Take, Expire, Goto
<1>5. AnswerTracked'
  BY <1>1, <1>2
     DEF TypeOK, WakeInv, AnswerTracked, ClearOk, ClearError, ClearResponse,
         SetErrorStr, SetWaitStr, Write, Take, Expire, Goto
<1> QED
  BY <1>3, <1>4, <1>5

\* The worker goes from the line to the signal without leaving the invariant.
LEMMA NextWakeWorker ==
    ASSUME TypeOK, WakeInv, WorkerStep \/ \E l \in Lines : TakeLine(l)
    PROVE  Armed' /\ HeardKept' /\ AnswerTracked'
<1> USE DEF callers, waiter, worker, WakeInv
<1>1. Armed'
  BY DEF Armed, WorkerStep, TakeLine, AppendLine, MatchWait, MatchError, SetOk,
         SetError, Signal
<1>2. HeardKept'
  BY DEF HeardKept, WorkerStep, TakeLine, AppendLine, MatchWait, MatchError,
         SetOk, SetError, Signal
<1>3. AnswerTracked'
  <2> SUFFICES ASSUME NEW c \in Callers, (pc[c] = "wait")',
                      NEW l \in heard', Answers(l, cmd[c])'
               PROVE  \/ done' = 1
                      \/ wpc' \in {"match_wait", "set_ok", "set_error", "signal"}
                      \/ wpc' = "match_error" /\ Found(heard', ErrStr[cmd'[c]])
    BY DEF AnswerTracked, Found
  <2>1. CASE AppendLine
    BY <2>1 DEF AppendLine
  <2>2. CASE MatchWait
    <3>1. /\ pc[c] = "wait" /\ l \in heard /\ l \in at_response
          /\ at_wait_string = WaitStr[cmd[c]] /\ UNCHANGED <<heard, cmd>>
      BY <2>2 DEF MatchWait, HeardKept, Armed
    <3>2. CASE Found(at_response, at_wait_string)
      BY <2>2, <3>2 DEF MatchWait
    <3>3. CASE ~Found(at_response, at_wait_string)
      <4>1. ErrStr[cmd[c]] \in Has[l]
        BY <3>1, <3>3 DEF Found, Answers
      <4> QED
        BY <2>2, <3>1, <3>3, <4>1 DEF MatchWait, Found
    <3> QED
      BY <3>2, <3>3
  <2>3. CASE MatchError
    <3>1. /\ pc[c] = "wait" /\ l \in heard /\ Answers(l, cmd[c])
          /\ at_error_string = ErrStr[cmd[c]] /\ heard \subseteq at_response
          /\ wpc = "match_error" /\ done' = done
      BY <2>3 DEF MatchError, HeardKept, Armed, Answers
    <3>2. done = 1 \/ Found(heard, ErrStr[cmd[c]])
      BY <3>1 DEF AnswerTracked
    <3>3. CASE Found(heard, ErrStr[cmd[c]])
      <4>1. Found(at_response, at_error_string)
        BY <3>1, <3>3 DEF Found
      <4> QED
        BY <2>3, <4>1 DEF MatchError
    <3> QED
      BY <3>1, <3>2, <3>3
  <2>4. CASE SetOk \/ SetError \/ Signal
    BY <2>4 DEF SetOk, SetError, Signal
  <2>5. CASE \E m \in Lines : TakeLine(m)
    BY <2>5 DEF TakeLine, AnswerTracked, Answers
  <2> QED
    BY <2>1, <2>2, <2>3, <2>4, <2>5 DEF WorkerStep
<1> QED
  BY <1>1, <1>2, <1>3

\* No step loses a wakeup.
LEMMA NextWake == TypeOK /\ WakeInv /\ [Next]_vars => WakeInv'
<1> SUFFICES ASSUME TypeOK, WakeInv, [Next]_vars PROVE WakeInv'
  OBVIOUS
<1>1. SendingFlagExact'
  BY NextFlagExact DEF WakeInv
<1>2. Armed' /\ HeardKept' /\ AnswerTracked'
  <2>1. CASE Environment
    BY <2>1, NextWakeAside, NextWakeWorker DEF Environment
  <2>2. ASSUME NEW c \in Callers, Lock(c) \/ Exchange(c)
        PROVE Armed' /\ HeardKept' /\ AnswerTracked'
    BY <2>2, NextWakeAside, NextWakeHolder DEF Exchange
  <2>3. CASE WorkerStep
    BY <2>3, NextWakeWorker
  <2>4. CASE UNCHANGED vars
    BY <2>4 DEF vars, callers, waiter, worker, WakeInv, Armed, HeardKept,
                AnswerTracked, Answers, Found
  <2> QED
    BY <2>1, <2>2, <2>3, <2>4 DEF Next
<1> QED
  BY <1>1, <1>2 DEF WakeInv

\* At first no caller waits.
LEMMA InitWake == Init => WakeInv
BY InitFlagExact DEF Init, WakeInv, Armed, HeardKept, AnswerTracked

\* While a caller waits and a line that answers its command has been appended,
\* the semaphore is given or the worker is about to give it.
THEOREM WakeupTracked == Spec => []AnswerTracked
<1>1. Init => TypeOK /\ WakeInv
  BY InitType, InitWake
<1>2. (TypeOK /\ WakeInv) /\ [Next]_vars => (TypeOK /\ WakeInv)'
  BY NextType, NextWake
<1>3. TypeOK /\ WakeInv => AnswerTracked
  BY DEF WakeInv
<1> QED
  BY <1>1, <1>2, <1>3, PTL DEF Spec

\* A caller whose command has been answered does not find the semaphore empty
\* once the worker is back at its queue, whoever preempts whom.
THEOREM NoLostWakeup == Spec => []AnswerWakes
<1>1. AnswerTracked => AnswerWakes
  BY DEF AnswerTracked, AnswerWakes
<1> QED
  BY <1>1, WakeupTracked, PTL

-----------------------------------------------------------------------------
(* A worker that no caller preempts. Then the worker is never caught         *)
(* between the test of the flag and the signal with the flag cleared.        *)

\* The worker that has taken a line finds the flag set until it is through
\* with it, and a line still to be appended was taken in this exchange.
WorkerQuiet ==
    /\ wpc # "recv" => "AT_CMD_IS_SENDING" \in flags
    /\ wpc = "append" => line \in seen

\* The inductive invariant behind ResponseFresh.
QuietInv == SendingFlagExact /\ WorkerQuiet /\ ResponseFresh

\* At first the worker is at its queue and the response is empty.
LEMMA InitQuiet == Init => QuietInv
BY InitFlagExact DEF Init, QuietInv, WorkerQuiet, ResponseFresh

\* A caller steps only while the worker is at its queue, and only the reset of
\* the response brings it where ResponseFresh says anything.
LEMMA NextQuietCaller ==
    ASSUME TypeOK, QuietInv, Preempting = {}, NEW c \in Callers,
           Lock(c) \/ Exchange(c)
    PROVE  WorkerQuiet' /\ ResponseFresh'
<1> USE DEF callers, waiter, worker, TypeOK, QuietInv
<1>1. wpc = "recv" /\ wpc' = "recv"
  BY DEF Lock, Exchange, SetFlag, ClearOk, ClearError, ClearResponse,
         SetErrorStr, SetWaitStr, Write, Take, Expire, Copy, ClearFlag, Unlock,
         ReadOk, ReadError, Goto, MayRun
<1>2. WorkerQuiet'
  BY <1>1 DEF WorkerQuiet
<1>3. ResponseFresh'
  <2>1. CASE Lock(c)
    <3>1. \A d \in Callers : pc'[d] \notin Locked \/ d = c
      BY <2>1, CallersAssumption DEF Lock, Goto, SendingFlagExact
    <3> QED
      BY <2>1, <3>1 DEF Lock, Goto, ResponseFresh, Locked
  <2>2. CASE ClearResponse(c)
    BY <2>2 DEF ClearResponse, Goto, ResponseFresh
  <2>3. CASE SetFlag(c) \/ ClearOk(c) \/ ClearError(c) \/ SetErrorStr(c)
             \/ SetWaitStr(c)
    BY <2>3 DEF SetFlag, ClearOk, ClearError, SetErrorStr, SetWaitStr, Goto,
                ResponseFresh
  <2>4. CASE Write(c) \/ Take(c) \/ Expire(c) \/ Copy(c)
    BY <2>4 DEF Write, Take, Expire, Copy, Goto, ResponseFresh
  <2>5. CASE ClearFlag(c) \/ Unlock(c) \/ ReadOk(c) \/ ReadError(c)
    BY <2>5 DEF ClearFlag, Unlock, ReadOk, ReadError, Goto, ResponseFresh
  <2> QED
    BY <2>1, <2>2, <2>3, <2>4, <2>5 DEF Exchange
<1> QED
  BY <1>2, <1>3

\* The worker appends only the line it has taken, and takes one only while the
\* flag is set.
LEMMA NextQuietWorker ==
    ASSUME QuietInv, WorkerStep \/ \E l \in Lines : TakeLine(l) \/ HandleAside(l)
    PROVE  WorkerQuiet' /\ ResponseFresh'
<1> USE DEF callers, waiter, worker, QuietInv, WorkerQuiet, ResponseFresh
<1>1. CASE WorkerStep
  BY <1>1 DEF WorkerStep, AppendLine, MatchWait, MatchError, SetOk, SetError, Signal
<1>2. CASE \E l \in Lines : TakeLine(l)
  BY <1>2 DEF TakeLine
<1>3. CASE \E l \in Lines : HandleAside(l)
  BY <1>3 DEF HandleAside
<1> QED
  BY <1>1, <1>2, <1>3

\* Without preemption no step puts an old line into a response.
LEMMA NextQuiet ==
    TypeOK /\ QuietInv /\ Preempting = {} /\ [Next]_vars => QuietInv'
<1> SUFFICES ASSUME TypeOK, QuietInv, Preempting = {}, [Next]_vars PROVE QuietInv'
  OBVIOUS
<1>1. SendingFlagExact'
  BY NextFlagExact DEF QuietInv
<1>2. WorkerQuiet' /\ ResponseFresh'
  <2>1. CASE CoreInitialized \/ \E c \in Callers : Refuse(c) \/ \E k \in Cmds : Call(c, k)
    BY <2>1 DEF CoreInitialized, Refuse, Call, Goto, MayRun, callers, waiter,
                worker, TypeOK, QuietInv, WorkerQuiet, ResponseFresh
  <2>2. CASE WorkerStep \/ \E l \in Lines : HandleAside(l) \/ TakeLine(l)
    BY <2>2, NextQuietWorker
  <2>3. CASE \E c \in Callers : Lock(c) \/ Exchange(c)
    BY <2>3, NextQuietCaller
  <2>4. CASE UNCHANGED vars
    BY <2>4 DEF vars, callers, waiter, worker, QuietInv, WorkerQuiet, ResponseFresh
  <2> QED
    BY <2>1, <2>2, <2>3, <2>4 DEF Next, Environment
<1> QED
  BY <1>1, <1>2 DEF QuietInv

\* If no caller preempts the worker, the response a caller copies out holds only
\* lines the worker took after that caller got the lock.
THEOREM FreshResponse == ASSUME Preempting = {} PROVE Spec => []ResponseFresh
<1>1. Init => TypeOK /\ QuietInv
  BY InitType, InitQuiet
<1>2. (TypeOK /\ QuietInv) /\ [Next]_vars => (TypeOK /\ QuietInv)'
  BY NextType, NextQuiet
<1>3. TypeOK /\ QuietInv => ResponseFresh
  BY DEF QuietInv
<1> QED
  BY <1>1, <1>2, <1>3, PTL DEF Spec

\* If no caller preempts the worker, the semaphore is given only while a
\* command is being sent.
THEOREM SignalWhileSending ==
    ASSUME Preempting = {} PROVE Spec => SignalOnlyWhileSending
<1> DEFINE Given == done = 0 /\ done' = 1 => "AT_CMD_IS_SENDING" \in flags
<1>1. Init => TypeOK /\ QuietInv
  BY InitType, InitQuiet
<1>2. (TypeOK /\ QuietInv) /\ [Next]_vars => (TypeOK /\ QuietInv)'
  BY NextType, NextQuiet
<1>3. QuietInv /\ [Next]_vars => [Given]_vars
  <2> SUFFICES ASSUME QuietInv, [Next]_vars, done = 0, done' = 1
               PROVE  "AT_CMD_IS_SENDING" \in flags
    OBVIOUS
  <2>1. Signal
    BY DEF Next, Environment, Exchange, WorkerStep, CoreInitialized, Refuse, Call,
           Lock, SetFlag, ClearOk, ClearError, ClearResponse, SetErrorStr,
           SetWaitStr, Write, Take, Expire, Copy, ClearFlag, Unlock, ReadOk,
           ReadError, HandleAside, TakeLine, AppendLine, MatchWait, MatchError,
           SetOk, SetError, vars
  <2> QED
    BY <2>1 DEF Signal, QuietInv, WorkerQuiet
<1> QED
  BY <1>1, <1>2, <1>3, PTL DEF Spec, SignalOnlyWhileSending

=============================================================================
