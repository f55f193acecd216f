---------------------------- MODULE AtModemProofs ----------------------------
(***************************************************************************)
(* Theorems about AtModem: what a call returns when the modem behaves.     *)
(*                                                                         *)
(* Two things are assumed of the modem and its commands wherever results   *)
(* matter: the lines behind the one that ends a wait are kept from the     *)
(* waiter (QuietAfter), and no command waits for the empty string          *)
(* (NonEmpty). The order of the outcome and the signal, and of the signal  *)
(* and the look at the outcome, then hold for any number of callers of any *)
(* priority up to the unlock; that the outcome is still there behind the   *)
(* unlock needs that there is one caller (OneCaller).                      *)
(***************************************************************************)
EXTENDS AtModem, AtWaiterProofs

\* A line the code keeps from the waiter whatever its flags.
Quiet(l) == IsReady(l) \/ "+MSUB:" \in Has[l]

QuietAfter == \A k \in Cmds : \A l \in After[k] : Quiet(l)
NonEmpty == \A k \in Cmds : WaitStr[k] # "" /\ ErrStr[k] # ""
OneCaller == \A c, d \in Callers : c = d

-----------------------------------------------------------------------------
(* AtModem is a special case of AtWaiter.                                  *)

\* Every step with a modem is a step of AtWaiter.
LEMMA ModemStep == [MNext]_mvars => [Next]_vars
<1> SUFFICES ASSUME MNext PROVE Next
  BY DEF mvars
<1>1. CASE CodeStep
  BY <1>1 DEF CodeStep, Next, Environment, Exchange
<1>2. CASE \E c \in Callers : Command(c) \/ GiveUp(c)
  BY <1>2 DEF Command, GiveUp, Next, Exchange
<1>3. CASE \E l \in Lines : ReplyLine(l) \/ LastLine(l) \/ AfterLine(l) \/ Urc(l)
  BY <1>3 DEF ReplyLine, LastLine, AfterLine, Urc, Receive, Next, Environment
<1> QED
  BY <1>1, <1>2, <1>3 DEF MNext

\* What AtWaiter promises for a modem that sends anything at any time holds for
\* one that behaves.
THEOREM ModemIsCase == MSpec => Spec
<1>1. MInit => Init
  BY DEF MInit
<1> QED
  BY <1>1, ModemStep, PTL DEF MSpec, Spec

-----------------------------------------------------------------------------
(* The invariant up to the unlock, for any number of callers.              *)

\* From the end of the wait to the unlock.
Leaving == {"copy", "clear_flag", "unlock"}
Reading == {"read_ok", "read_error"}

\* The outcome bits say r.
BitsAre(r) ==
    /\ response_ok <=> r = "OK"
    /\ response_error <=> r = "ERROR"

\* The response bears out the answer r to command k.
Carries(response, r, k) ==
    /\ r = "OK" => \E l \in response : WaitStr[k] \in Has[l]
    /\ r = "ERROR" =>
         /\ \E l \in response : ErrStr[k] \in Has[l]
         /\ \A l \in response : WaitStr[k] \notin Has[l]

\* The modem works on the command of a caller that waits, and the caller leaves
\* the wait only with an answer.
AskedInv ==
    /\ asked \in Callers \cup {NoOne}
    /\ reply \in [Callers -> {"none", "OK", "ERROR", "TIMEOUT"}]
    /\ asked # NoOne => pc[asked] = "wait" /\ reply[asked] = "none"
    /\ \A c \in Callers :
         /\ pc[c] = "wait" /\ asked # c => reply[c] \in {"OK", "ERROR"}
         /\ pc[c] \in Leaving \cup Reading => reply[c] # "none"

\* While no one waits, the worker is at its queue and the semaphore is empty.
\* What the modem still owes does not reach the waiter.
RestInv ==
    /\ (\A c \in Callers : pc[c] # "wait") => wpc = "recv" /\ done = 0
    /\ \A l \in owed : Quiet(l)

\* What a caller has reset stays reset until its command is written.
ResetInv ==
    \A c \in Callers :
        /\ pc[c] \in {"clear_error", "clear_response", "set_error_str",
                      "set_wait_str", "write"} => ~response_ok
        /\ pc[c] \in {"clear_response", "set_error_str", "set_wait_str", "write"}
               => ~response_error
        /\ pc[c] \in {"set_error_str", "set_wait_str", "write"} => at_response = {}

\* Before the last line of the reply nothing in the response ends the wait.
AskingInv ==
    asked # NoOne =>
        /\ wpc \in {"recv", "append", "match_wait", "match_error"}
        /\ mute => wpc = "recv"
        /\ done = 0
        /\ ~response_ok
        /\ ~response_error
        /\ \A l \in at_response : Meaningless(l)
        /\ wpc = "append" => Meaningless(line)

\* The last line on its way through the worker, for a caller that waits for r,
\* the answer to k.
OnItsWay(r, k) ==
    /\ wpc \in WorkerPCs
    /\ wpc # "recv" => done = 0
    /\ wpc \in {"append", "match_wait", "match_error", "set_ok", "set_error"}
         => ~response_ok /\ ~response_error
    /\ wpc = "append" =>
         /\ \A l \in at_response : Meaningless(l)
         /\ Carries({line}, r, k)
    /\ wpc \notin {"append", "recv"} => Carries(at_response, r, k)
    /\ wpc \in {"match_error", "set_error"} => r = "ERROR"
    /\ wpc = "set_ok" => r = "OK"
    /\ wpc = "signal" => BitsAre(r)
    /\ wpc = "recv" /\ done = 1 => BitsAre(r) /\ Carries(at_response, r, k)

AnsweredInv ==
    \A c \in Callers : pc[c] = "wait" /\ asked # c => OnItsWay(reply[c], cmd[c])

\* The line caller c waited for is in the response.
Delivered(c, response) ==
    reply[c] = "OK" => \E l \in response : WaitStr[cmd[c]] \in Has[l]

\* From the end of its wait to the unlock a caller finds its own outcome, and
\* its own response.
LeavingInv ==
    \A c \in Callers :
        pc[c] \in Leaving =>
            /\ BitsAre(reply[c])
            /\ Delivered(c, at_response)
            /\ pc[c] # "copy" /\ c \in Roomy => Delivered(c, response_buf[c])

\* The inductive invariant behind the theorems.
ExchangeInv ==
    /\ AskedInv
    /\ RestInv
    /\ ResetInv
    /\ AskingInv
    /\ AnsweredInv
    /\ LeavingInv

\* What AtWaiter's own proofs give.
BaseInv == TypeOK /\ WakeInv

\* BaseInv holds at first and is preserved by every step with a modem.
LEMMA BaseHolds == MSpec => []BaseInv
<1>1. MInit => BaseInv
  BY InitType, InitWake DEF MInit, BaseInv
<1>2. BaseInv /\ [MNext]_mvars => BaseInv'
  BY ModemStep, NextType, NextWake DEF BaseInv
<1> QED
  BY <1>1, <1>2, PTL DEF MSpec

\* At first no one waits and nothing is owed.
LEMMA InitExchange == MInit => ExchangeInv
BY CallersAssumption
   DEF MInit, Init, ExchangeInv, AskedInv, RestInv, ResetInv, AskingInv,
       AnsweredInv, LeavingInv, Leaving, Reading

\* A caller between the lock and the unlock is alone there.
LEMMA Alone ==
    ASSUME BaseInv, NEW c \in Callers, pc[c] \in Locked, NEW d \in Callers, d # c
    PROVE  pc[d] \notin Locked
BY OneHolder DEF BaseInv, WakeInv

\* While a caller sets up its exchange no one waits or leaves, so only ResetInv
\* is at stake.
LEMMA NextSetup ==
    ASSUME BaseInv, ExchangeInv, NEW c \in Callers, UNCHANGED modem,
           \/ Lock(c) \/ SetFlag(c) \/ ClearOk(c) \/ ClearError(c)
           \/ ClearResponse(c) \/ SetErrorStr(c) \/ SetWaitStr(c)
    PROVE  ExchangeInv'
<1> USE DEF callers, waiter, worker, modem
<1>1. /\ pc \in [Callers -> CallerPCs] /\ pc' = [pc EXCEPT ![c] = pc'[c]]
      /\ UNCHANGED <<cmd, response_buf, done, wpc, line>>
      /\ pc'[c] \in {"set_flag", "clear_ok", "clear_error", "clear_response",
                     "set_error_str", "set_wait_str", "write"}
  BY DEF BaseInv, TypeOK, Lock, SetFlag, ClearOk, ClearError, ClearResponse,
         SetErrorStr, SetWaitStr, Goto
<1>2. \A d \in Callers : d # c => pc[d] \notin Locked
  <2>1. CASE Lock(c)
    BY <2>1, CallersAssumption DEF Lock, BaseInv, WakeInv, SendingFlagExact
  <2>2. CASE ~Lock(c)
    <3>1. pc[c] \in Locked
      BY <2>2 DEF SetFlag, ClearOk, ClearError, ClearResponse, SetErrorStr,
                  SetWaitStr, Goto, Locked
    <3> QED
      BY <3>1, Alone
  <2> QED
    BY <2>1, <2>2
<1>3. /\ pc[c] \notin {"wait"} \cup Leaving
      /\ \A d \in Callers : pc'[d] \notin {"wait"} \cup Leaving
      /\ \A d \in Callers : pc[d] \notin {"wait"} \cup Leaving
  <2>1. pc[c] \notin {"wait"} \cup Leaving
    BY DEF Lock, SetFlag, ClearOk, ClearError, ClearResponse, SetErrorStr,
           SetWaitStr, Goto, Leaving
  <2> QED
    BY <1>1, <1>2, <2>1 DEF Leaving, Locked
<1>4. asked = NoOne /\ wpc = "recv" /\ done = 0
  BY <1>3 DEF ExchangeInv, AskedInv, RestInv
<1>5. AskedInv'
  BY <1>1, <1>3, <1>4 DEF ExchangeInv, AskedInv, Reading, Leaving
<1>6. RestInv'
  BY <1>1, <1>4 DEF ExchangeInv, RestInv, Quiet, IsReady
<1>7. ResetInv'
  BY <1>1, <1>2
     DEF ExchangeInv, ResetInv, Locked, Lock, SetFlag, ClearOk, ClearError,
         ClearResponse, SetErrorStr, SetWaitStr, Goto
<1>8. AskingInv' /\ AnsweredInv' /\ LeavingInv'
  BY <1>3, <1>4 DEF AskingInv, AnsweredInv, LeavingInv
<1> QED
  BY <1>5, <1>6, <1>7, <1>8 DEF ExchangeInv

\* A command goes out to a modem that has nothing left to send, from a waiter
\* that has been reset.
LEMMA NextCommand ==
    ASSUME BaseInv, ExchangeInv, NEW c \in Callers, Command(c) PROVE ExchangeInv'
<1> USE DEF callers, waiter, worker, Command, Write, Goto
<1>1. /\ pc \in [Callers -> CallerPCs] /\ pc[c] = "write"
      /\ pc' = [pc EXCEPT ![c] = "wait"]
      /\ reply \in [Callers -> {"none", "OK", "ERROR", "TIMEOUT"}]
  BY DEF BaseInv, TypeOK, ExchangeInv, AskedInv
<1>2. \A d \in Callers : d # c => pc'[d] = pc[d] /\ pc[d] \notin Locked
  BY <1>1, Alone DEF Locked
<1>3. /\ wpc = "recv" /\ done = 0 /\ ~response_ok /\ ~response_error
      /\ at_response = {}
  <2>1. \A d \in Callers : pc[d] # "wait"
    BY <1>1, <1>2 DEF Locked
  <2> QED
    BY <1>1, <2>1 DEF ExchangeInv, RestInv, ResetInv
<1>4. AskedInv'
  BY <1>1, <1>2, CallersAssumption
     DEF ExchangeInv, AskedInv, Locked, Leaving, Reading
<1>5. RestInv' /\ ResetInv'
  BY <1>1, <1>2, <1>3 DEF RestInv, ResetInv, Locked
<1>6. AskingInv'
  BY <1>3 DEF AskingInv
<1>7. AnsweredInv' /\ LeavingInv'
  BY <1>1, <1>2 DEF AnsweredInv, LeavingInv, Leaving, Locked
<1> QED
  BY <1>4, <1>5, <1>6, <1>7 DEF ExchangeInv

\* Time runs out only for the command of a modem that stays silent, and that
\* has left the outcome bits alone.
LEMMA NextGiveUp ==
    ASSUME BaseInv, ExchangeInv, NEW c \in Callers, GiveUp(c) PROVE ExchangeInv'
<1> USE DEF callers, waiter, worker, GiveUp, Expire, Goto
<1>1. /\ pc \in [Callers -> CallerPCs] /\ pc[c] = "wait"
      /\ pc' = [pc EXCEPT ![c] = "copy"]
      /\ reply \in [Callers -> {"none", "OK", "ERROR", "TIMEOUT"}]
      /\ reply'[c] = "TIMEOUT"
  BY DEF BaseInv, TypeOK, ExchangeInv, AskedInv
<1>2. \A d \in Callers : d # c => pc'[d] = pc[d] /\ pc[d] \notin Locked
  BY <1>1, Alone DEF Locked
<1>3. asked # NoOne
  BY CallersAssumption
<1>4. wpc = "recv" /\ done = 0 /\ ~response_ok /\ ~response_error
  BY <1>3 DEF ExchangeInv, AskingInv
<1>5. AskedInv'
  BY <1>1, <1>2, <1>3 DEF ExchangeInv, AskedInv, Locked, Leaving, Reading
<1>6. RestInv' /\ ResetInv' /\ AskingInv'
  BY <1>1, <1>2, <1>4
     DEF ExchangeInv, RestInv, ResetInv, AskingInv, Locked, Quiet, IsReady
<1>7. AnsweredInv' /\ LeavingInv'
  BY <1>1, <1>2, <1>4
     DEF AnsweredInv, LeavingInv, Leaving, Locked, BitsAre, Delivered
<1> QED
  BY <1>5, <1>6, <1>7 DEF ExchangeInv

\* A caller that takes the semaphore finds the outcome the worker stored before
\* it gave it.
LEMMA NextTake ==
    ASSUME BaseInv, ExchangeInv, NEW c \in Callers, Take(c), UNCHANGED modem
    PROVE  ExchangeInv'
<1> USE DEF callers, waiter, worker, modem, Take, Goto
<1>1. /\ pc \in [Callers -> CallerPCs] /\ pc[c] = "wait" /\ done = 1
      /\ pc' = [pc EXCEPT ![c] = "copy"]
  BY DEF BaseInv, TypeOK
<1>2. \A d \in Callers : d # c => pc'[d] = pc[d] /\ pc[d] \notin Locked
  BY <1>1, Alone DEF Locked
<1>3. asked = NoOne
  BY <1>1 DEF ExchangeInv, AskingInv
<1>4. OnItsWay(reply[c], cmd[c]) /\ reply[c] \in {"OK", "ERROR"}
  BY <1>1, <1>3, CallersAssumption DEF ExchangeInv, AnsweredInv, AskedInv
<1>5. wpc = "recv" /\ BitsAre(reply[c]) /\ Carries(at_response, reply[c], cmd[c])
  BY <1>1, <1>4 DEF OnItsWay
<1>6. AskedInv'
  BY <1>1, <1>2, <1>3, <1>4 DEF ExchangeInv, AskedInv, Locked, Leaving, Reading
<1>7. RestInv' /\ ResetInv' /\ AskingInv'
  BY <1>1, <1>2, <1>3, <1>5
     DEF ExchangeInv, RestInv, ResetInv, AskingInv, Locked, Quiet, IsReady
<1>8. AnsweredInv' /\ LeavingInv'
  BY <1>1, <1>2, <1>5
     DEF AnsweredInv, LeavingInv, Leaving, Locked, BitsAre, Delivered, Carries
<1> QED
  BY <1>6, <1>7, <1>8 DEF ExchangeInv

\* On the way to the unlock the waiter is left alone, and the response goes to
\* the caller's buffer.
LEMMA NextLeave ==
    ASSUME BaseInv, ExchangeInv, NEW c \in Callers, UNCHANGED modem,
           Copy(c) \/ ClearFlag(c) \/ Unlock(c)
    PROVE  ExchangeInv'
<1> USE DEF callers, waiter, worker, modem
<1>1. /\ pc \in [Callers -> CallerPCs] /\ pc[c] \in Leaving
      /\ pc' = [pc EXCEPT ![c] = pc'[c]]
      /\ pc'[c] \in {"clear_flag", "unlock", "read_ok"}
      /\ UNCHANGED <<cmd, done, waiter, worker>>
  BY DEF BaseInv, TypeOK, Copy, ClearFlag, Unlock, Goto, Leaving
<1>2. \A d \in Callers : d # c => pc'[d] = pc[d] /\ pc[d] \notin Locked
  BY <1>1, Alone DEF Locked, Leaving
<1>3. /\ \A d \in Callers : pc[d] # "wait" /\ pc'[d] # "wait"
      /\ asked = NoOne /\ wpc = "recv" /\ done = 0
  BY <1>1, <1>2 DEF ExchangeInv, RestInv, AskedInv, Locked, Leaving
<1>4. AskedInv'
  BY <1>1, <1>2, <1>3 DEF ExchangeInv, AskedInv, Locked, Leaving, Reading
<1>5. RestInv' /\ ResetInv' /\ AskingInv' /\ AnsweredInv'
  BY <1>1, <1>2, <1>3
     DEF ExchangeInv, RestInv, ResetInv, AskingInv, AnsweredInv, Locked, Leaving,
         Quiet, IsReady
<1>6. LeavingInv'
  <2> SUFFICES ASSUME NEW d \in Callers, pc'[d] \in Leaving
               PROVE  /\ BitsAre(reply[d])'
                      /\ Delivered(d, at_response)'
                      /\ pc'[d] # "copy" /\ d \in Roomy
                           => Delivered(d, response_buf[d])'
    BY DEF LeavingInv
  <2>1. d = c
    BY <1>2 DEF Leaving, Locked
  <2>2. BitsAre(reply[c]) /\ Delivered(c, at_response)
    BY <1>1 DEF ExchangeInv, LeavingInv
  <2>3. BitsAre(reply[d])' /\ Delivered(d, at_response)'
    BY <1>1, <2>1, <2>2 DEF BitsAre, Delivered
  <2>4. CASE Copy(c)
    <3>1. ASSUME c \in Roomy PROVE at_response \subseteq response_buf'[c]
      <4>1. \A buf \in Copies(c) : at_response \subseteq buf
        BY <3>1 DEF Copies
      <4>2. c \in Buffered
        BY <3>1, CallersAssumption
      <4>3. PICK buf \in Copies(c) : response_buf' = [response_buf EXCEPT ![c] = buf]
        BY <2>4, <4>2 DEF Copy
      <4> QED
        BY <4>1, <4>3 DEF BaseInv, TypeOK
    <3> QED
      BY <1>1, <2>1, <2>2, <2>3, <3>1 DEF Delivered
  <2>5. CASE ClearFlag(c)
    BY <1>1, <2>1, <2>3, <2>5
       DEF ClearFlag, Goto, ExchangeInv, LeavingInv, Leaving, Delivered
  <2>6. CASE Unlock(c)
    BY <1>1, <2>1, <2>6 DEF Unlock, Goto, Leaving
  <2> QED
    BY <2>4, <2>5, <2>6
<1> QED
  BY <1>4, <1>5, <1>6 DEF ExchangeInv

\* A caller outside the lock leaves alone what the others rely on.
LEMMA NextOutside ==
    ASSUME BaseInv, ExchangeInv, UNCHANGED modem,
           \/ CoreInitialized
           \/ \E c \in Callers : \/ Refuse(c) \/ \E k \in Cmds : Call(c, k)
                                 \/ ReadOk(c) \/ ReadError(c)
    PROVE  ExchangeInv'
<1> USE DEF callers, waiter, worker, modem
<1> DEFINE Aside(d) ==
             \/ pc'[d] = pc[d] /\ cmd'[d] = cmd[d]
             \/ /\ pc[d] \notin Locked /\ pc'[d] \in {"idle", "lock", "read_error"}
                /\ pc'[d] = "read_error" => pc[d] = "read_ok"
<1>1. UNCHANGED <<response_buf, done, waiter, worker>> /\ \A d \in Callers : Aside(d)
  <2>1. CASE CoreInitialized
    BY <2>1 DEF CoreInitialized
  <2>2. CASE \E c \in Callers : Refuse(c) \/ \E k \in Cmds : Call(c, k)
    BY <2>2 DEF BaseInv, TypeOK, Refuse, Call, Goto, Locked
  <2>3. CASE \E c \in Callers : ReadOk(c) \/ ReadError(c)
    BY <2>3 DEF BaseInv, TypeOK, ReadOk, ReadError, Goto, Locked
  <2> QED
    BY <2>1, <2>2, <2>3
<1>2. AskedInv'
  BY <1>1 DEF ExchangeInv, AskedInv, Locked, Leaving, Reading
<1>3. RestInv'
  BY <1>1 DEF ExchangeInv, RestInv, Locked, Quiet, IsReady
<1>4. ResetInv'
  BY <1>1 DEF ExchangeInv, ResetInv
<1>5. AskingInv'
  BY <1>1 DEF ExchangeInv, AskingInv, Meaningless, Answers
<1>6. AnsweredInv'
  BY <1>1 DEF ExchangeInv, AnsweredInv, OnItsWay, BitsAre, Carries, Meaningless, Answers
<1>7. LeavingInv'
  BY <1>1 DEF ExchangeInv, LeavingInv, Leaving, BitsAre, Delivered
<1> QED
  BY <1>2, <1>3, <1>4, <1>5, <1>6, <1>7 DEF ExchangeInv

\* The worker moves only while a caller waits, and takes the line that ends the
\* wait, and no other, to the signal.
LEMMA NextWorker ==
    ASSUME NonEmpty, BaseInv, ExchangeInv, WorkerStep, UNCHANGED modem
    PROVE  ExchangeInv'
<1> USE DEF callers, waiter, worker, modem
<1>0. UNCHANGED <<callers, flags, lock, at_wait_string, at_error_string>>
  BY DEF WorkerStep, AppendLine, MatchWait, MatchError, SetOk, SetError, Signal
<1>1. PICK c \in Callers : pc[c] = "wait"
  BY DEF WorkerStep, AppendLine, MatchWait, MatchError, SetOk, SetError, Signal,
         ExchangeInv, RestInv
<1>2. \A d \in Callers : d # c => pc[d] \notin Locked
  BY <1>1, Alone DEF Locked
<1>3. AskedInv'
  BY <1>0 DEF ExchangeInv, AskedInv
<1>4. RestInv'
  BY <1>0, <1>1 DEF ExchangeInv, RestInv, Quiet, IsReady
<1>5. ResetInv' /\ LeavingInv'
  BY <1>0, <1>1, <1>2 DEF ResetInv, LeavingInv, Locked, Leaving
<1>6. /\ at_wait_string = WaitStr[cmd[c]] /\ at_error_string = ErrStr[cmd[c]]
      /\ at_wait_string # "" /\ at_error_string # ""
      /\ cmd[c] \in Cmds
  BY <1>1 DEF NonEmpty, BaseInv, WakeInv, Armed, TypeOK
<1>7. ASSUME asked # NoOne PROVE AskingInv' /\ AnsweredInv'
  <2>1. asked = c
    BY <1>1, <1>2, <1>7 DEF ExchangeInv, AskedInv, Locked
  <2>2. AnsweredInv'
    BY <1>0, <1>2, <2>1 DEF AnsweredInv, Locked
  <2>3. /\ wpc \in {"append", "match_wait", "match_error"} /\ ~mute
        /\ done = 0 /\ ~response_ok /\ ~response_error
        /\ \A l \in at_response : Meaningless(l)
        /\ wpc = "append" => Meaningless(line)
    BY <1>7 DEF WorkerStep, AppendLine, MatchWait, MatchError, SetOk, SetError,
                Signal, ExchangeInv, AskingInv
  <2>4. CASE AppendLine
    BY <2>2, <2>3, <2>4 DEF AppendLine, AskingInv, Meaningless, Answers
  <2>5. ~Found(at_response, at_wait_string) /\ ~Found(at_response, at_error_string)
    BY <1>6, <2>3 DEF Found, Meaningless, Answers
  <2>6. CASE MatchWait \/ MatchError
    BY <2>2, <2>3, <2>5, <2>6 DEF MatchWait, MatchError, AskingInv, Meaningless, Answers
  <2>7. CASE SetOk \/ SetError \/ Signal
    BY <2>3, <2>7 DEF SetOk, SetError, Signal
  <2> QED
    BY <2>2, <2>4, <2>6, <2>7 DEF WorkerStep
<1>8. ASSUME asked = NoOne PROVE AskingInv' /\ AnsweredInv'
  <2> DEFINE r == reply[c]
             k == cmd[c]
  <2>1. AskingInv'
    BY <1>8 DEF AskingInv
  <2>2. OnItsWay(r, k) /\ r \in {"OK", "ERROR"}
    BY <1>1, <1>8, CallersAssumption DEF ExchangeInv, AnsweredInv, AskedInv
  <2>3. k \in Cmds /\ at_wait_string = WaitStr[k] /\ at_error_string = ErrStr[k]
    BY <1>6
  <2>4. r' = r /\ k' = k
    BY <1>0
  <2> HIDE DEF r, k
  <2>5. OnItsWay(r, k)'
    <3>1. CASE AppendLine
      BY <2>2, <2>3, <2>4, <3>1
         DEF AppendLine, OnItsWay, Carries, WorkerPCs, Meaningless, Answers
    <3>2. CASE MatchWait
      <4>1. r = "OK" <=> Found(at_response, at_wait_string)
        BY <1>6, <2>2, <2>3, <3>2 DEF MatchWait, OnItsWay, Carries, Found
      <4> QED
        BY <2>2, <2>4, <3>2, <4>1 DEF MatchWait, OnItsWay, Carries, WorkerPCs
    <3>3. CASE MatchError
      <4>1. Found(at_response, at_error_string)
        BY <1>6, <2>2, <2>3, <3>3 DEF MatchError, OnItsWay, Carries, Found
      <4> QED
        BY <2>2, <2>4, <3>3, <4>1 DEF MatchError, OnItsWay, Carries, WorkerPCs
    <3>4. CASE SetOk \/ SetError
      BY <2>2, <2>4, <3>4
         DEF SetOk, SetError, OnItsWay, Carries, WorkerPCs, BitsAre
    <3>5. CASE Signal
      BY <2>2, <2>4, <3>5 DEF Signal, OnItsWay, Carries, WorkerPCs, BitsAre
    <3> QED
      BY <3>1, <3>2, <3>3, <3>4, <3>5 DEF WorkerStep
  <2>6. AnsweredInv'
    BY <1>0, <1>1, <1>2, <2>4, <2>5 DEF AnsweredInv, Locked, r, k
  <2> QED
    BY <2>1, <2>6
<1> QED
  BY <1>3, <1>4, <1>5, <1>7, <1>8 DEF ExchangeInv

\* A line that is handled aside changes nothing the invariant speaks of; while
\* a caller waits, one that is taken finds the flag set.
LEMMA NextLine ==
    ASSUME QuietAfter, BaseInv, ExchangeInv, NEW l \in Lines,
           ReplyLine(l) \/ LastLine(l) \/ AfterLine(l) \/ Urc(l)
    PROVE  ExchangeInv'
<1> USE DEF callers, waiter, worker, modem, Receive
<1>0. /\ UNCHANGED <<callers, lock, done, waiter>>
      /\ HandleAside(l) \/ TakeLine(l)
  BY DEF ReplyLine, LastLine, AfterLine, Urc, HandleAside, TakeLine
<1>1. wpc = "recv"
  BY <1>0 DEF HandleAside, TakeLine
<1>2. CASE Urc(l) \/ AfterLine(l)
  <2>1. HandleAside(l) /\ UNCHANGED <<asked, mute, reply>> /\ owed' \subseteq owed
    BY <1>0, <1>2 DEF Urc, AfterLine, TakeLine, ExchangeInv, RestInv, Quiet, IsUrc
  <2>2. AskedInv' /\ RestInv'
    BY <1>0, <2>1 DEF ExchangeInv, AskedInv, RestInv, HandleAside, Quiet, IsReady
  <2>3. AskingInv' /\ AnsweredInv'
    BY <1>0, <2>1 DEF ExchangeInv, AskingInv, AnsweredInv, OnItsWay, BitsAre,
                      Carries, HandleAside, Meaningless, Answers
  <2>4. ResetInv' /\ LeavingInv'
    BY <1>0, <2>1 DEF ExchangeInv, ResetInv, LeavingInv, BitsAre, Delivered
  <2> QED
    BY <2>2, <2>3, <2>4 DEF ExchangeInv
<1>3. CASE ReplyLine(l)
  <2>1. asked # NoOne /\ pc[asked] = "wait" /\ asked \in Callers /\ UNCHANGED modem
    BY <1>3 DEF ReplyLine, ExchangeInv, AskedInv
  <2>2. AskedInv' /\ RestInv' /\ ResetInv' /\ LeavingInv'
    BY <1>0, <2>1 DEF ExchangeInv, AskedInv, RestInv, Quiet, IsReady, ResetInv,
                      LeavingInv, BitsAre, Delivered
  <2>3. wpc' \in {"recv", "append"} /\ (wpc' = "append" => line' = l) /\ ~mute
        /\ Meaningless(l)
    BY <1>0, <1>3 DEF ReplyLine, HandleAside, TakeLine
  <2>4. AskingInv'
    BY <1>0, <2>1, <2>3 DEF ExchangeInv, AskingInv, Meaningless, Answers
  <2>5. AnsweredInv'
    <3>1. \A d \in Callers : d # asked => pc[d] # "wait"
      BY <2>1, Alone DEF Locked
    <3> QED
      BY <1>0, <2>1, <3>1 DEF AnsweredInv
  <2> QED
    BY <2>2, <2>4, <2>5 DEF ExchangeInv
<1>4. CASE LastLine(l)
  <2>1. PICK c \in Callers : c = asked
    BY <1>4 DEF LastLine, ExchangeInv, AskedInv
  <2>2. PICK k \in Cmds : k = cmd[c]
    BY DEF BaseInv, TypeOK
  <2>3. PICK r \in {"OK", "ERROR"} : r = IF WaitStr[k] \in Has[l] THEN "OK" ELSE "ERROR"
    OBVIOUS
  <2>4. /\ pc[c] = "wait" /\ asked' = NoOne /\ Answers(l, k)
        /\ reply' = [reply EXCEPT ![c] = r] /\ reply'[c] = r /\ cmd'[c] = k
    BY <1>0, <1>4, <2>1, <2>2, <2>3 DEF LastLine, ExchangeInv, AskedInv
  <2>5. \A d \in Callers : d # c => pc[d] \notin Locked
    BY <2>4, Alone DEF Locked
  <2>6. AskedInv'
    BY <1>0, <2>4, <2>5, CallersAssumption
       DEF ExchangeInv, AskedInv, Locked, Leaving, Reading
  <2>7. RestInv'
    BY <1>0, <1>4, <2>1, <2>2, <2>4 DEF LastLine, RestInv, QuietAfter, Quiet, IsReady
  <2>8. ResetInv' /\ LeavingInv' /\ AskingInv'
    BY <1>0, <2>4, <2>5 DEF ResetInv, LeavingInv, AskingInv, Locked, Leaving
  <2>9. OnItsWay(r, k)'
    <3>1. /\ done = 0 /\ ~response_ok /\ ~response_error
          /\ \A m \in at_response : Meaningless(m)
      BY <1>4 DEF LastLine, ExchangeInv, AskingInv
    <3>2. Carries({l}, r, k)
      BY <2>3, <2>4 DEF Carries, Answers
    <3>3. wpc' = "recv" \/ (wpc' = "append" /\ line' = l)
      BY <1>0 DEF HandleAside, TakeLine
    <3> QED
      BY <1>0, <3>1, <3>2, <3>3 DEF OnItsWay, WorkerPCs, Carries, Meaningless, Answers
  <2>10. AnsweredInv'
    BY <1>0, <2>4, <2>5, <2>9 DEF AnsweredInv, Locked
  <2> QED
    BY <2>6, <2>7, <2>8, <2>10 DEF ExchangeInv
<1> QED
  BY <1>2, <1>3, <1>4

\* Every step keeps the exchange in order, up to the unlock.
LEMMA NextExchange ==
    ASSUME QuietAfter, NonEmpty PROVE BaseInv /\ ExchangeInv /\ [MNext]_mvars => ExchangeInv'
<1> SUFFICES ASSUME BaseInv, ExchangeInv, [MNext]_mvars PROVE ExchangeInv'
  OBVIOUS
<1>1. CASE CodeStep /\ UNCHANGED modem
  BY <1>1, NextOutside, NextSetup, NextTake, NextLeave, NextWorker DEF CodeStep
<1>2. CASE \E c \in Callers : Command(c) \/ GiveUp(c)
  BY <1>2, NextCommand, NextGiveUp
<1>3. CASE \E l \in Lines : ReplyLine(l) \/ LastLine(l) \/ AfterLine(l) \/ Urc(l)
  BY <1>3, NextLine
<1>4. CASE UNCHANGED mvars
  BY <1>4 DEF mvars, vars, callers, waiter, worker, modem, ExchangeInv, AskedInv,
              RestInv, ResetInv, AskingInv, AnsweredInv, LeavingInv, OnItsWay,
              BitsAre, Carries, Delivered, Meaningless, Answers, Quiet, IsReady
<1> QED
  BY <1>1, <1>2, <1>3, <1>4 DEF MNext

\* The invariant holds for any number of callers.
LEMMA ExchangeHolds ==
    ASSUME QuietAfter, NonEmpty PROVE MSpec => [](BaseInv /\ ExchangeInv)
BY BaseHolds, InitExchange, NextExchange, PTL DEF MSpec

\* Until it unlocks, each of any number of callers finds the outcome bits as
\* the modem answered its own command: reading them before the unlock
\* would be enough to return the right result.
OutcomeUnderLock ==
    \A c \in Callers : pc[c] \in {"copy", "clear_flag", "unlock"} => BitsAre(reply[c])

\* The reset behind the lock, the outcome before the signal and the unlock behind
\* the copy keep another caller's outcome from a caller up to its unlock.
THEOREM OutcomeHeld == ASSUME QuietAfter, NonEmpty PROVE MSpec => []OutcomeUnderLock
<1>1. ExchangeInv => OutcomeUnderLock
  BY DEF ExchangeInv, LeavingInv, Leaving, OutcomeUnderLock
<1> QED
  BY <1>1, ExchangeHolds, PTL

\* No caller leaves the wait by a signal left over from an earlier call, however
\* many callers of whatever priority there are.
THEOREM ResponseAwaited == ASSUME QuietAfter, NonEmpty PROVE MSpec => WaitsForResponse
<1> DEFINE Awaited == \A c \in Callers :
             pc[c] = "wait" /\ pc'[c] = "copy" /\ done = 1 => reply[c] # "none"
<1>1. BaseInv /\ ExchangeInv => [Awaited]_mvars
  <2> SUFFICES ASSUME ExchangeInv, NEW c \in Callers, pc[c] = "wait", done = 1
               PROVE  reply[c] # "none"
    OBVIOUS
  <2>1. asked # c
    BY CallersAssumption DEF ExchangeInv, AskingInv
  <2> QED
    BY <2>1 DEF ExchangeInv, AskedInv
<1> QED
  BY <1>1, ExchangeHolds, PTL DEF WaitsForResponse

-----------------------------------------------------------------------------
(* One caller: what it returns.                                            *)

\* Behind the unlock the outcome is still the caller's own, and what it returned
\* and finds in its buffer stays as it was answered.
ReadingInv ==
    \A c \in Callers :
        /\ pc[c] \in Reading =>
             /\ BitsAre(reply[c])
             /\ c \in Roomy => Delivered(c, response_buf[c])
        /\ pc[c] = "read_error" => ~response_ok
        /\ pc[c] # "idle" => result[c] = "none"
        /\ Returned(c) =>
             /\ result[c] = reply[c]
             /\ c \in Roomy => Delivered(c, response_buf[c])

\* The steps of the caller between the lock and the unlock.
LEMMA NextReadingLocked ==
    ASSUME OneCaller, BaseInv, ExchangeInv, ReadingInv, NEW c \in Callers,
           \/ Command(c) \/ GiveUp(c)
           \/ /\ \/ Lock(c) \/ SetFlag(c) \/ ClearOk(c) \/ ClearError(c)
                 \/ ClearResponse(c) \/ SetErrorStr(c) \/ SetWaitStr(c)
                 \/ Take(c) \/ Copy(c) \/ ClearFlag(c) \/ Unlock(c)
              /\ UNCHANGED modem
    PROVE  ReadingInv'
<1> USE DEF callers, waiter, worker, modem
<1>1. \A d \in Callers : d = c
  BY DEF OneCaller
<1>2. /\ pc \in [Callers -> CallerPCs] /\ pc' = [pc EXCEPT ![c] = pc'[c]]
      /\ pc[c] # "idle" /\ pc'[c] \notin {"idle", "read_error"}
      /\ result' = result
  BY DEF BaseInv, TypeOK, Command, Write, GiveUp, Expire, Lock, SetFlag, ClearOk,
         ClearError, ClearResponse, SetErrorStr, SetWaitStr, Take, Copy,
         ClearFlag, Unlock, Goto
<1>3. ASSUME pc'[c] \in Reading
      PROVE  BitsAre(reply[c])' /\ (c \in Roomy => Delivered(c, response_buf[c]))'
  <2>1. Unlock(c) /\ UNCHANGED modem
    BY <1>3 DEF Command, Write, GiveUp, Expire, Lock, SetFlag, ClearOk, ClearError,
                ClearResponse, SetErrorStr, SetWaitStr, Take, Copy, ClearFlag,
                Unlock, Goto, Reading, BaseInv, TypeOK
  <2>2. pc[c] = "unlock"
    BY <2>1 DEF Unlock, Goto
  <2>3. BitsAre(reply[c]) /\ (c \in Roomy => Delivered(c, response_buf[c]))
    BY <2>2 DEF ExchangeInv, LeavingInv, Leaving
  <2> QED
    BY <2>1, <2>3 DEF Unlock, BitsAre, Delivered
<1> QED
  BY <1>1, <1>2, <1>3 DEF ReadingInv, Returned

\* The steps of the caller outside the lock.
LEMMA NextReadingOutside ==
    ASSUME OneCaller, BaseInv, ExchangeInv, ReadingInv, UNCHANGED modem,
           \/ CoreInitialized
           \/ \E c \in Callers : \/ Refuse(c) \/ \E k \in Cmds : Call(c, k)
                                 \/ ReadOk(c) \/ ReadError(c)
    PROVE  ReadingInv'
<1> USE DEF callers, waiter, worker, modem
<1>1. CASE CoreInitialized
  BY <1>1 DEF CoreInitialized, ReadingInv, Returned, BitsAre, Delivered
<1>2. ASSUME NEW c \in Callers, Refuse(c) \/ \E k \in Cmds : Call(c, k)
      PROVE  ReadingInv'
  <2>1. \A d \in Callers : d = c
    BY DEF OneCaller
  <2> QED
    BY <1>2, <2>1 DEF Refuse, Call, Goto, BaseInv, TypeOK, ReadingInv, Returned, Reading
<1>3. ASSUME NEW c \in Callers, ReadOk(c) \/ ReadError(c) PROVE ReadingInv'
  <2>1. \A d \in Callers : d = c
    BY DEF OneCaller
  <2>2. /\ pc[c] \in Reading /\ BitsAre(reply[c])
        /\ c \in Roomy => Delivered(c, response_buf[c])
        /\ reply[c] \in {"OK", "ERROR", "TIMEOUT"}
        /\ UNCHANGED <<cmd, response_buf, reply, response_ok, response_error>>
    BY <1>3 DEF ReadOk, ReadError, Goto, Reading, ReadingInv, ExchangeInv, AskedInv
  <2>3. BitsAre(reply[c])' /\ (c \in Roomy => Delivered(c, response_buf[c]))'
    BY <2>2 DEF BitsAre, Delivered
  <2>4. CASE ReadOk(c) /\ response_ok
    BY <2>1, <2>2, <2>3, <2>4
       DEF ReadOk, Goto, BitsAre, BaseInv, TypeOK, ReadingInv, Returned, Reading
  <2>5. CASE ReadOk(c) /\ ~response_ok
    <3>1. pc'[c] = "read_error"
      BY <2>5 DEF ReadOk, Goto, BaseInv, TypeOK
    <3>2. ~response_ok'
      BY <2>2, <2>5
    <3>3. result'[c] = "none"
      BY <2>5 DEF ReadOk, Goto, BaseInv, TypeOK, ReadingInv
    <3> QED
      BY <2>1, <2>3, <3>1, <3>2, <3>3 DEF ReadingInv, Returned
  <2>6. CASE ReadError(c)
    BY <2>1, <2>2, <2>3, <2>6
       DEF ReadError, Goto, BitsAre, BaseInv, TypeOK, ReadingInv, Returned, Reading
  <2> QED
    BY <1>3, <2>4, <2>5, <2>6
<1> QED
  BY <1>1, <1>2, <1>3

\* The steps of worker and modem: only while the caller waits do they touch its
\* outcome.
LEMMA NextReadingOthers ==
    ASSUME OneCaller, BaseInv, ExchangeInv, ReadingInv,
           \/ WorkerStep /\ UNCHANGED modem
           \/ \E l \in Lines : ReplyLine(l) \/ LastLine(l) \/ AfterLine(l) \/ Urc(l)
    PROVE  ReadingInv'
<1> USE DEF callers, waiter, worker, modem
<1>1. UNCHANGED callers
  BY DEF WorkerStep, AppendLine, MatchWait, MatchError, SetOk, SetError, Signal,
         ReplyLine, LastLine, AfterLine, Urc, Receive, TakeLine, HandleAside
<1>2. CASE \E c \in Callers : pc[c] = "wait"
  BY <1>1, <1>2 DEF OneCaller, ReadingInv, Returned, Reading
<1>3. CASE \A c \in Callers : pc[c] # "wait"
  <2>1. wpc = "recv" /\ asked = NoOne
    BY <1>3 DEF ExchangeInv, RestInv, AskedInv
  <2>2. UNCHANGED <<reply, response_ok, response_error>>
    BY <2>1 DEF WorkerStep, AppendLine, MatchWait, MatchError, SetOk, SetError,
                Signal, ReplyLine, LastLine, AfterLine, Urc, Receive, TakeLine,
                HandleAside
  <2> QED
    BY <1>1, <2>2 DEF ReadingInv, Returned, BitsAre, Delivered
<1> QED
  BY <1>2, <1>3

\* With one caller nothing disturbs an outcome before it is read.
LEMMA ReadingHolds ==
    ASSUME QuietAfter, NonEmpty, OneCaller
    PROVE  MSpec => [](BaseInv /\ ExchangeInv /\ ReadingInv)
<1>1. MInit => ReadingInv
  BY DEF MInit, Init, ReadingInv, Reading, Returned
<1>2. BaseInv /\ ExchangeInv /\ ReadingInv /\ [MNext]_mvars => ReadingInv'
  <2> SUFFICES ASSUME BaseInv, ExchangeInv, ReadingInv, [MNext]_mvars
               PROVE  ReadingInv'
    OBVIOUS
  <2>1. CASE UNCHANGED mvars
    BY <2>1 DEF mvars, vars, callers, waiter, modem, ReadingInv, Returned,
                BitsAre, Delivered
  <2> QED
    BY <2>1, NextReadingLocked, NextReadingOutside, NextReadingOthers
       DEF MNext, CodeStep
<1> QED
  BY <1>1, <1>2, ExchangeHolds, PTL DEF MSpec

\* The only caller returns what the modem answered to its command.
THEOREM ReplyReturned ==
    ASSUME QuietAfter, NonEmpty, OneCaller PROVE MSpec => []ResultIsReply
<1>1. ReadingInv => ResultIsReply
  BY DEF ReadingInv, ResultIsReply
<1> QED
  BY <1>1, ReadingHolds, PTL

\* A call that returns LWLTE_OK has delivered the line it waited for.
THEOREM ResponseDelivered ==
    ASSUME QuietAfter, NonEmpty, OneCaller PROVE MSpec => []AnswerDelivered
<1>1. ReadingInv => AnswerDelivered
  BY CallersAssumption DEF ReadingInv, AnswerDelivered, Delivered, Found
<1> QED
  BY <1>1, ReadingHolds, PTL

-----------------------------------------------------------------------------
(* The exchange implements AtExchange.                                     *)

\* The calls that nobody sees from outside keep their phase.
LEMMA StepsUnseen ==
    ASSUME BaseInv, ExchangeInv, UNCHANGED modem,
           \/ CoreInitialized \/ WorkerStep
           \/ \E c \in Callers :
                \/ Lock(c) \/ SetFlag(c) \/ ClearOk(c) \/ ClearError(c)
                \/ ClearResponse(c) \/ SetErrorStr(c) \/ SetWaitStr(c)
                \/ Take(c) \/ Copy(c) \/ ClearFlag(c) \/ Unlock(c)
                \/ ReadOk(c) /\ ~response_ok
    PROVE  UNCHANGED Promise!vars
<1> USE DEF callers, waiter, worker, modem
<1>1. CASE CoreInitialized \/ WorkerStep
  BY <1>1 DEF CoreInitialized, WorkerStep, AppendLine, MatchWait, MatchError, SetOk,
              SetError, Signal, Promise!vars, Phase
<1>2. ASSUME NEW c \in Callers,
             \/ Lock(c) \/ SetFlag(c) \/ ClearOk(c) \/ ClearError(c)
             \/ ClearResponse(c) \/ SetErrorStr(c) \/ SetWaitStr(c)
      PROVE  UNCHANGED Promise!vars
  BY <1>2 DEF Lock, SetFlag, ClearOk, ClearError, ClearResponse, SetErrorStr,
              SetWaitStr, Goto, BaseInv, TypeOK, Promise!vars, Phase
<1>3. ASSUME NEW c \in Callers,
             \/ Take(c) \/ Copy(c) \/ ClearFlag(c) \/ Unlock(c)
             \/ ReadOk(c) /\ ~response_ok
      PROVE  UNCHANGED Promise!vars
  <2>1. result' = result /\ reply' = reply
    BY <1>3 DEF Take, Copy, ClearFlag, Unlock, ReadOk, BaseInv, TypeOK
  <2>2. \A d \in Callers : Phase(d)' = Phase(d)
    BY <1>3 DEF Take, Copy, ClearFlag, Unlock, ReadOk, Goto, BaseInv, TypeOK, Phase
  <2> QED
    BY <2>1, <2>2 DEF Promise!vars
<1> QED
  BY <1>1, <1>2, <1>3

\* A call that is refused or begins.
LEMMA StepsBegin ==
    ASSUME BaseInv, UNCHANGED modem, NEW c \in Callers,
           Refuse(c) \/ \E k \in Cmds : Call(c, k)
    PROVE  Promise!Refuse(c) \/ Promise!Request(c)
<1> USE DEF callers, waiter, worker, modem
<1>1. CASE Refuse(c)
  BY <1>1 DEF Refuse, Goto, BaseInv, TypeOK, Phase, Promise!Refuse, Promise!Refusals
<1>2. CASE \E k \in Cmds : Call(c, k)
  BY <1>2 DEF Call, Goto, BaseInv, TypeOK, Phase, Promise!Request
<1> QED
  BY <1>1, <1>2

\* The command goes out to a modem that works on no other.
LEMMA StepsAsk ==
    ASSUME BaseInv, ExchangeInv, NEW c \in Callers, Command(c) PROVE Promise!Ask(c)
<1> USE DEF Command, Write, Goto
<1>1. pc[c] = "write" /\ pc' = [pc EXCEPT ![c] = "wait"] /\ asked = NoOne
  OBVIOUS
<1>2. /\ pc \in [Callers -> CallerPCs] /\ result' = result
      /\ reply \in [Callers -> {"none", "OK", "ERROR", "TIMEOUT"}]
      /\ reply' = [reply EXCEPT ![c] = "none"]
  BY DEF BaseInv, TypeOK, ExchangeInv, AskedInv, callers
<1>3. \A d \in Callers : Phase(d) # "asking"
  BY <1>1, CallersAssumption
     DEF ExchangeInv, AskedInv, Phase, Leaving, Reading
<1>4. Phase(c) = "queued" /\ Phase(c)' = "asking"
  BY <1>1, <1>2 DEF Phase
<1>5. \A d \in Callers : d # c => Phase(d)' = Phase(d)
  BY <1>1, <1>2 DEF Phase
<1> QED
  BY <1>2, <1>3, <1>4, <1>5 DEF Promise!Ask

\* The last line of a reply, or the end of the time.
LEMMA StepsAnswer ==
    ASSUME BaseInv, ExchangeInv,
           (\E c \in Callers : GiveUp(c)) \/ \E l \in Lines : LastLine(l)
    PROVE  \E c \in Callers, a \in Promise!Answers : Promise!Answer(c, a)
<1>1. PICK c \in Callers : c = asked
  BY CallersAssumption DEF GiveUp, LastLine, ExchangeInv, AskedInv
<1>2. PICK a \in {"OK", "ERROR", "TIMEOUT"} : reply' = [reply EXCEPT ![c] = a]
  BY <1>1 DEF GiveUp, LastLine
<1>3. /\ pc \in [Callers -> CallerPCs] /\ pc[c] = "wait" /\ result' = result
      /\ (pc' = pc) \/ pc' = [pc EXCEPT ![c] = "copy"]
      /\ reply \in [Callers -> {"none", "OK", "ERROR", "TIMEOUT"}] /\ reply[c] = "none"
  BY <1>1, CallersAssumption
     DEF GiveUp, Expire, Goto, LastLine, Receive, TakeLine, HandleAside, callers,
         BaseInv, TypeOK, ExchangeInv, AskedInv
<1>4. Phase(c) = "asking" /\ Phase(c)' = "answered"
  BY <1>2, <1>3 DEF Phase
<1>5. \A d \in Callers : d # c => Phase(d)' = Phase(d)
  BY <1>2, <1>3 DEF Phase
<1>6. Promise!Answer(c, a)
  BY <1>2, <1>3, <1>4, <1>5 DEF Promise!Answer
<1> QED
  BY <1>2, <1>6 DEF Promise!Answers

\* The outcome bits that are read say what the modem answered.
LEMMA StepsReturn ==
    ASSUME BaseInv, ExchangeInv, ReadingInv, UNCHANGED modem, NEW c \in Callers,
           (ReadOk(c) /\ response_ok) \/ ReadError(c)
    PROVE  Promise!Return(c)
<1> USE DEF callers, waiter, worker, modem
<1>1. /\ pc \in [Callers -> CallerPCs] /\ pc[c] \in Reading
      /\ pc' = [pc EXCEPT ![c] = "idle"]
      /\ reply \in [Callers -> {"none", "OK", "ERROR", "TIMEOUT"}]
      /\ reply[c] # "none" /\ reply' = reply
  BY DEF ReadOk, ReadError, Goto, BaseInv, TypeOK, ExchangeInv, AskedInv, Reading
<1>2. BitsAre(reply[c]) /\ (pc[c] = "read_error" => ~response_ok)
  BY <1>1 DEF ReadingInv
<1>3. result' = [result EXCEPT ![c] = reply[c]]
  <2>1. CASE ReadOk(c) /\ response_ok
    BY <1>2, <2>1 DEF ReadOk, BitsAre
  <2>2. CASE ReadError(c)
    BY <1>1, <1>2, <2>2 DEF ReadError, Goto, BitsAre
  <2> QED
    BY <2>1, <2>2
<1>4. Phase(c) = "answered" /\ Phase(c)' = "idle"
  BY <1>1 DEF Phase, Reading
<1>5. \A d \in Callers : d # c => Phase(d)' = Phase(d)
  BY <1>1 DEF Phase
<1> QED
  BY <1>1, <1>3, <1>4, <1>5 DEF Promise!Return

\* With one caller every step of the exchange is a step of what it promises, or
\* is not seen from outside.
LEMMA StepsKeepPromise ==
    BaseInv /\ ExchangeInv /\ ReadingInv /\ [MNext]_mvars => [Promise!Next]_(Promise!vars)
<1> SUFFICES ASSUME BaseInv, ExchangeInv, ReadingInv, [MNext]_mvars
             PROVE  Promise!Next \/ UNCHANGED Promise!vars
  OBVIOUS
<1>1. CASE CodeStep /\ UNCHANGED modem
  <2>1. ASSUME NEW c \in Callers, Refuse(c) \/ \E k \in Cmds : Call(c, k)
        PROVE  Promise!Next
    BY <1>1, <2>1, StepsBegin DEF Promise!Next
  <2>2. ASSUME NEW c \in Callers, (ReadOk(c) /\ response_ok) \/ ReadError(c)
        PROVE  Promise!Next
    BY <1>1, <2>2, StepsReturn DEF Promise!Next
  <2> QED
    BY <1>1, <2>1, <2>2, StepsUnseen DEF CodeStep
<1>2. ASSUME NEW c \in Callers, Command(c) PROVE Promise!Next
  BY <1>2, StepsAsk DEF Promise!Next
<1>3. CASE (\E c \in Callers : GiveUp(c)) \/ \E l \in Lines : LastLine(l)
  BY <1>3, StepsAnswer DEF Promise!Next
<1>4. CASE \E l \in Lines : ReplyLine(l) \/ AfterLine(l) \/ Urc(l)
  BY <1>4 DEF ReplyLine, AfterLine, Urc, Receive, TakeLine, HandleAside, callers,
              modem, Phase, Promise!vars
<1>5. CASE UNCHANGED mvars
  BY <1>5 DEF mvars, vars, callers, modem, Phase, Promise!vars
<1> QED
  BY <1>1, <1>2, <1>3, <1>4, <1>5 DEF MNext

\* lwlte_core_send_at_cmd_internal, called by one task of whatever priority,
\* implements AtExchange.
THEOREM KeepsPromise ==
    ASSUME QuietAfter, NonEmpty, OneCaller PROVE MSpec => ImplementsExchange
<1>1. MInit => Promise!Init
  BY DEF MInit, Init, Phase, Promise!Init
<1> QED
  BY <1>1, ReadingHolds, StepsKeepPromise, PTL DEF MSpec, ImplementsExchange, Promise!Spec

=============================================================================
