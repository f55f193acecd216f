-------------------------- MODULE MqttClientProofs --------------------------
(***************************************************************************)
(* What the context of the MQTT client holds, for every set of strings in  *)
(* the configuration, every tick rate, width and limit.                    *)
(***************************************************************************)
EXTENDS MqttClient, CoreWaitsProofs

\* The variables of the client have their types.
ClientTypes ==
    /\ mpc \in {"idle", "ready", "send", "reply"}
    /\ strs \in [Strs -> {"null", "text", "empty", "freed"}]
    /\ ints \subseteq WillInts
    /\ client_flags \in BOOLEAN /\ will \in BOOLEAN
    /\ response_buf \in {"unset", "empty", "copied"}
    /\ fault \in BOOLEAN /\ leaked \in BOOLEAN
    /\ careful \in BOOLEAN /\ open \in BOOLEAN /\ deinited \in BOOLEAN
    /\ given \in [strs : SUBSET Strs, will : BOOLEAN]

\* A pointer once set is never NULL again.
GivenKept == given.strs = {s \in Strs : strs[s] # "null"}

\* A careful caller's copies are all there, or all gone.
CopiesKept ==
    careful => \A s \in Strs :
        IF open THEN strs[s] # "freed" ELSE strs[s] \in {"null", "freed"}

\* The will the context holds, if nothing of it was freed.
WillHeld == (\A s \in WillStrings : strs[s] = "text") /\ ints = WillInts

\* From a careful caller's deinit on, the context holds its last will.
WillKept ==
    careful /\ deinited => IF open THEN given.will <=> WillHeld ELSE ints = {}

ClientInv ==
    /\ ClientTypes
    /\ GivenKept
    /\ CopiesKept
    /\ CarefulUseSafe
    /\ WillKept
    /\ WillFollowsConfig
    /\ mpc \in {"send", "reply"} => open

\* The buffer of init is written with what was received for its command, if anything
\* was, and read before anything else is received.
BufferKept ==
    /\ mpc = "reply" => response_buf # "unset"
    /\ mpc = "reply" /\ response_buf = "copied" => text # {}

\* Behind Send init waits for the reply to its command, or has it.
Replying == mpc = "reply" => pc \in {"command", "idle"}

\* The inductive invariant: the waits', the client's, and its buffer's.
MInv ==
    /\ WaitInv
    /\ ClientInv
    /\ result \in Results
         \cup {"none", "ESP_OK", "ESP_FAIL", "ESP_ERR_INVALID_ARG", "ESP_ERR_NOT_ALLOWED"}
    /\ Replying
    /\ BufferKept

-----------------------------------------------------------------------------
(* The context.                                                            *)

\* The context of the client is empty at first.
LEMMA ClientStart == MInit => ClientInv
<1> SUFFICES ASSUME MInit PROVE ClientInv
  OBVIOUS
<1>1. strs = [s \in Strs |-> "null"]
  BY DEF MInit
<1>2. ClientTypes
  BY <1>1 DEF MInit, ClientTypes
<1>3. GivenKept /\ CopiesKept
  BY <1>1 DEF MInit, GivenKept, CopiesKept
<1> QED
  BY <1>2, <1>3 DEF MInit, ClientInv, CarefulUseSafe, WillKept, WillFollowsConfig

\* A step that leaves the context and the caller's record alone.
LEMMA ClientQuiet ==
    ASSUME ClientInv, UNCHANGED <<context, memory, caller>>,
           mpc' \in {"idle", "ready"} \/ UNCHANGED <<mpc, will>>,
           will' \in BOOLEAN, response_buf' \in {"unset", "empty", "copied"}
    PROVE  ClientInv'
<1>1. UNCHANGED <<strs, ints, client_flags, fault, leaked, careful, open, deinited, given>>
  BY DEF context, memory, caller
<1>2. ClientTypes'
  BY <1>1 DEF ClientInv, ClientTypes
<1>3. GivenKept' /\ CopiesKept' /\ CarefulUseSafe' /\ WillKept'
  BY <1>1 DEF ClientInv, GivenKept, CopiesKept, CarefulUseSafe, WillKept, WillHeld
<1> QED
  BY <1>1, <1>2, <1>3 DEF ClientInv, WillFollowsConfig

\* A configuration is copied.
LEMMA ClientConfigure == ASSUME ClientInv, Configure PROVE ClientInv'
<1>1. PICK c \in Configs :
        /\ Copy(c)
        /\ leaked' = (leaked \/ \E s \in Set(c) : strs[s] \in {"text", "empty"})
        /\ careful' = (careful /\ ~open /\ given.strs \subseteq Set(c))
        /\ given' = [strs |-> given.strs \cup Set(c), will |-> HasWill(c)]
  BY DEF Configure
<1>2. c.strs \in [Strs -> {"null", "text", "empty"}] /\ c.ints \in SUBSET WillInts
  BY DEF Configs
<1>3. /\ strs' = [s \in Strs |-> IF s \in Set(c) THEN c.strs[s] ELSE strs[s]]
      /\ ints' = ints \cup c.ints
  BY <1>1 DEF Copy
<1>4. mpc' = "send" /\ client_flags' = TRUE /\ open' = TRUE /\ UNCHANGED <<will, response_buf, fault, deinited>>
  BY DEF Configure
<1>5. \A s \in Strs : s \in Set(c) <=> c.strs[s] # "null"
  BY DEF Set
<1>6. Set(c) \subseteq Strs
  BY DEF Set
<1>7. careful' => careful /\ ~open /\ \A s \in Strs : strs[s] # "null" => s \in Set(c)
  BY <1>1 DEF ClientInv, GivenKept
<1>8. ClientTypes'
  <2>1. strs' \in [Strs -> {"null", "text", "empty", "freed"}]
    BY <1>2, <1>3 DEF ClientInv, ClientTypes
  <2>2. ints' \subseteq WillInts
    BY <1>2, <1>3 DEF ClientInv, ClientTypes
  <2>3. leaked' \in BOOLEAN /\ careful' \in BOOLEAN
    BY <1>1
  <2>4. given' \in [strs : SUBSET Strs, will : BOOLEAN]
    BY <1>1, <1>6 DEF ClientInv, ClientTypes, HasWill
  <2> QED
    BY <1>4, <2>1, <2>2, <2>3, <2>4 DEF ClientInv, ClientTypes
<1>9. GivenKept'
  BY <1>1, <1>2, <1>3, <1>5, <1>6 DEF ClientInv, GivenKept
<1>10. \A s \in Strs : careful' => strs'[s] = c.strs[s]
  BY <1>3, <1>5, <1>7
<1>11. CopiesKept'
  BY <1>2, <1>4, <1>10 DEF CopiesKept
<1>12. CarefulUseSafe'
  BY <1>1, <1>4, <1>6, <1>7 DEF ClientInv, CarefulUseSafe, CopiesKept
<1>13. WillKept'
  <2> SUFFICES ASSUME careful', deinited' PROVE given'.will <=> WillHeld'
    BY <1>4 DEF WillKept
  <2>1. ints' = c.ints
    BY <1>3, <1>4, <1>7 DEF ClientInv, WillKept
  <2>2. \A s \in WillStrings : strs'[s] = c.strs[s]
    BY <1>10 DEF Strs
  <2>3. given'.will <=> HasWill(c)
    BY <1>1
  <2> QED
    BY <2>1, <2>2, <2>3 DEF HasWill, WillHeld
<1> QED
  BY <1>4, <1>8, <1>9, <1>11, <1>12, <1>13 DEF ClientInv, WillFollowsConfig

\* The command is composed: of a careful caller's copies, nothing was freed.
LEMMA ClientSend == ASSUME ClientInv, Send PROVE ClientInv'
<1>1. PICK topic \in Content("will_topic"), message \in Content("will_message") :
        LET read == {"client_id", "will_topic"} \cup Extras
                    \cup (IF topic = "text" THEN {"will_message"} ELSE {})
        IN  /\ will' = (topic = "text" /\ message = "text" /\ ints = WillInts)
            /\ fault' = (fault \/ \E s \in read : strs[s] = "freed")
  BY DEF Send
<1>2. /\ mpc = "send" /\ mpc' = "reply" /\ open
      /\ response_buf' = "empty"
      /\ UNCHANGED <<strs, ints, client_flags, leaked, careful, open, deinited, given>>
  BY DEF Send, ClearBuffer, ClientInv, context, caller
<1>3. careful => \A s \in Strs : strs[s] # "freed"
  BY <1>2 DEF ClientInv, CopiesKept
<1>4. {"will_topic", "will_message", "client_id"} \cup Extras \subseteq Strs
  BY DEF Strs, WillStrings, Necessary
<1>5. ClientTypes'
  <2>1. will' \in BOOLEAN /\ fault' \in BOOLEAN
    BY <1>1
  <2> QED
    BY <1>2, <2>1 DEF ClientInv, ClientTypes
<1>6. CarefulUseSafe'
  BY <1>1, <1>2, <1>3, <1>4 DEF ClientInv, CarefulUseSafe
<1>7. GivenKept' /\ CopiesKept' /\ WillKept'
  BY <1>2 DEF ClientInv, GivenKept, CopiesKept, WillKept, WillHeld
<1>8. WillFollowsConfig'
  <2> SUFFICES ASSUME careful, deinited PROVE will' <=> given.will
    BY <1>2 DEF WillFollowsConfig
  <2>1. topic = strs["will_topic"] /\ message = strs["will_message"]
    BY <1>1, <1>3, <1>4 DEF Content
  <2>2. will' <=> WillHeld
    BY <1>1, <2>1 DEF WillHeld, WillStrings
  <2> QED
    BY <1>2, <2>2 DEF ClientInv, WillKept
<1> QED
  BY <1>2, <1>5, <1>6, <1>7, <1>8 DEF ClientInv

\* Everything is released.
LEMMA ClientDeinit == ASSUME ClientInv, Deinit PROVE ClientInv'
<1>1. /\ strs' = [s \in Strs |-> IF strs[s] = "null" THEN "null" ELSE "freed"]
      /\ ints' = {} /\ client_flags' = FALSE
      /\ fault' = \E s \in Strs : strs[s] = "freed"
      /\ careful' = (careful /\ (open \/ given.strs = {}))
      /\ open' = FALSE /\ deinited' = TRUE /\ mpc' = "idle"
      /\ UNCHANGED <<will, response_buf, leaked, given>>
  BY DEF Deinit, Release, Finish
<1>2. ClientTypes'
  BY <1>1 DEF ClientInv, ClientTypes
<1>3. GivenKept' /\ CopiesKept'
  BY <1>1 DEF ClientInv, GivenKept, CopiesKept
<1>4. careful' => \A s \in Strs : strs[s] # "freed"
  BY <1>1 DEF ClientInv, GivenKept, CopiesKept
<1>5. CarefulUseSafe'
  BY <1>1, <1>4 DEF ClientInv, CarefulUseSafe
<1> QED
  BY <1>1, <1>2, <1>3, <1>5 DEF ClientInv, WillKept, WillFollowsConfig

\* After a restart the context is what it was at first.
LEMMA ClientReset == ASSUME MReset PROVE ClientInv'
<1>1. /\ strs' = [s \in Strs |-> "null"] /\ mpc' = "idle"
      /\ given' = [strs |-> {}, will |-> FALSE]
      /\ ints' = WillInts /\ careful' = TRUE /\ open' = FALSE /\ deinited' = FALSE
      /\ fault' = FALSE /\ leaked' = FALSE
      /\ client_flags' = FALSE /\ will' = FALSE /\ response_buf' = "unset"
  BY DEF MReset
<1>2. ClientTypes'
  BY <1>1 DEF ClientTypes
<1>3. GivenKept' /\ CopiesKept'
  BY <1>1 DEF GivenKept, CopiesKept
<1> QED
  BY <1>1, <1>2, <1>3 DEF ClientInv, CarefulUseSafe, WillKept, WillFollowsConfig

-----------------------------------------------------------------------------
(* Every step keeps the invariant.                                         *)

\* A function of the client that returns leaves the core's waits alone.
LEMMA FinishKeeps ==
    ASSUME MInv, NEW err, Finish(err)
    PROVE  /\ WaitInv' /\ mpc' = "idle" /\ text' = {}
           /\ result' \in {"ESP_OK", "ESP_FAIL", "ESP_ERR_INVALID_ARG", "ESP_ERR_NOT_ALLOWED"}
<1>1. text' \subseteq Lines /\ UNCHANGED <<core, pc, clocks>>
  BY DEF Finish
<1>2. WaitInv'
  BY <1>1, WaitQuiet DEF MInv
<1> QED
  BY <1>2 DEF Finish, EspErr

\* A step of the core leaves the client alone, and its results are known.
LEMMA CoreKeeps ==
    ASSUME MInv, Environment \/ Calls \/ Step
    PROVE  /\ WaitInv'
           /\ result' \in Results \cup {"none"} \/ result' = result
<1>1. WaitInv'
  BY WaitEnvironment, WaitCall, WaitStepKeeps DEF MInv
<1>2. CASE Environment
  BY <1>1, <1>2 DEF MInv, Environment, Create, Raise, Receive
<1>3. CASE Calls
  BY <1>1, <1>3 DEF MInv, Calls, Refuse, SignalUnknown, SignalStrength, Get, Wait, Command,
     Return, Block, Results
<1>4. CASE Step
  BY <1>1, <1>4 DEF MInv, Step, Pass, Wake, Read, Reply, Strength, Return, Results
<1> QED
  BY <1>2, <1>3, <1>4

\* While init waits for the reply, or has it, nothing is taken off what was received,
\* and no other function of the core is called.
LEMMA BufferWaits ==
    ASSUME MInv, MEnvironment \/ CoreCall \/ WaitStep
    PROVE  BufferKept'
<1>1. CASE MEnvironment
  BY <1>1 DEF MEnvironment, Environment, Create, Raise, Receive, clientVars, MInv, BufferKept
<1>2. CASE CoreCall
  BY <1>2 DEF CoreCall, clientVars, BufferKept
<1>3. CASE WaitStep
  <2> SUFFICES ASSUME mpc = "reply" PROVE BufferKept'
    BY <1>3 DEF WaitStep, BufferKept
  <2>1. CASE Strength
    BY <1>3, <2>1 DEF MInv, Replying, Strength
  <2>2. CASE Pass \/ Wake \/ Read \/ Reply
    <3>1. text' = text
      BY <2>2 DEF Pass, Wake, Read, Reply
    <3> QED
      BY <1>3, <3>1 DEF WaitStep, MInv, BufferKept
  <2> QED
    BY <1>3, <2>1, <2>2 DEF WaitStep, Step
<1> QED
  BY <1>1, <1>2, <1>3

\* Init is at its command from Send on, and at no other.
LEMMA ReplyWaits ==
    ASSUME MInv, MEnvironment \/ CoreCall \/ WaitStep
    PROVE  Replying'
<1>1. CASE MEnvironment
  BY <1>1 DEF MEnvironment, Environment, Create, Raise, Receive, clientVars, MInv, Replying
<1>2. CASE CoreCall
  BY <1>2 DEF CoreCall, clientVars, Replying
<1>3. CASE WaitStep
  BY <1>3 DEF WaitStep, Step, Pass, Wake, Read, Reply, Strength, Return, MInv, Replying
<1> QED
  BY <1>1, <1>2, <1>3

\* The invariant holds at first.
LEMMA MStart == MInit => MInv
<1> SUFFICES ASSUME MInit PROVE MInv
  OBVIOUS
<1>1. ClientInv /\ WaitInv
  BY ClientStart, WaitInit DEF MInit
<1> QED
  BY <1>1 DEF MInit, MInv, Init, Replying, BufferKept

\* The invariant is inductive.
LEMMA MStep == MInv /\ [MNext]_mvars => MInv'
<1> SUFFICES ASSUME MInv, [MNext]_mvars PROVE MInv'
  OBVIOUS
<1>0. ClientInv /\ ClientTypes
  BY DEF MInv, ClientInv
<1>1. CASE MEnvironment \/ CoreCall
  <2>1. UNCHANGED clientVars /\ (Environment \/ Calls)
    BY <1>1 DEF MEnvironment, CoreCall
  <2>2. ClientInv'
    BY <1>0, <2>1, ClientQuiet DEF clientVars, ClientTypes
  <2>3. Replying' /\ BufferKept'
    BY <1>1, BufferWaits, ReplyWaits
  <2> QED
    BY <2>1, <2>2, <2>3, CoreKeeps DEF MInv
<1>2. CASE WaitStep
  <2>1. Step /\ UNCHANGED <<mpc, context, will, memory, caller>>
    BY <1>2 DEF WaitStep
  <2>2. response_buf' \in {"unset", "empty", "copied"}
    BY <1>0, <1>2 DEF WaitStep, ClientTypes
  <2>3. ClientInv'
    BY <1>0, <2>1, <2>2, ClientQuiet DEF ClientTypes
  <2>4. Replying' /\ BufferKept'
    BY <1>2, BufferWaits, ReplyWaits
  <2> QED
    BY <2>1, <2>3, <2>4, CoreKeeps DEF MInv
<1>3. CASE Invalid \/ Stub \/ NotReady
  <2>1. (\E err : Finish(err)) /\ UNCHANGED <<context, will, response_buf, memory, caller>>
    BY <1>3 DEF Invalid, Stub, NotReady
  <2>2. /\ WaitInv' /\ mpc' = "idle"
        /\ result' \in {"ESP_OK", "ESP_FAIL", "ESP_ERR_INVALID_ARG", "ESP_ERR_NOT_ALLOWED"}
    BY <2>1, FinishKeeps
  <2>3. ClientInv'
    BY <1>0, <2>1, <2>2, ClientQuiet DEF ClientTypes
  <2> QED
    BY <2>2, <2>3 DEF MInv, Replying, BufferKept
<1>4. CASE ClientInit
  <2>1. /\ Refuse \/ \E ms \in Limits : Wait("MODULE_READY", ms)
        /\ mpc' = "ready"
        /\ UNCHANGED <<context, will, response_buf, memory, caller>>
    BY <1>4 DEF ClientInit
  <2>2. Calls
    BY <2>1, LimitAssumption DEF Calls, Awaitable
  <2>3. ClientInv'
    BY <1>0, <2>1, ClientQuiet DEF ClientTypes
  <2> QED
    BY <2>1, <2>2, <2>3, CoreKeeps DEF MInv, Replying, BufferKept
<1>5. CASE Configure
  <2>1. WaitInv'
    BY <1>5, WaitQuiet DEF Configure, vars, MInv, WaitInv, WaitsTypeOK
  <2>2. mpc' = "send" /\ result' = result
    BY <1>5 DEF Configure, vars
  <2> QED
    BY <1>0, <1>5, <2>1, <2>2, ClientConfigure DEF MInv, Replying, BufferKept
<1>6. CASE Send
  <2>1. Command("command", CommandMs) /\ mpc' = "reply" /\ response_buf' = "empty"
    BY <1>6 DEF Send, ClearBuffer
  <2>2. WaitInv'
    BY <2>1, WaitCommand, MqttAssumption DEF MInv, Commands
  <2>3. pc' = "command" /\ result' = "none"
    BY <2>1 DEF Command, Block
  <2>4. ClientInv'
    BY <1>0, <1>6, ClientSend
  <2> QED
    BY <2>1, <2>2, <2>3, <2>4 DEF MInv, Replying, BufferKept
<1>7. CASE Conclude
  <2>1. /\ \E err : Finish(err)
        /\ UNCHANGED <<context, memory, caller>>
        /\ will' \in BOOLEAN /\ response_buf' = "unset"
    BY <1>7 DEF Conclude
  <2>2. /\ WaitInv' /\ mpc' = "idle"
        /\ result' \in {"ESP_OK", "ESP_FAIL", "ESP_ERR_INVALID_ARG", "ESP_ERR_NOT_ALLOWED"}
    BY <2>1, FinishKeeps
  <2>3. ClientInv'
    BY <1>0, <2>1, <2>2, ClientQuiet
  <2> QED
    BY <2>2, <2>3 DEF MInv, Replying, BufferKept
<1>8. CASE Deinit
  <2>1. Finish("OK")
    BY <1>8 DEF Deinit
  <2> QED
    BY <1>0, <1>8, <2>1, FinishKeeps, ClientDeinit DEF MInv, Replying, BufferKept
<1>9. CASE MReset
  <2>1. WaitInv' /\ ClientInv'
    BY <1>9, WaitReset, ClientReset DEF MReset, MInv
  <2>2. mpc' = "idle" /\ result' = "none"
    BY <1>9 DEF MReset, Reset, Panic, BringUpPanic, Restart, Return
  <2> QED
    BY <2>1, <2>2 DEF MInv, Replying, BufferKept
<1>10. CASE UNCHANGED mvars
  <2>1. UNCHANGED vars /\ UNCHANGED clientVars
    BY <1>10 DEF mvars
  <2>2. WaitInv'
    BY <2>1, WaitQuiet DEF vars, MInv, WaitInv, WaitsTypeOK
  <2>3. ClientInv'
    BY <1>0, <2>1, ClientQuiet DEF clientVars, ClientTypes
  <2> QED
    BY <2>1, <2>2, <2>3 DEF MInv, vars, clientVars, Replying, BufferKept
<1> QED
  BY <1>1, <1>2, <1>3, <1>4, <1>5, <1>6, <1>7, <1>8, <1>9, <1>10 DEF MNext, InitStep

\* The invariant holds always.
THEOREM MqttInvariant == MSpec => []MInv
BY MStart, MStep, PTL DEF MSpec

-----------------------------------------------------------------------------
(* The properties.                                                         *)

\* Every variable has its type, the limits within their widths: no wait is ever
\* given more ticks than its type holds.
THEOREM MTypesCorrect == MSpec => []MTypeOK
<1>1. MInv => MTypeOK
  BY DEF MInv, WaitInv, ClientInv, ClientTypes, MTypeOK
<1> QED
  BY <1>1, MqttInvariant, PTL

\* A wait that runs out has lasted as long as it should, within two ticks.
THEOREM LimitsKept == MSpec => []LimitKept
<1>1. MInv => LimitKept
  BY InvLimitKept DEF MInv
<1> QED
  BY <1>1, MqttInvariant, PTL

\* A wait for a flag with any time at all blocks.
THEOREM ShortWaitsBlock == MSpec => []ShortWaitBlocks
<1>1. MInv => ShortWaitBlocks
  BY InvShortWaitBlocks DEF MInv
<1> QED
  BY <1>1, MqttInvariant, PTL

\* The careful caller's client touches no freed memory and loses none.
THEOREM CarefulUse == MSpec => []CarefulUseSafe
<1>1. MInv => CarefulUseSafe
  BY DEF MInv, ClientInv
<1> QED
  BY <1>1, MqttInvariant, PTL

\* Behind a deinit the careful caller's will is that of its configuration.
THEOREM WillFollows == MSpec => []WillFollowsConfig
<1>1. MInv => WillFollowsConfig
  BY DEF MInv, ClientInv
<1> QED
  BY <1>1, MqttInvariant, PTL

\* Only the second look at a flag returns from a wait for one, but for a restart.
LEMMA OnlyRead ==
    ASSUME pc = "read", pc' = "idle", [MNext]_mvars
    PROVE  Read \/ result' = "none"
<1>1. CASE WaitStep
  BY <1>1 DEF WaitStep, Step, Pass, Waiting, Wake, Reply, Strength
<1>2. CASE MEnvironment
  BY <1>2 DEF MEnvironment, Environment, Create, Raise, Receive
<1>3. CASE CoreCall
  BY <1>3 DEF CoreCall, Calls, Refuse, SignalUnknown, SignalStrength, Command, Get, Wait
<1>4. CASE Invalid \/ ClientInit \/ Deinit \/ Stub
  BY <1>4 DEF Invalid, ClientInit, Deinit, Stub, Usable, Idle
<1>5. CASE InitStep
  BY <1>5 DEF InitStep, NotReady, Configure, Send, Command, Conclude
<1>6. CASE MReset
  BY <1>6 DEF MReset, Reset, Panic, BringUpPanic, Restart, Return
<1>7. CASE UNCHANGED mvars
  BY <1>7 DEF mvars, vars
<1> QED
  BY <1>1, <1>2, <1>3, <1>4, <1>5, <1>6, <1>7 DEF MNext

\* A wait for a flag without limit is never told that the time is up.
THEOREM NoLimitHeld == MSpec => NoLimitNoTimeout
<1>1. MInv /\ [MNext]_mvars => [pc = "read" /\ pc' = "idle" /\ limit = -1 => result' # "TIMEOUT"]_vars
  BY OnlyRead, InvRead DEF MInv
<1> QED
  BY <1>1, MqttInvariant, PTL DEF MSpec, NoLimitNoTimeout

\* Nobody is told so whose flag was set.
THEOREM NoFalseTimeoutHeld == MSpec => NoFalseTimeout
<1>1. MInv /\ [MNext]_mvars => [pc = "read" /\ pc' = "idle" /\ met => result' # "TIMEOUT"]_vars
  BY OnlyRead, InvRead DEF MInv
<1> QED
  BY <1>1, MqttInvariant, PTL DEF MSpec, NoFalseTimeout

\* Only the end of init leaves the wait for the reply, or a restart.
LEMMA OnlyConclude ==
    ASSUME mpc = "reply", mpc' = "idle", [MNext]_mvars
    PROVE  Conclude \/ result' = "none"
<1>1. CASE MEnvironment \/ WaitStep \/ CoreCall
  BY <1>1 DEF MEnvironment, WaitStep, CoreCall, clientVars
<1>2. CASE Invalid \/ ClientInit \/ Deinit \/ Stub
  BY <1>2 DEF Invalid, ClientInit, Deinit, Stub, Usable, Idle
<1>3. CASE InitStep
  BY <1>3 DEF InitStep, NotReady, Configure, Send
<1>4. CASE MReset
  BY <1>4 DEF MReset, Reset, Panic, BringUpPanic, Restart, Return
<1>5. CASE UNCHANGED mvars
  BY <1>5 DEF mvars, clientVars
<1> QED
  BY <1>1, <1>2, <1>3, <1>4, <1>5 DEF MNext

\* Init reports success only if something was received for its command: "OK" is found
\* in no buffer but one that was written, and it is written only with what was.
THEOREM SilenceHeld == MSpec => SilenceFails
<1>1. MInv /\ [MNext]_mvars =>
        [mpc = "reply" /\ mpc' = "idle" /\ result' = "ESP_OK" => text # {}]_mvars
  <2> SUFFICES ASSUME MInv, Conclude, result' = "ESP_OK" PROVE text # {}
    BY OnlyConclude
  <2>1. PICK found \in BOOLEAN : MayFind(found) /\ Finish(IF found THEN "OK" ELSE "ERROR")
    BY DEF Conclude
  <2>2. found
    BY <2>1 DEF Finish, EspErr
  <2>3. mpc = "reply" /\ response_buf = "copied"
    BY <2>1, <2>2 DEF Conclude, MayFind, MInv, ClientInv, ClientTypes, BufferKept
  <2> QED
    BY <2>3 DEF MInv, BufferKept
<1> QED
  BY <1>1, MqttInvariant, PTL DEF MSpec, SilenceFails

=============================================================================
