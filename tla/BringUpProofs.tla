--------------------------- MODULE BringUpProofs ---------------------------
(***************************************************************************)
(* Theorems about BringUp, for every init_max_time_ms and every time a     *)
(* command may take, and however often and whenever the application calls  *)
(* init. The flags are in order since each stands for the place the task   *)
(* has come to; the time is bounded since each place has a budget.         *)
(***************************************************************************)
EXTENDS BringUp, Integers, TLAPS

\* The task exists once init has started it, and init has started it when it
\* returns; the core takes lines only after that.
InitOrder ==
    /\ app \in {"gpio", "activate"} => created /\ npc = "none"
    /\ app = "finish" => created
    /\ ~created => npc = "none" /\ flags = {}
    /\ npc # "none" /\ app # "finish" => "CORE_INITIALIZED" \in flags
    /\ "MODULE_READY" \in flags => "CORE_INITIALIZED" \in flags
    /\ "PDN_ACTIVATED" \in flags => "CORE_INITIALIZED" \in flags
    /\ "CORE_INITIALIZED" \in flags => app = "idle"
    /\ npc \notin {"none", "wait_ready"} => "MODULE_READY" \in flags

\* Where the task has come to past each of its steps.
PastIp == {"connect", "connected"}
PastGprs == PastIp \cup {"sleep_ip", "ip"}
PastPdn == PastGprs \cup {"sleep_gprs", "cstt", "ciicr"}
PastSignal == PastPdn \cup {"sleep_pdn", "pdn", "wait_pdn"}
PastSim == PastSignal \cup {"sleep_csq", "csq"}

\* The task is past a step only with its flag, or with the PDN given up.
PlaceOfFlags ==
    /\ npc \in PastSim => "SIM_CARD_READY" \in flags
    /\ npc \in PastSignal => "SIGNAL_GOOD" \in flags
    /\ npc \in PastPdn => "PDN_ACTIVATED" \in flags \/ expired
    /\ npc \in PastGprs => "IP_GPRS_ACTIVATED" \in flags
    /\ npc \in PastIp => "IP_ADDRESS_ASSIGNED" \in flags

\* A report of the SIM card on the stack was taken when it came; one of the
\* signal was at least given, though its OK may have been lost.
NoStaleReport ==
    /\ "+CPIN: READY" \in stack => "SIM_CARD_READY" \in flags
    /\ "+CSQ: high" \in stack => "signal" \in confirmed

\* The inductive invariant behind the order of the flags.
OrderInv ==
    /\ TypeOK
    /\ InitOrder
    /\ PlaceOfFlags
    /\ StepsInOrder
    /\ NoStaleReport
    /\ EarlyStepsConfirmed

\* What a round may have taken where the task stands: each step may take a
\* command's time, each sleep one unit, the wait for the PDN MaxTime.
Limit == [sleep_sim |-> MaxTime - 1,
          sim |-> MaxTime,
          sleep_csq |-> MaxTime + AtTime,
          csq |-> MaxTime + 1 + AtTime,
          sleep_pdn |-> MaxTime + 1 + 2 * AtTime,
          pdn |-> MaxTime + 2 + 2 * AtTime,
          wait_pdn |-> MaxTime + 2 + 2 * AtTime,
          sleep_gprs |-> 2 * MaxTime + 2 + 2 * AtTime,
          cstt |-> 2 * MaxTime + 3 + 2 * AtTime,
          ciicr |-> 2 * MaxTime + 3 + 3 * AtTime,
          sleep_ip |-> 2 * MaxTime + 3 + 4 * AtTime,
          ip |-> 2 * MaxTime + 4 + 4 * AtTime,
          connect |-> 2 * MaxTime + 4 + 5 * AtTime]

\* The round has not taken more than it may have where the task stands.
Budget == npc \in LoopPCs => clock - start <= Limit[npc]

-----------------------------------------------------------------------------
(* Types.                                                                  *)

\* The initial values have their types.
LEMMA InitType == Init => TypeOK
<1> SUFFICES ASSUME Init PROVE TypeOK
  OBVIOUS
<1>1. inits \in 0..MaxInit
  BY TimeAssumption DEF Init
<1>2. clock \in Nat /\ start \in 0..clock
  BY DEF Init
<1>3. npc \in TaskPCs
  BY DEF Init, TaskPCs
<1>4. /\ flags \subseteq Flags /\ response \subseteq Strings
      /\ stack \subseteq Strings /\ confirmed \subseteq Steps
  BY DEF Init
<1> QED
  BY <1>1, <1>2, <1>3, <1>4 DEF Init, TypeOK

\* Time only goes forward, and the start of a call is the time of that call.
LEMMA ForwardType ==
    ASSUME TypeOK, NEW d \in Nat, clock' = clock + d, start' = start
    PROVE  clock' \in Nat /\ start' \in 0..clock'
<1>1. clock \in Nat /\ start \in Nat /\ start <= clock
  BY DEF TypeOK
<1> QED
  BY <1>1

\* The chip restarts in an initial state.
LEMMA ResetType == Reset => TypeOK'
<1> SUFFICES ASSUME Reset PROVE TypeOK'
  OBVIOUS
<1>1. inits' \in 0..MaxInit
  BY TimeAssumption DEF Reset
<1>2. clock' \in Nat /\ start' \in 0..clock'
  BY DEF Reset
<1>3. npc' \in TaskPCs
  BY DEF Reset, TaskPCs
<1>4. /\ flags' \subseteq Flags /\ response' \subseteq Strings
      /\ stack' \subseteq Strings /\ confirmed' \subseteq Steps
  BY DEF Reset
<1> QED
  BY <1>1, <1>2, <1>3, <1>4 DEF Reset, TypeOK

\* A step that is concluded sets a flag at most and goes on or begins again.
LEMMA ConcludeType ==
    ASSUME TypeOK, NEW passed, NEW flag \in Flags, NEW next \in TaskPCs,
           Conclude(passed, flag, next)
    PROVE  flags' \subseteq Flags /\ npc' \in TaskPCs
BY DEF TypeOK, Conclude, TaskPCs

\* A command leaves its strings on the stack and takes its time.
LEMMA ExchangeType ==
    ASSUME TypeOK, NEW text \in SUBSET Strings, Exchange(text), start' = start
    PROVE  /\ stack' \subseteq Strings
           /\ clock' \in Nat /\ start' \in 0..clock'
<1>1. stack' \subseteq Strings
  BY DEF TypeOK, Exchange
<1>2. PICK d \in 0..AtTime : clock' = clock + d
  BY DEF Exchange
<1>3. d \in Nat
  BY TimeAssumption
<1> QED
  BY <1>1, <1>2, <1>3, ForwardType

\* What a sleep of network_activate_task is followed by.
LEMMA SleepPlaces ==
    ASSUME npc \in DOMAIN AfterSleep
    PROVE  \/ npc = "sleep_sim" /\ AfterSleep[npc] = "sim"
           \/ npc = "sleep_csq" /\ AfterSleep[npc] = "csq"
           \/ npc = "sleep_pdn" /\ AfterSleep[npc] = "pdn"
           \/ npc = "sleep_gprs" /\ AfterSleep[npc] = "cstt"
           \/ npc = "sleep_ip" /\ AfterSleep[npc] = "ip"
BY DEF AfterSleep

\* Every step preserves the types.
LEMMA NextType == TypeOK /\ [Next]_vars => TypeOK'
<1> SUFFICES ASSUME TypeOK, [Next]_vars PROVE TypeOK'
  OBVIOUS
<1> USE DEF appVars, taskVars
<1>1. CASE InitRefused
  <2>1. inits' \in 0..MaxInit
    BY <1>1, TimeAssumption DEF TypeOK, InitRefused
  <2>2. clock' \in Nat /\ start' \in 0..clock'
    BY <1>1 DEF TypeOK, InitRefused, InitCall
  <2> QED
    BY <1>1, <2>1, <2>2 DEF TypeOK, InitRefused, InitCall
<1>2. CASE InitFirst
  <2>1. clock' \in Nat /\ start' \in 0..clock'
    BY <1>2 DEF TypeOK, InitFirst, InitCall
  <2> QED
    BY <1>2, <2>1 DEF TypeOK, InitFirst, InitCall, Flags
<1>3. CASE InitGpio
  BY <1>3, ForwardType DEF TypeOK, InitGpio
<1>4. CASE InitActivate
  BY <1>4 DEF TypeOK, InitActivate, TaskPCs
<1>5. CASE InitFinish
  BY <1>5 DEF TypeOK, InitFinish, Flags
<1>6. CASE Rdy
  BY <1>6 DEF TypeOK, Rdy, Heard, Flags
<1>7. CASE PdnAct
  BY <1>7 DEF TypeOK, PdnAct, Heard, Flags, Steps
<1>8. CASE WaitReady
  BY <1>8, ForwardType DEF TypeOK, WaitReady
<1>9. CASE Ready
  BY <1>9 DEF TypeOK, Ready, TaskPCs
<1>10. CASE CheckTime
  BY <1>10 DEF TypeOK, CheckTime, TaskPCs, LoopPCs, AfterSleep
<1>11. CASE Sleep
  <2>1. npc' \in LoopPCs
    BY <1>11, SleepPlaces DEF Sleep, LoopPCs
  <2>2. clock' \in Nat /\ start' \in 0..clock'
    BY <1>11, ForwardType DEF Sleep
  <2> QED
    BY <1>11, <2>1, <2>2 DEF TypeOK, Sleep, TaskPCs
<1>12. ASSUME NEW from, NEW flag, NEW to \in TaskPCs, Skip(from, flag, to)
       PROVE  TypeOK'
  BY <1>12 DEF TypeOK, Skip
<1>13. CASE Sim
  <2>1. PICK text \in SUBSET Strings :
          /\ Exchange(text)
          /\ Confirm("sim", "+CPIN: READY", text)
          /\ \E left \in SUBSET stack :
               Conclude("+CPIN: READY" \in text \cup left, "SIM_CARD_READY", "sleep_csq")
    BY <1>13 DEF Sim, Strings
  <2>2. flags' \subseteq Flags /\ npc' \in TaskPCs
    BY <2>1, ConcludeType DEF Flags, TaskPCs, LoopPCs, AfterSleep
  <2>3. stack' \subseteq Strings /\ clock' \in Nat /\ start' \in 0..clock'
    BY <1>13, <2>1, ExchangeType DEF Sim
  <2>4. confirmed' \subseteq Steps
    BY <2>1 DEF TypeOK, Confirm, Steps
  <2> QED
    BY <1>13, <2>2, <2>3, <2>4 DEF TypeOK, Sim
<1>14. CASE Csq
  <2> DEFINE Texts == {{}, {"OK"}, {"ERROR"}} \cup {{r} : r \in Reports}
                      \cup {{r, "OK"} : r \in Reports}
  <2>0. PICK text \in Texts :
          /\ Exchange(text)
          /\ Confirm("signal", "+CSQ: high", text)
          /\ \E passed \in BOOLEAN : Conclude(passed, "SIGNAL_GOOD", "sleep_pdn")
    BY <1>14 DEF Csq
  <2>1. text \in SUBSET Strings
    BY DEF Strings, Reports
  <2>2. flags' \subseteq Flags /\ npc' \in TaskPCs
    BY <2>0, ConcludeType DEF Flags, TaskPCs, LoopPCs, AfterSleep
  <2>3. stack' \subseteq Strings /\ clock' \in Nat /\ start' \in 0..clock'
    BY <1>14, <2>0, <2>1, ExchangeType DEF Csq
  <2>4. confirmed' \subseteq Steps
    BY <2>0 DEF TypeOK, Confirm, Steps
  <2> QED
    BY <1>14, <2>2, <2>3, <2>4 DEF TypeOK, Csq
<1>15. CASE Pdn
  BY <1>15 DEF TypeOK, Pdn, TaskPCs, LoopPCs, AfterSleep
<1>16. CASE PdnWaited
  <2>1. PICK d \in 0..MaxTime : clock' = clock + d
    BY <1>16, TimeAssumption DEF PdnWaited
  <2>2. d \in Nat
    BY TimeAssumption
  <2>3. clock' \in Nat /\ start' \in 0..clock'
    BY <1>16, <2>1, <2>2, ForwardType DEF PdnWaited
  <2> QED
    BY <1>16, <2>3 DEF TypeOK, PdnWaited, TaskPCs, LoopPCs, AfterSleep
<1>17. CASE Cstt
  <2>1. PICK text \in SUBSET Strings, left \in SUBSET stack :
          Exchange(text) /\ response' = text \cup left
    BY <1>17 DEF Cstt, Strings
  <2>2. stack' \subseteq Strings /\ clock' \in Nat /\ start' \in 0..clock'
    BY <1>17, <2>1, ExchangeType DEF Cstt
  <2>3. response' \subseteq Strings
    BY <2>1 DEF TypeOK
  <2> QED
    BY <1>17, <2>2, <2>3 DEF TypeOK, Cstt, TaskPCs, LoopPCs, AfterSleep
<1>18. CASE Ciicr
  <2>1. PICK text \in SUBSET Strings :
          /\ Exchange(text)
          /\ Confirm("gprs", "OK", text)
          /\ \E left \in SUBSET response :
               Conclude("OK" \in text \cup left, "IP_GPRS_ACTIVATED", "sleep_ip")
    BY <1>18 DEF Ciicr, Strings
  <2>2. flags' \subseteq Flags /\ npc' \in TaskPCs
    BY <2>1, ConcludeType DEF Flags, TaskPCs, LoopPCs, AfterSleep
  <2>3. stack' \subseteq Strings /\ clock' \in Nat /\ start' \in 0..clock'
    BY <1>18, <2>1, ExchangeType DEF Ciicr
  <2>4. confirmed' \subseteq Steps
    BY <2>1 DEF TypeOK, Confirm, Steps
  <2>5. response' = {}
    BY <1>18 DEF Ciicr
  <2> QED
    BY <1>18, <2>2, <2>3, <2>4, <2>5 DEF TypeOK, Ciicr
<1>19. CASE Ip
  <2>1. PICK text \in SUBSET Strings :
          /\ Exchange(text)
          /\ Confirm("ip", "address", text)
          /\ \E left \in SUBSET stack :
               Conclude("ERROR" \notin text \cup left, "IP_ADDRESS_ASSIGNED", "connect")
    BY <1>19 DEF Ip, Strings
  <2>2. flags' \subseteq Flags /\ npc' \in TaskPCs
    BY <2>1, ConcludeType DEF Flags, TaskPCs, LoopPCs, AfterSleep
  <2>3. stack' \subseteq Strings /\ clock' \in Nat /\ start' \in 0..clock'
    BY <1>19, <2>1, ExchangeType DEF Ip
  <2>4. confirmed' \subseteq Steps
    BY <2>1 DEF TypeOK, Confirm, Steps
  <2> QED
    BY <1>19, <2>2, <2>3, <2>4 DEF TypeOK, Ip
<1>20. CASE Connect
  BY <1>20 DEF TypeOK, Connect, TaskPCs, Flags
<1>21. CASE UNCHANGED vars
  BY <1>21 DEF TypeOK, vars
<1>23. CASE CsqPanic
  BY <1>23, ResetType DEF CsqPanic
<1>22. {"sleep_csq", "sleep_pdn", "sleep_gprs", "sleep_ip"} \subseteq TaskPCs
  BY DEF TaskPCs, LoopPCs, AfterSleep
<1> QED
  BY <1>1, <1>2, <1>3, <1>4, <1>5, <1>6, <1>7, <1>8, <1>9, <1>10, <1>11, <1>12,
     <1>13, <1>14, <1>15, <1>16, <1>17, <1>18, <1>19, <1>20, <1>21, <1>22, <1>23
     DEF Next, InitCore, Task

\* Every variable keeps its type.
THEOREM TypeCorrect == Spec => []TypeOK
BY InitType, NextType, PTL DEF Spec

-----------------------------------------------------------------------------
(* The order of the flags.                                                 *)

\* At first there are no flags and no task.
LEMMA OrderInit == Init => OrderInv
<1> SUFFICES ASSUME Init PROVE OrderInv
  OBVIOUS
<1>1. TypeOK
  BY InitType
<1> QED
  BY <1>1 DEF Init, OrderInv, InitOrder, PlaceOfFlags, StepsInOrder,
              NoStaleReport, EarlyStepsConfirmed, PastSim, PastSignal, PastPdn,
              PastGprs, PastIp

\* The steps of the application and of the modem.
LEMMA OrderOutside ==
    ASSUME OrderInv, TypeOK', InitCore \/ Rdy \/ PdnAct \/ WaitReady
    PROVE  OrderInv'
<1> USE DEF OrderInv, InitOrder, PlaceOfFlags, StepsInOrder, NoStaleReport,
            EarlyStepsConfirmed, PastSim, PastSignal, PastPdn, PastGprs, PastIp,
            appVars, taskVars
<1>1. CASE InitRefused
  BY <1>1 DEF InitRefused, InitCall
<1>2. CASE InitFirst
  BY <1>2 DEF InitFirst, InitCall
<1>3. CASE InitGpio
  BY <1>3 DEF InitGpio
<1>4. CASE InitActivate
  BY <1>4 DEF InitActivate
<1>5. CASE InitFinish
  BY <1>5 DEF InitFinish
<1>6. CASE Rdy
  BY <1>6 DEF Rdy, Heard
<1>7. CASE PdnAct
  BY <1>7 DEF PdnAct, Heard
<1>8. CASE WaitReady
  BY <1>8 DEF WaitReady
<1> QED
  BY <1>1, <1>2, <1>3, <1>4, <1>5, <1>6, <1>7, <1>8 DEF InitCore

\* The steps of the task that send no command.
LEMMA OrderQuiet ==
    ASSUME OrderInv, TypeOK',
           \/ Ready \/ CheckTime \/ Sleep \/ Pdn \/ PdnWaited \/ Connect
           \/ Skip("sim", "SIM_CARD_READY", "sleep_csq")
           \/ Skip("csq", "SIGNAL_GOOD", "sleep_pdn")
           \/ Skip("pdn", "PDN_ACTIVATED", "sleep_gprs")
           \/ Skip("cstt", "IP_GPRS_ACTIVATED", "sleep_ip")
    PROVE  OrderInv'
<1> USE DEF OrderInv, InitOrder, PlaceOfFlags, StepsInOrder, NoStaleReport,
            EarlyStepsConfirmed, PastSim, PastSignal, PastPdn, PastGprs, PastIp,
            appVars
<1>1. CASE Ready
  BY <1>1 DEF Ready
<1>2. CASE CheckTime
  BY <1>2 DEF CheckTime
<1>3. CASE Sleep
  BY <1>3, SleepPlaces DEF Sleep
<1>4. CASE Pdn
  BY <1>4 DEF Pdn
<1>5. CASE PdnWaited
  BY <1>5 DEF PdnWaited
<1>6. CASE Connect
  BY <1>6 DEF Connect
<1>7. CASE Skip("sim", "SIM_CARD_READY", "sleep_csq")
  BY <1>7 DEF Skip
<1>8. CASE Skip("csq", "SIGNAL_GOOD", "sleep_pdn")
  BY <1>8 DEF Skip
<1>9. CASE Skip("pdn", "PDN_ACTIVATED", "sleep_gprs")
  BY <1>9 DEF Skip
<1>10. CASE Skip("cstt", "IP_GPRS_ACTIVATED", "sleep_ip")
  BY <1>10 DEF Skip
<1> QED
  BY <1>1, <1>2, <1>3, <1>4, <1>5, <1>6, <1>7, <1>8, <1>9, <1>10

\* Behind a reset there are no flags and no task again.
LEMMA OrderReset == ASSUME Reset PROVE OrderInv'
<1>1. TypeOK'
  BY ResetType
<1> QED
  BY <1>1 DEF Reset, OrderInv, InitOrder, PlaceOfFlags, StepsInOrder,
              NoStaleReport, EarlyStepsConfirmed, PastSim, PastSignal, PastPdn,
              PastGprs, PastIp

\* The steps that send a command and conclude from what is in the buffer.
LEMMA OrderCommand ==
    ASSUME OrderInv, TypeOK', Sim \/ Csq \/ Cstt \/ Ciicr \/ Ip
    PROVE  OrderInv'
<1> USE DEF OrderInv, InitOrder, PlaceOfFlags, StepsInOrder, NoStaleReport,
            EarlyStepsConfirmed, PastSim, PastSignal, PastPdn, PastGprs, PastIp,
            appVars, Exchange, Confirm, Conclude
<1>1. CASE Sim
  <2>1. "+CPIN: READY" \notin stack
    BY <1>1 DEF Sim
  <2>2. PICK text \in {{}, {"+CPIN: READY"}, {"+CPIN: READY", "OK"}, {"ERROR"}},
             left \in SUBSET stack :
          /\ Exchange(text)
          /\ Confirm("sim", "+CPIN: READY", text)
          /\ Conclude("+CPIN: READY" \in text \cup left, "SIM_CARD_READY", "sleep_csq")
    BY <1>1 DEF Sim
  <2>3. "+CPIN: READY" \in text \cup left <=> "+CPIN: READY" \in text
    BY <2>1
  <2> QED
    BY <1>1, <2>2, <2>3 DEF Sim
<1>2. CASE Csq
  <2>1. PICK text \in {{}, {"OK"}, {"ERROR"}} \cup {{r} : r \in Reports}
                      \cup {{r, "OK"} : r \in Reports},
             left \in SUBSET stack :
          /\ Exchange(text)
          /\ Confirm("signal", "+CSQ: high", text)
          /\ Conclude("OK" \in text /\ "+CSQ: high" \in
                        Reports \cap (IF Reports \cap text # {} THEN text ELSE left),
                      "SIGNAL_GOOD", "sleep_pdn")
    BY <1>2 DEF Csq
  <2>2. ASSUME "+CSQ: high" \in text \cup stack PROVE "signal" \in confirmed'
    BY <2>1, <2>2
  <2>3. PICK passed \in BOOLEAN :
          /\ passed => "+CSQ: high" \in text \cup stack
          /\ Conclude(passed, "SIGNAL_GOOD", "sleep_pdn")
    BY <2>1
  <2>4. CASE passed
    BY <1>2, <2>1, <2>2, <2>3, <2>4 DEF Csq
  <2>5. CASE ~passed
    BY <1>2, <2>1, <2>2, <2>3, <2>5 DEF Csq
  <2> QED
    BY <2>4, <2>5
<1>3. CASE Cstt
  BY <1>3 DEF Cstt
<1>4. CASE Ciicr
  BY <1>4 DEF Ciicr
<1>5. CASE Ip
  BY <1>5 DEF Ip
<1> QED
  BY <1>1, <1>2, <1>3, <1>4, <1>5

\* Every step keeps the order of the flags.
LEMMA OrderInductive == OrderInv /\ [Next]_vars => OrderInv'
<1> SUFFICES ASSUME OrderInv, [Next]_vars PROVE OrderInv'
  OBVIOUS
<1>1. TypeOK'
  BY NextType DEF OrderInv
<1>2. CASE UNCHANGED vars
  BY <1>2 DEF OrderInv, TypeOK, InitOrder, PlaceOfFlags, StepsInOrder,
              NoStaleReport, EarlyStepsConfirmed, vars
<1>3. CASE InitCore \/ Rdy \/ PdnAct \/ WaitReady
  BY <1>1, <1>3, OrderOutside
<1>4. CASE Task
  BY <1>1, <1>4, OrderQuiet, OrderCommand, OrderReset DEF Task, CsqPanic
<1> QED
  BY <1>2, <1>3, <1>4 DEF Next

\* The inductive invariant holds: the task has come past a step only with its flag,
\* and the core takes lines and commands from the end of init on.
THEOREM OrderCorrect == Spec => []OrderInv
BY OrderInit, OrderInductive, PTL DEF Spec

\* The flags of the steps are set in the order of the steps.
THEOREM InOrder == Spec => []StepsInOrder
<1>1. OrderInv => StepsInOrder
  BY DEF OrderInv
<1> QED
  BY <1>1, OrderCorrect, PTL

\* The task sends no command before the core takes commands.
THEOREM Accepted == Spec => []CommandsAccepted
<1>1. OrderInv => CommandsAccepted
  BY DEF OrderInv, InitOrder, CommandsAccepted, LoopPCs, AfterSleep
<1> QED
  BY <1>1, OrderCorrect, PTL

\* The SIM card, the signal and the PDN are flagged only if they were reported.
THEOREM EarlyConfirmed == Spec => []EarlyStepsConfirmed
<1>1. OrderInv => EarlyStepsConfirmed
  BY DEF OrderInv
<1> QED
  BY <1>1, OrderCorrect, PTL

\* What NETWORK_CONNECTED does mean: all flags but the PDN's are set, the modem has
\* reported the SIM card and a good signal, and the PDN too unless it was given up.
ConnectedMeans ==
    "NETWORK_CONNECTED" \in flags =>
        /\ {"CORE_INITIALIZED", "MODULE_READY", "SIM_CARD_READY", "SIGNAL_GOOD",
            "IP_GPRS_ACTIVATED", "IP_ADDRESS_ASSIGNED"} \subseteq flags
        /\ {"sim", "signal"} \subseteq confirmed
        /\ "pdn" \in confirmed \/ expired

\* Of the five steps only GPRS and the address may lack the modem's word, unless
\* the wait for the PDN ran out as well.
THEOREM ConnectedIsEarly == Spec => []ConnectedMeans
<1>1. OrderInv => ConnectedMeans
  BY DEF OrderInv, InitOrder, StepsInOrder, PlaceOfFlags, EarlyStepsConfirmed,
         PastIp, PastGprs, PastPdn, PastSignal, PastSim, ConnectedMeans
<1> QED
  BY <1>1, OrderCorrect, PTL

-----------------------------------------------------------------------------
(* The time of the bring-up.                                               *)

\* The types of the times.
LEMMA Times ==
    ASSUME TypeOK
    PROVE  /\ clock \in Nat /\ start \in Nat /\ start <= clock
           /\ MaxTime \in Nat /\ AtTime \in Nat
BY TimeAssumption DEF TypeOK

\* Every limit is a number.
LEMMA LimitTypes == \A place \in LoopPCs : Limit[place] \in Int
BY TimeAssumption DEF Limit, LoopPCs, AfterSleep

\* No limit is above the bound.
LEMMA LimitBounds == \A place \in LoopPCs : Limit[place] <= 2 * MaxTime + 4 + 5 * AtTime
BY TimeAssumption DEF Limit, LoopPCs, AfterSleep

\* Each limit leaves room for the step that leads to it.
LEMMA LimitSteps ==
    /\ Limit["sleep_sim"] + 1 <= Limit["sim"]
    /\ Limit["sim"] + AtTime <= Limit["sleep_csq"]
    /\ Limit["sleep_csq"] + 1 <= Limit["csq"]
    /\ Limit["csq"] + AtTime <= Limit["sleep_pdn"]
    /\ Limit["sleep_pdn"] + 1 <= Limit["pdn"]
    /\ Limit["pdn"] <= Limit["wait_pdn"]
    /\ Limit["pdn"] <= Limit["sleep_gprs"]
    /\ Limit["wait_pdn"] + MaxTime <= Limit["sleep_gprs"]
    /\ Limit["sleep_gprs"] + 1 <= Limit["cstt"]
    /\ Limit["cstt"] + AtTime <= Limit["ciicr"]
    /\ Limit["cstt"] <= Limit["sleep_ip"]
    /\ Limit["ciicr"] + AtTime <= Limit["sleep_ip"]
    /\ Limit["sleep_ip"] + 1 <= Limit["ip"]
    /\ Limit["ip"] + AtTime <= Limit["connect"]
BY TimeAssumption DEF Limit

\* A step that takes t from one place to the next keeps the budget if the limits
\* are that far apart.
LEMMA Spend ==
    ASSUME TypeOK, Budget, TypeOK', NEW t \in Nat,
           npc \in LoopPCs, npc' \in LoopPCs,
           clock' - start' <= clock - start + t,
           Limit[npc] + t <= Limit[npc']
    PROVE  Budget'
<1>1. /\ clock \in Nat /\ start \in Nat
      /\ Limit[npc] \in Int /\ Limit[npc'] \in Int
  BY Times, LimitTypes
<1>2. clock' \in Nat /\ start' \in Nat
  BY DEF TypeOK
<1>3. clock - start <= Limit[npc]
  BY DEF Budget
<1>4. clock' - start' <= Limit[npc']
  <2> DEFINE here == Limit[npc]
             there == Limit[npc']
             before == clock - start
             after == clock' - start'
  <2>1. before \in Int /\ after \in Int /\ here \in Int /\ there \in Int
    BY <1>1, <1>2
  <2>2. before <= here /\ after <= before + t /\ here + t <= there
    BY <1>3
  <2> HIDE DEF here, there, before, after
  <2>3. after <= there
    BY <2>1, <2>2
  <2> QED
    BY <2>3 DEF after, there
<1>5. Limit' = Limit
  BY DEF Limit
<1> QED
  BY <1>4, <1>5 DEF Budget

\* A call of init can only give the round more time.
LEMMA BudgetOutside ==
    ASSUME OrderInv, Budget, InitCore \/ Rdy \/ PdnAct \/ WaitReady
    PROVE  Budget'
<1>0. Limit' = Limit
  BY DEF Limit
<1>1. CASE InitCall /\ npc' = npc
  <2>1. /\ clock \in Nat /\ start \in Nat /\ start <= clock
    BY Times DEF OrderInv
  <2>2. clock' - start' = 0 /\ 0 <= clock - start
    BY <1>1, <2>1 DEF InitCall
  <2>3. npc \in LoopPCs => 0 <= Limit[npc]
    BY <2>1, <2>2, LimitTypes DEF Budget
  <2> QED
    BY <1>0, <1>1, <2>2, <2>3 DEF Budget
<1>2. CASE npc' \in {"none", "wait_ready"}
  BY <1>2 DEF Budget, LoopPCs, AfterSleep
<1>3. CASE UNCHANGED <<npc, clock, start>>
  BY <1>0, <1>3 DEF Budget
<1>4. ASSUME InitRefused \/ InitFirst PROVE InitCall /\ npc' = npc
  BY <1>4 DEF InitRefused, InitFirst, InitCall, taskVars
<1>5. ASSUME InitGpio PROVE npc' = "none"
  BY <1>5 DEF InitGpio, taskVars, OrderInv, InitOrder
<1>6. ASSUME InitActivate \/ WaitReady PROVE npc' \in {"none", "wait_ready"}
  BY <1>6 DEF InitActivate, WaitReady, taskVars
<1>7. ASSUME InitFinish \/ Rdy \/ PdnAct PROVE UNCHANGED <<npc, clock, start>>
  BY <1>7 DEF InitFinish, Rdy, PdnAct, appVars, taskVars
<1> QED
  BY <1>1, <1>2, <1>3, <1>4, <1>5, <1>6, <1>7 DEF InitCore

\* A command takes AtTime at the most.
LEMMA CommandTime ==
    ASSUME TypeOK, NEW text, Exchange(text), start' = start
    PROVE  clock' - start' <= clock - start + AtTime
<1>1. clock \in Nat /\ start \in Nat /\ AtTime \in Nat
  BY Times
<1>2. PICK d \in 0..AtTime : clock' = clock + d
  BY DEF Exchange
<1> QED
  BY <1>1, <1>2

\* A step that begins the loop again has no limit to keep: the time is looked
\* at next.
LEMMA Concluded ==
    ASSUME TypeOK, Budget, TypeOK', npc \in LoopPCs,
           NEW next \in LoopPCs, NEW passed, NEW flag, Conclude(passed, flag, next),
           clock' - start' <= clock - start + AtTime,
           Limit[npc] + AtTime <= Limit[next]
    PROVE  Budget'
<1>1. CASE npc' = next
  BY <1>1, Spend, TimeAssumption
<1>2. CASE npc' = "check_time"
  BY <1>2 DEF Budget, LoopPCs, AfterSleep
<1> QED
  BY <1>1, <1>2 DEF Conclude

\* Every step of network_activate_task keeps the budget.
LEMMA BudgetTask ==
    ASSUME OrderInv, Budget, Task, TypeOK'
    PROVE  Budget'
<1>0. /\ TypeOK
      /\ clock \in Nat /\ start \in Nat /\ start <= clock
      /\ MaxTime \in Nat /\ AtTime \in Nat
  BY Times DEF OrderInv
<1> USE DEF appVars
<1>1. CASE Ready
  BY <1>1 DEF Ready, Budget, LoopPCs, AfterSleep
<1>2. CASE CheckTime
  <2>1. CASE npc' = "sleep_sim" /\ clock - start < MaxTime
    <3>1. clock' - start' <= MaxTime - 1
      BY <1>0, <1>2, <2>1 DEF CheckTime
    <3>2. Limit["sleep_sim"]' = MaxTime - 1
      BY DEF Limit
    <3> QED
      BY <2>1, <3>1, <3>2 DEF Budget
  <2>2. CASE npc' = "timed_out"
    BY <2>2 DEF Budget, LoopPCs, AfterSleep
  <2> QED
    BY <1>2, <2>1, <2>2 DEF CheckTime
<1>3. CASE Sleep
  <2>1. /\ npc \in LoopPCs /\ npc' \in LoopPCs
        /\ Limit[npc] + 1 <= Limit[npc']
    BY <1>3, SleepPlaces, LimitSteps DEF Sleep, LoopPCs
  <2>2. clock' - start' <= clock - start + 1
    BY <1>0, <1>3 DEF Sleep
  <2> QED
    BY <1>0, <2>1, <2>2, Spend
<1>4. CASE Pdn
  <2>1. /\ npc = "pdn" /\ npc' = "wait_pdn"
        /\ clock' = clock /\ start' = start
    BY <1>4 DEF Pdn
  <2>2. Limit[npc] + 0 <= Limit[npc']
    BY <2>1, LimitSteps, LimitTypes DEF LoopPCs
  <2>3. npc \in LoopPCs /\ npc' \in LoopPCs
    BY <2>1 DEF LoopPCs
  <2>4. clock' - start' <= clock - start + 0
    BY <1>0, <2>1
  <2> QED
    BY <1>0, <2>2, <2>3, <2>4, Spend
<1>5. CASE PdnWaited
  <2>1. PICK d \in 0..MaxTime : clock' = clock + d
    BY <1>0, <1>5 DEF PdnWaited
  <2>2. npc = "wait_pdn" /\ npc' = "sleep_gprs" /\ start' = start
    BY <1>5 DEF PdnWaited
  <2>3. clock' - start' <= clock - start + MaxTime
    BY <1>0, <2>1, <2>2
  <2>4. npc \in LoopPCs /\ npc' \in LoopPCs
    BY <2>2 DEF LoopPCs, AfterSleep
  <2> QED
    BY <1>0, <2>2, <2>3, <2>4, LimitSteps, Spend
<1>6. CASE Connect
  BY <1>6 DEF Connect, Budget, LoopPCs, AfterSleep
<1>7. ASSUME NEW from \in LoopPCs, NEW flag, NEW to \in LoopPCs,
             Skip(from, flag, to), Limit[from] <= Limit[to]
      PROVE  Budget'
  <2>1. npc = from /\ npc' = to /\ clock' = clock /\ start' = start
    BY <1>7 DEF Skip
  <2>2. Limit[npc] + 0 <= Limit[npc']
    BY <1>7, <2>1, LimitTypes
  <2>3. clock' - start' <= clock - start + 0
    BY <1>0, <2>1
  <2> QED
    BY <1>0, <1>7, <2>1, <2>2, <2>3, Spend
<1>8. {"sim", "csq", "pdn", "cstt", "ciicr", "ip", "connect", "sleep_csq",
       "sleep_pdn", "sleep_gprs", "sleep_ip"} \subseteq LoopPCs
  BY DEF LoopPCs, AfterSleep
<1>9. /\ Limit["sim"] <= Limit["sleep_csq"]
      /\ Limit["csq"] <= Limit["sleep_pdn"]
      /\ Limit["pdn"] <= Limit["sleep_gprs"]
      /\ Limit["cstt"] <= Limit["sleep_ip"]
  BY TimeAssumption DEF Limit
<1>10. CASE Sim
  <2>1. /\ npc = "sim" /\ clock' - start' <= clock - start + AtTime
        /\ \E passed : Conclude(passed, "SIM_CARD_READY", "sleep_csq")
    BY <1>0, <1>10, CommandTime DEF Sim
  <2> QED
    BY <1>0, <1>8, <2>1, LimitSteps, Concluded
<1>11. CASE Csq
  <2>1. /\ npc = "csq" /\ clock' - start' <= clock - start + AtTime
        /\ \E passed \in BOOLEAN : Conclude(passed, "SIGNAL_GOOD", "sleep_pdn")
    BY <1>0, <1>11, CommandTime DEF Csq
  <2> QED
    BY <1>0, <1>8, <2>1, LimitSteps, Concluded
<1>12. CASE Cstt
  <2>1. /\ npc = "cstt" /\ npc' = "ciicr"
        /\ clock' - start' <= clock - start + AtTime
    BY <1>0, <1>12, CommandTime DEF Cstt
  <2> QED
    BY <1>0, <1>8, <2>1, LimitSteps, Spend
<1>13. CASE Ciicr
  <2>1. /\ npc = "ciicr" /\ clock' - start' <= clock - start + AtTime
        /\ \E passed : Conclude(passed, "IP_GPRS_ACTIVATED", "sleep_ip")
    BY <1>0, <1>13, CommandTime DEF Ciicr
  <2> QED
    BY <1>0, <1>8, <2>1, LimitSteps, Concluded
<1>14. CASE Ip
  <2>1. /\ npc = "ip" /\ clock' - start' <= clock - start + AtTime
        /\ \E passed : Conclude(passed, "IP_ADDRESS_ASSIGNED", "connect")
    BY <1>0, <1>14, CommandTime DEF Ip
  <2> QED
    BY <1>0, <1>8, <2>1, LimitSteps, Concluded
<1>15. CASE CsqPanic
  BY <1>15 DEF CsqPanic, Reset, Budget, LoopPCs, AfterSleep
<1> QED
  BY <1>1, <1>2, <1>3, <1>4, <1>5, <1>6, <1>7, <1>8, <1>9, <1>10, <1>11, <1>12,
     <1>13, <1>14, <1>15 DEF Task

\* The bring-up ends within twice its time and what its steps take.
THEOREM Bounded == Spec => []BringUpBounded
<1>1. Init => Budget
  BY DEF Init, Budget, LoopPCs, AfterSleep
<1>2. OrderInv /\ TypeOK' /\ Budget /\ [Next]_vars => Budget'
  <2>1. ASSUME UNCHANGED vars, Budget PROVE Budget'
    BY <2>1 DEF vars, Budget, Limit
  <2> QED
    BY <2>1, BudgetOutside, BudgetTask DEF Next
<1>3. OrderInv /\ Budget => BringUpBounded
  <2> SUFFICES ASSUME OrderInv, Budget, npc \in LoopPCs
               PROVE  clock - start <= 2 * MaxTime + 4 + 5 * AtTime
    BY DEF BringUpBounded
  <2>1. /\ clock \in Nat /\ start \in Nat
        /\ MaxTime \in Nat /\ AtTime \in Nat
    BY Times DEF OrderInv
  <2>2. clock - start <= Limit[npc]
    BY DEF Budget
  <2> QED
    BY <2>1, <2>2, LimitTypes, LimitBounds
<1>4. OrderInv => TypeOK
  BY DEF OrderInv
<1> QED
  BY <1>1, <1>2, <1>3, <1>4, OrderCorrect, PTL DEF Spec

=============================================================================
