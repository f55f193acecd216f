-------------------------- MODULE CoreWaitsProofs --------------------------
(***************************************************************************)
(* How long the waits of CoreWaits last, for every tick rate, width and    *)
(* limit. A wait of so many ticks begins anywhere between two ticks; what  *)
(* has passed and what is left of it always make up the same time.         *)
(***************************************************************************)
EXTENDS CoreWaits, SysTimeProofs

\* The ticks a wait was given.
Ticks == IF pc = "wait" THEN ms_to_ticks(Unsigned(limit)) ELSE pdMS_TO_TICKS(limit)

\* What has passed and what is left is the wait, less the part of a tick that was
\* over when it began.
TimeKept ==
    /\ elapsed + left * Period - phase <= Ticks * Period
    /\ Ticks * Period < elapsed + left * Period - phase + Period
    /\ elapsed = 0 => left = Ticks
    /\ Ticks = Forever => left = Forever
    /\ left = 0 => phase = 0 \/ elapsed = 0

\* The inductive invariant: flags are only ever set, so what was met is still set.
WaitInv ==
    /\ WaitsTypeOK
    /\ pc = "idle" => limit = 0
    /\ pc = "wait" => limit \in Limits
    /\ pc \in Commands => limit \in Nat
    /\ pc \in {"idle"} \cup Commands => awaited = "none"
    /\ awaited = "none" => ~met
    /\ met => awaited \in flags
    /\ pc = "read" /\ limit = -1 => awaited \in flags
    /\ pc \in {"wait"} \cup Commands => TimeKept

USE DEF Commands

-----------------------------------------------------------------------------
(* Numbers.                                                                *)

\* A tick has at least a millisecond, a word at least two values.
LEMMA Numbers ==
    /\ Period \in Nat \ {0}
    /\ Words \in Nat \ {0} /\ Forever \in Nat \ {0} /\ Forever = Words - 1
BY PeriodType, RateAssumption DEF Forever

\* A limit goes through the unsigned type without change, or wraps: -1 is then the
\* wait without limit, and only 0 no wait.
LEMMA LimitRange ==
    ASSUME NEW ms \in Limits
    PROVE  /\ ms \in Int
           /\ Unsigned(ms) \in 0 .. Forever
           /\ ms > 0 => Unsigned(ms) # 0
           /\ ms = -1 => Unsigned(ms) = Forever
<1>1. Words \in Nat \ {0} /\ Forever = Words - 1
  BY Numbers
<1>2. Words \div 2 \in Nat /\ 2 * (Words \div 2) <= Words
  BY <1>1, Quotient
<1>3. ms \in Int /\ ms < Words
  BY <1>1, <1>2, LimitAssumption
<1>4. Unsigned(ms) \in 0 .. Forever
  BY <1>3, Widths
<1>5. ms > 0 => Unsigned(ms) # 0
  <2>1. ms > 0 => ms \in 0 .. Words - 1
    BY <1>1, <1>3
  <2>2. ms > 0 => Unsigned(ms) = ms
    BY <1>1, <1>3, <2>1, Remainder DEF Unsigned
  <2> QED
    BY <2>2
<1>6. (-1) % Words = Words - 1
  BY <1>1, Z3
<1> QED
  BY <1>1, <1>3, <1>4, <1>5, <1>6 DEF Unsigned

\* A wait begins with what is left of it in ticks, anywhere in a tick.
LEMMA WaitBegins ==
    ASSUME pc' \in {"wait"} \cup Commands, Ticks' \in Nat, left' = Ticks', elapsed' = 0,
           phase' \in 0 .. Period - 1
    PROVE  TimeKept'
<1>1. ASSUME NEW all \in Int, NEW p \in 0 .. Period - 1
      PROVE  0 + all - p <= all /\ all < 0 + all - p + Period
  BY Numbers
<1>2. Ticks' * Period \in Int
  BY Numbers
<1>3. /\ elapsed' + left' * Period - phase' <= Ticks' * Period
      /\ Ticks' * Period < elapsed' + left' * Period - phase' + Period
  BY <1>1, <1>2
<1>4. Period' = Period
  BY DEF Period
<1> QED
  BY <1>3, <1>4 DEF TimeKept

\* A millisecond of a wait moves from what is left to what has passed.
LEMMA PassKeeps ==
    ASSUME WaitsTypeOK, TimeKept, pc \in {"wait"} \cup Commands, Pass
    PROVE  /\ TimeKept'
           /\ left' \in 0 .. Forever /\ phase' \in 0 .. Period - 1 /\ elapsed' \in Nat
<1>1. /\ Period \in Nat \ {0} /\ Forever \in Nat
      /\ left \in Nat /\ left # 0 /\ left <= Forever
      /\ phase \in Nat /\ phase < Period /\ elapsed \in Nat
  BY Numbers DEF WaitsTypeOK, Pass
<1>2. /\ elapsed' = elapsed + 1
      /\ phase' = (phase + 1) % Period
      /\ left' = IF phase' = 0 THEN left - 1 ELSE left
      /\ Ticks' = Ticks
  BY DEF Pass, Ticks
<1>3. \/ phase + 1 < Period /\ phase' = phase + 1 /\ left' = left
      \/ phase + 1 = Period /\ phase' = 0 /\ left' = left - 1
  <2>1. CASE phase + 1 < Period
    <3> DEFINE n == phase + 1
    <3>1. n \in Int /\ n \in 0 .. Period - 1
      BY <1>1, <2>1
    <3> HIDE DEF n
    <3>2. n % Period = n
      BY <1>1, <3>1, Remainder
    <3> QED
      BY <1>1, <1>2, <2>1, <3>2 DEF n
  <2>2. CASE phase + 1 = Period
    <3>1. (phase + 1) % Period = 0
      BY <1>1, <2>2, Z3
    <3> QED
      BY <1>2, <2>2, <3>1
  <2> QED
    BY <1>1, <2>1, <2>2
<1>4. (left - 1) * Period = left * Period - Period
  BY <1>1, Z3
<1>5. elapsed' + left' * Period - phase' = elapsed + left * Period - phase
  <2> DEFINE before == left * Period
             after == left' * Period
  <2>1. before \in Int
    BY <1>1
  <2>2. \/ phase + 1 < Period /\ phase' = phase + 1 /\ after = before
        \/ phase + 1 = Period /\ phase' = 0 /\ after = before - Period
    BY <1>3, <1>4
  <2> HIDE DEF before, after
  <2>3. ASSUME NEW e \in Int, NEW p \in Int, NEW q, NEW a, NEW b \in Int,
               \/ q = p + 1 /\ a = b
               \/ p + 1 = Period /\ q = 0 /\ a = b - Period
        PROVE  e + 1 + a - q = e + b - p
    BY <1>1, <2>3
  <2>4. elapsed' + after - phase' = elapsed + before - phase
    BY <1>1, <1>2, <2>1, <2>2, <2>3
  <2> QED
    BY <2>4 DEF before, after
<1>6. elapsed' # 0 /\ (left' = 0 => phase' = 0)
  BY <1>1, <1>2, <1>3
<1>7. Period' = Period
  BY DEF Period
<1>8. left' \in 0 .. Forever /\ phase' \in 0 .. Period - 1 /\ elapsed' \in Nat
  BY <1>1, <1>2, <1>3
<1>9. Ticks' # Forever'
  BY <1>2 DEF TimeKept, Pass, Forever
<1>10. /\ elapsed + left * Period - phase <= Ticks * Period
       /\ Ticks * Period < elapsed + left * Period - phase + Period
  BY DEF TimeKept
<1>11. /\ elapsed' + left' * Period' - phase' <= Ticks' * Period'
       /\ Ticks' * Period' < elapsed' + left' * Period' - phase' + Period'
  BY <1>2, <1>5, <1>7, <1>10
<1> QED
  BY <1>6, <1>8, <1>9, <1>11 DEF TimeKept

-----------------------------------------------------------------------------
(* The invariant.                                                          *)

\* At first nothing waits.
LEMMA WaitInit == Init => WaitInv
<1> SUFFICES ASSUME Init PROVE WaitInv
  OBVIOUS
<1>1. 0 \in 0 .. Period - 1 /\ 0 \in 0 .. Forever
  BY Numbers
<1>2. /\ created \in BOOLEAN /\ flags \subseteq Status /\ met \in BOOLEAN
      /\ text \in SUBSET Lines
  BY DEF Init
<1>3. pc = "idle" /\ awaited = "none" /\ limit = 0 /\ elapsed = 0 /\ ~met
  BY DEF Init
<1>4. left \in 0 .. Forever /\ phase \in 0 .. Period - 1
  BY <1>1 DEF Init
<1>5. WaitsTypeOK
  BY <1>2, <1>3, <1>4 DEF WaitsTypeOK
<1> QED
  BY <1>3, <1>5 DEF WaitInv

\* What changes neither flags nor the wait does not matter.
LEMMA WaitQuiet ==
    ASSUME WaitInv, UNCHANGED <<core, pc, clocks>>,
           text' \subseteq Lines
    PROVE  WaitInv'
BY DEF WaitInv, WaitsTypeOK, TimeKept, Ticks, Period, core, clocks

\* The rest of the core only ever sets flags.
LEMMA WaitEnvironment == ASSUME WaitInv, Environment PROVE WaitInv'
<1>1. CASE Create
  BY <1>1 DEF Create, WaitInv, WaitsTypeOK, TimeKept, Ticks, Period, clocks
<1>2. CASE \E l \in Lines : Receive(l)
  BY <1>2, WaitQuiet DEF Receive, WaitInv, WaitsTypeOK
<1>3. ASSUME NEW f \in Status, Raise(f) PROVE WaitInv'
  <2>1. awaited # "none" \/ awaited # f
    BY <1>3, LimitAssumption DEF StatusFlags
  <2>2. TimeKept' <=> TimeKept
    BY <1>3 DEF Raise, TimeKept, Ticks, Period
  <2> QED
    BY <1>3, <2>1, <2>2 DEF Raise, WaitInv, WaitsTypeOK
<1> QED
  BY <1>1, <1>2, <1>3 DEF Environment

\* A call that returns, or is cut off by a restart, leaves nothing of its wait.
LEMMA WaitReturned ==
    ASSUME WaitInv, NEW r, Return(r), created' \in BOOLEAN, flags' \subseteq Status,
           text' \subseteq Lines
    PROVE  WaitInv'
<1>1. 0 \in 0 .. Period - 1 /\ 0 \in 0 .. Forever
  BY Numbers
<1>2. /\ pc' = "idle" /\ awaited' = "none" /\ ~met'
      /\ limit' = 0 /\ left' = 0 /\ phase' = 0 /\ elapsed' = 0
  BY DEF Return
<1>3. left' \in 0 .. Forever' /\ phase' \in 0 .. Period' - 1
  BY <1>1, <1>2 DEF Forever, Period
<1>4. limit' \in Int /\ elapsed' \in Nat
  <2>1. limit' = 0 /\ elapsed' = 0
    BY <1>2
  <2> QED
    BY <2>1
<1>5. pc' \in {"idle", "wait", "read"} \cup Commands /\ awaited' \in Awaitable \cup {"none"}
  BY <1>2
<1>6. met' \in BOOLEAN
  BY Zenon DEF Return
<1>7. WaitsTypeOK'
  BY <1>3, <1>4, <1>5, <1>6 DEF WaitsTypeOK
<1> QED
  BY <1>2, <1>7 DEF WaitInv

\* A wait for a flag begins.
LEMMA WaitWait ==
    ASSUME WaitInv, NEW f \in Awaitable, NEW ms \in Limits, Wait(f, ms)
    PROVE  WaitInv'
<1>1. Unsigned(ms) \in 0 .. Forever /\ ms \in Int
  BY LimitRange
<1>2. ms_to_ticks(Unsigned(ms)) \in 0 .. Forever
  BY <1>1, FlagTicks
<1>3. Ticks' = ms_to_ticks(Unsigned(ms))
  BY DEF Wait, Block, Ticks
<1>4. TimeKept'
  BY <1>2, <1>3, WaitBegins DEF Wait, Block
<1>5. f # "none"
  BY DEF Awaitable
<1>6. WaitsTypeOK'
  BY <1>1, <1>2, <1>5 DEF Wait, Block, WaitInv, WaitsTypeOK, core
<1> QED
  BY <1>4, <1>5, <1>6 DEF Wait, Block, WaitInv, core

\* So does the wait for the reply to a command.
LEMMA WaitCommand ==
    ASSUME WaitInv, NEW at \in Commands, NEW ms \in Nat, Command(at, ms)
    PROVE  WaitInv'
<1>1. pdMS_TO_TICKS(ms) \in 0 .. Forever
  BY TicksType
<1>2. Ticks' = pdMS_TO_TICKS(ms)
  BY DEF Command, Block, Ticks
<1>3. TimeKept'
  BY <1>1, <1>2, WaitBegins DEF Command, Block
<1> QED
  BY <1>1, <1>3 DEF Command, Block, WaitInv, WaitsTypeOK, core

\* A call of the core begins.
LEMMA WaitCall == ASSUME WaitInv, Calls PROVE WaitInv'
<1>1. CASE Refuse \/ SignalUnknown \/ \E f \in Status : Get(f)
  BY <1>1, WaitReturned DEF Refuse, SignalUnknown, Get, WaitInv, WaitsTypeOK, core
<1>2. CASE SignalStrength
  BY <1>2, WaitCommand, LimitAssumption DEF SignalStrength
<1>3. CASE \E f \in Awaitable \cap Status, ms \in Limits : Wait(f, ms)
  BY <1>3, WaitWait
<1> QED
  BY <1>1, <1>2, <1>3 DEF Calls

\* A wait without limit is never over but with its flag.
LEMMA NoLimit == ASSUME WaitInv, pc = "wait", limit = -1 PROVE ~TimeUp
<1>1. Unsigned(limit) = Forever /\ Forever \in Nat \ {0}
  BY LimitRange, Numbers DEF WaitInv
<1>2. Ticks = Forever
  BY <1>1, FlagTicks DEF Ticks
<1> QED
  BY <1>1, <1>2 DEF WaitInv, TimeKept, TimeUp

\* The wait goes on or is over.
LEMMA WaitStepKeeps == ASSUME WaitInv, Step PROVE WaitInv'
<1>1. CASE Pass
  <2>1. pc \in {"wait"} \cup Commands
    BY <1>1 DEF Pass, Waiting
  <2>2. TimeKept' /\ left' \in 0 .. Forever /\ phase' \in 0 .. Period - 1 /\ elapsed' \in Nat
    BY <1>1, <2>1, PassKeeps DEF WaitInv
  <2> QED
    BY <1>1, <2>1, <2>2 DEF Pass, WaitInv, WaitsTypeOK, core
<1>2. CASE Wake
  <2>1. limit = -1 => awaited \in flags
    BY <1>2, NoLimit DEF Wake, Satisfied
  <2> QED
    BY <1>2, <2>1 DEF Wake, WaitInv, WaitsTypeOK, core, clocks
<1>3. CASE Read \/ Reply \/ Strength
  BY <1>3, WaitReturned DEF Read, Reply, Strength, WaitInv, WaitsTypeOK, core
<1> QED
  BY <1>1, <1>2, <1>3 DEF Step

\* After a restart nothing waits.
LEMMA WaitReset == ASSUME WaitInv, Reset PROVE WaitInv'
<1>1. /\ created' = FALSE /\ flags' = {} /\ text' = {}
      /\ Return("none")
  BY DEF Reset, Panic, BringUpPanic, Restart
<1> QED
  BY <1>1, WaitReturned

-----------------------------------------------------------------------------
(* What the invariant says of the properties.                              *)

\* A wait that is over has lasted its ticks, less the part of the first.
LEMMA OverInTime ==
    ASSUME WaitInv, TimeUp, Fits(limit)
    PROVE  /\ limit < elapsed + 2 * Period
           /\ elapsed <= limit \/ elapsed <= Period
<1>1. /\ elapsed \in Nat /\ phase \in Nat /\ phase < Period /\ left = 0 /\ limit \in Nat
      /\ Period \in Nat \ {0}
  BY Numbers DEF WaitInv, WaitsTypeOK, TimeUp, Fits
<1>2. TimeKept /\ pc \in {"wait"} \cup Commands
  BY DEF WaitInv, TimeUp, Waiting
<1>3. /\ pdMS_TO_TICKS(limit) \in Nat
      /\ Period * pdMS_TO_TICKS(limit) <= limit
      /\ limit < Period * pdMS_TO_TICKS(limit) + Period
  BY <1>1, TicksRoundDown
<1>4. Ticks = pdMS_TO_TICKS(limit) \/ (Ticks = 1 /\ pdMS_TO_TICKS(limit) = 0) \/ Ticks = Forever
  <2>1. Unsigned(limit) = limit
    <3>1. limit * Hz < Words /\ Hz \in Nat \ {0} /\ Words \in Nat \ {0}
      BY Numbers, RateAssumption DEF Fits
    <3>2. limit <= limit * Hz
      BY <1>1, <3>1, Z3
    <3>3. limit \in 0 .. Words - 1
      <4> DEFINE n == limit * Hz
      <4>1. n \in Int /\ limit <= n /\ n < Words
        BY <1>1, <3>1, <3>2
      <4> HIDE DEF n
      <4> QED
        BY <1>1, <3>1, <4>1
    <3>4. limit \in Int
      BY <1>1
    <3>5. limit % Words = limit
      <4> DEFINE w == Words
      <4>1. w \in Nat \ {0} /\ limit \in 0 .. w - 1
        BY <3>1, <3>3
      <4> HIDE DEF w
      <4>2. limit % w = limit
        BY <3>4, <4>1, Remainder
      <4> QED
        BY <4>2 DEF w
    <3> QED
      BY <3>5 DEF Unsigned
  <2>2. limit = 0 => pdMS_TO_TICKS(limit) = 0
    BY <1>1, <1>3, Z3
  <2>3. pc \in Commands => Ticks = pdMS_TO_TICKS(limit)
    BY DEF Ticks
  <2>4. pc = "wait" => Ticks = ms_to_ticks(limit)
    BY <2>1 DEF Ticks
  <2> QED
    BY <1>2, <2>2, <2>3, <2>4 DEF ms_to_ticks
<1>5. Ticks # Forever
  BY <1>1, <1>2, Numbers DEF TimeKept
<1> DEFINE t == Ticks * Period
           q == pdMS_TO_TICKS(limit)
<1>6. t \in Int /\ q \in Nat
  BY <1>1, <1>3, <1>4, Numbers
<1>7. (phase = 0 /\ elapsed <= t /\ t < elapsed + Period) \/ (elapsed = 0 /\ Ticks = 0)
  BY <1>1, <1>2 DEF TimeKept
<1>8. t = Period * q \/ (t = Period /\ Period * q = 0)
  BY <1>1, <1>3, <1>4, <1>5, Z3
<1>9. Ticks = 0 => t = 0
  BY <1>1
<1> DEFINE r == Period * q
<1>10. r \in Int /\ r <= limit /\ limit < r + Period /\ (t = r \/ (t = Period /\ r = 0))
  BY <1>1, <1>3, <1>6, <1>8
<1> HIDE DEF t, q, r
<1> QED
  BY <1>1, <1>6, <1>7, <1>9, <1>10

\* LimitKept and ShortWaitBlocks follow from the invariant.
LEMMA InvLimitKept == WaitInv => LimitKept
BY OverInTime DEF LimitKept

LEMMA InvShortWaitBlocks == WaitInv => ShortWaitBlocks
<1> SUFFICES ASSUME WaitInv, TimeUp, pc = "wait", limit > 0
             PROVE  elapsed > 0
  BY DEF ShortWaitBlocks
<1>1. Unsigned(limit) \in 0 .. Forever /\ Unsigned(limit) # 0
  BY LimitRange DEF WaitInv
<1>2. Ticks # 0
  BY <1>1, FlagTicks DEF Ticks
<1>3. left = 0 /\ elapsed \in Nat /\ TimeKept
  BY DEF WaitInv, WaitsTypeOK, TimeUp
<1> QED
  BY <1>2, <1>3 DEF TimeKept

\* So do the two properties of what a wait returns: when it returns, the flag that
\* was met, or without which there was no end, is set.
LEMMA InvRead ==
    ASSUME WaitInv, Read, met \/ limit = -1
    PROVE  result' = "OK"
BY DEF WaitInv, Read, Return

-----------------------------------------------------------------------------
(* The functions of the core by themselves.                                *)

\* Every step keeps the invariant.
LEMMA WaitNext == WaitInv /\ [Next]_vars => WaitInv'
<1> SUFFICES ASSUME WaitInv, [Next]_vars PROVE WaitInv'
  OBVIOUS
<1>1. CASE UNCHANGED vars
  BY <1>1, WaitQuiet DEF vars, WaitInv, WaitsTypeOK
<1> QED
  BY <1>1, WaitEnvironment, WaitCall, WaitStepKeeps, WaitReset DEF Next

\* The waits keep their types and their time whenever the functions of the core
\* are called, without the MQTT client.
THEOREM WaitsCorrect == Spec => []WaitInv
BY WaitInit, WaitNext, PTL DEF Spec

-----------------------------------------------------------------------------
(* How long AT+CSQ waits.                                                  *)

\* The only command of the core by itself waits for what is configured, taken
\* for milliseconds.
CommandLimit == pc = "csq" => limit = AtWaitTicks

LEMMA CommandLimitKept == Spec => []CommandLimit
<1>1. Init => CommandLimit
  BY DEF Init, CommandLimit
<1>2. CommandLimit /\ [Next]_vars => CommandLimit'
  <2> SUFFICES ASSUME CommandLimit, [Next]_vars PROVE CommandLimit'
    OBVIOUS
  <2>1. CASE UNCHANGED vars \/ Environment
    BY <2>1 DEF vars, clocks, Environment, Create, Raise, Receive, CommandLimit
  <2>2. CASE Calls
    BY <2>2 DEF Calls, Refuse, SignalUnknown, Get, Wait, SignalStrength, Command,
                Block, Return, CommandLimit
  <2>3. CASE Step \/ Reset
    BY <2>3 DEF Step, Pass, Wake, Read, Reply, Strength, Reset, Panic, BringUpPanic,
                Restart, Return, clocks, CommandLimit
  <2> QED
    BY <2>1, <2>2, <2>3 DEF Next
<1> QED
  BY <1>1, <1>2, PTL DEF Spec

\* With a tick of a millisecond the wait is as long as configured: the two units
\* that lwlte_core_get_signal_strength takes for each other are then one.
THEOREM ConfiguredIfTickIsMs ==
    ASSUME Period = 1, Fits(AtWaitTicks) PROVE Spec => []ConfiguredWait
<1>1. WaitInv /\ CommandLimit => ConfiguredWait
  <2> SUFFICES ASSUME WaitInv, CommandLimit, TimeUp, pc = "csq"
               PROVE  elapsed > (AtWaitTicks - 1) * Period
    BY DEF ConfiguredWait
  <2>1. /\ AtWaitTicks \in Nat /\ elapsed \in Nat /\ phase \in Nat /\ left = 0
        /\ phase = 0
    BY LimitAssumption DEF WaitInv, WaitsTypeOK, TimeUp
  <2>2. Ticks = AtWaitTicks
    <3>1. Ticks = pdMS_TO_TICKS(AtWaitTicks)
      BY DEF CommandLimit, Ticks
    <3> QED
      BY <2>1, <3>1, TicksRoundDown
  <2>3. Ticks * Period < elapsed + left * Period - phase + Period
    BY DEF WaitInv, TimeKept
  <2> QED
    BY <2>1, <2>2, <2>3
<1> QED
  BY <1>1, WaitsCorrect, CommandLimitKept, PTL

\* With any longer tick no command that has run out of time has waited for the
\* ticks that are configured, not even for one less.
ShorterThanConfigured ==
    TimeUp /\ pc = "csq" => elapsed <= (AtWaitTicks - 1) * Period

\* The wait for a command's reply is always cut short, at every tick rate but
\* that of one tick a millisecond.
THEOREM NeverAsConfigured ==
    ASSUME Period > 1, AtWaitTicks > 1, Fits(AtWaitTicks)
    PROVE  Spec => []ShorterThanConfigured
<1>1. WaitInv /\ CommandLimit => ShorterThanConfigured
  <2> SUFFICES ASSUME WaitInv, CommandLimit, TimeUp, pc = "csq"
               PROVE  elapsed <= (AtWaitTicks - 1) * Period
    BY DEF ShorterThanConfigured
  <2>1. limit = AtWaitTicks /\ AtWaitTicks \in Nat /\ Period \in Nat /\ elapsed \in Nat
    BY LimitAssumption, Numbers DEF CommandLimit, WaitInv, WaitsTypeOK
  <2>2. elapsed <= AtWaitTicks \/ elapsed <= Period
    BY <2>1, OverInTime
  <2>3. ASSUME NEW t \in Nat, NEW p \in Nat, t > 1, p > 1
        PROVE  t <= (t - 1) * p /\ p <= (t - 1) * p
    BY <2>3, Z3
  <2>4. AtWaitTicks <= (AtWaitTicks - 1) * Period /\ Period <= (AtWaitTicks - 1) * Period
    BY <2>1, <2>3
  <2> DEFINE bound == (AtWaitTicks - 1) * Period
  <2>5. bound \in Int
    BY <2>1
  <2> HIDE DEF bound
  <2>6. AtWaitTicks <= bound /\ Period <= bound
    BY <2>4 DEF bound
  <2>7. elapsed <= bound
    BY <2>1, <2>2, <2>5, <2>6
  <2> QED
    BY <2>7 DEF bound
<1> QED
  BY <1>1, WaitsCorrect, CommandLimitKept, PTL

=============================================================================
