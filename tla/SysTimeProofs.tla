--------------------------- MODULE SysTimeProofs ---------------------------
(***************************************************************************)
(* What the conversions of SysTime return, for every width, tick rate and  *)
(* length of a second.                                                     *)
(***************************************************************************)
EXTENDS SysTime, TLAPS

\* A quotient is the number of whole divisors.
LEMMA Quotient ==
    ASSUME NEW n \in Nat, NEW d \in Nat \ {0}
    PROVE  /\ n \div d \in Nat
           /\ d * (n \div d) <= n
           /\ n < d * (n \div d) + d
BY Z3

\* A remainder is less than what is divided by, and changes nothing below it.
LEMMA Remainder ==
    ASSUME NEW n \in Int, NEW d \in Nat \ {0}
    PROVE  /\ n % d \in 0 .. d - 1
           /\ n \in 0 .. d - 1 => n % d = n
BY Z3

\* A tick takes a whole number of milliseconds, and Hz ticks are a second.
LEMMA PeriodType ==
    /\ Period \in Nat \ {0}
    /\ Period * Hz = Second
BY RateAssumption, Z3 DEF Period

\* Times and ticks have the width of a word.
LEMMA Widths ==
    /\ Words \in Nat \ {0} /\ Forever \in Nat
    /\ \A n \in Int : Unsigned(n) \in 0 .. Forever
BY RateAssumption, Remainder DEF Unsigned, Forever

\* What pdMS_TO_TICKS returns has the width of a word.
LEMMA TicksType == \A ms \in Nat : pdMS_TO_TICKS(ms) \in 0 .. Forever
<1> SUFFICES ASSUME NEW ms \in Nat PROVE pdMS_TO_TICKS(ms) \in 0 .. Forever
  OBVIOUS
<1> DEFINE n == (ms * Hz) % Words
<1>1. n \in 0 .. Words - 1
  BY RateAssumption, Widths, Remainder
<1>2. Second \in Nat \ {0} /\ Words \in Nat
  BY RateAssumption
<1> HIDE DEF n
<1>3. /\ n \div Second \in Nat
      /\ Second * (n \div Second) <= n
  BY <1>1, <1>2, Quotient
<1>4. n \div Second <= n
  <2> DEFINE q == n \div Second
  <2>1. q \in Nat /\ Second * q <= n /\ Second >= 1
    BY <1>2, <1>3
  <2> HIDE DEF q
  <2>2. q <= Second * q
    BY <1>2, <2>1, Z3
  <2>3. q <= n
    BY <1>1, <1>2, <2>1, <2>2
  <2> QED
    BY <2>3 DEF q
<1>5. n \div Second \in 0 .. Words - 1
  BY <1>1, <1>2, <1>3, <1>4
<1> QED
  BY <1>5 DEF n, pdMS_TO_TICKS, Forever

\* A time that fits is rounded down to whole ticks.
LEMMA TicksRoundDown ==
    ASSUME NEW ms \in Nat, Fits(ms)
    PROVE  /\ pdMS_TO_TICKS(ms) \in Nat
           /\ Period * pdMS_TO_TICKS(ms) <= ms
           /\ ms < Period * pdMS_TO_TICKS(ms) + Period
<1> DEFINE q == (ms * Hz) \div Second
<1>1. /\ Hz \in Nat \ {0} /\ Second \in Nat \ {0} /\ Words \in Nat \ {0}
      /\ Period \in Nat \ {0} /\ Period * Hz = Second
  BY RateAssumption, Widths, PeriodType
<1>2. ms * Hz \in 0 .. Words - 1
  BY <1>1 DEF Fits
<1>3. pdMS_TO_TICKS(ms) = q
  <2> DEFINE n == ms * Hz
  <2>1. n \in Int /\ n \in 0 .. Words - 1
    BY <1>1, <1>2
  <2> HIDE DEF n
  <2>2. n % Words = n
    BY <1>1, <2>1, Remainder
  <2> QED
    BY <2>2 DEF n, pdMS_TO_TICKS
<1>4. /\ q \in Nat
      /\ Second * q <= ms * Hz
      /\ ms * Hz < Second * q + Second
  BY <1>1, <1>2, Quotient
<1> HIDE DEF q
<1>5. /\ (Period * q) * Hz <= ms * Hz
      /\ ms * Hz < (Period * q + Period) * Hz
  BY <1>1, <1>4, Z3
<1>6. Period * q <= ms /\ ms < Period * q + Period
  BY <1>1, <1>4, <1>5, Z3
<1> QED
  BY <1>3, <1>4, <1>6

\* The time-out of a flag has the width of a word, and only none at all is no wait.
LEMMA FlagTicks ==
    ASSUME NEW ms \in 0 .. Forever
    PROVE  /\ ms_to_ticks(ms) \in 0 .. Forever
           /\ ms # 0 => ms_to_ticks(ms) # 0
           /\ ms = Forever => ms_to_ticks(ms) = Forever
<1>1. Forever \in Nat /\ Forever >= 1
  BY RateAssumption DEF Forever
<1>2. pdMS_TO_TICKS(ms) \in 0 .. Forever
  BY <1>1, TicksType
<1> QED
  BY <1>1, <1>2 DEF ms_to_ticks

\* The clock the bring-up measures its deadline with, lwlte_sys_time_get_ms, is a
\* product cut to a word of a count that is itself cut to a word: yet the time
\* between two readings is exact across both overflows.
THEOREM DeadlineAcrossWrap ==
    ASSUME NEW s \in Nat, NEW d \in Nat, d * Period < Words, NEW max \in Nat
    PROVE  Within(get_ms(s % Words), get_ms((s + d) % Words), max)
               <=> d * Period < Unsigned(max)
<1>1. Words \in Nat \ {0} /\ Period \in Nat \ {0}
  BY Widths, PeriodType
<1>2. ASSUME NEW t \in Nat
      PROVE  \E k \in Int : get_ms(t % Words) = t * Period - k * Words
  <2>1. PICK i \in Int : t % Words = t - i * Words
    <3>1. t = Words * (t \div Words) + (t % Words)
      BY <1>1, Z3
    <3>2. t \div Words \in Int /\ t % Words \in Int
      BY <1>1, Quotient, Remainder
    <3>3. t % Words = t - (t \div Words) * Words
      BY <1>1, <3>1, <3>2, Z3
    <3> QED
      BY <3>2, <3>3
  <2> DEFINE n == (t - i * Words) * Period
  <2>2. n \in Int
    BY <1>1
  <2>3. get_ms(t % Words) = n % Words
    BY <2>1 DEF get_ms
  <2>4. n = t * Period - (i * Period) * Words
    BY <1>1, Z3
  <2> HIDE DEF n
  <2>5. n = Words * (n \div Words) + (n % Words) /\ n \div Words \in Int
    BY <1>1, <2>2, Z3
  <2>6. n % Words \in Int
    BY <1>1, <2>2, Remainder
  <2> DEFINE k == i * Period + (n \div Words)
  <2>7. n % Words = t * Period - k * Words
    BY <1>1, <2>4, <2>5, <2>6, Z3
  <2>8. k \in Int
    BY <1>1, <2>5
  <2> QED
    BY <2>3, <2>7, <2>8
<1>3. PICK j \in Int : get_ms(s % Words) = s * Period - j * Words
  BY <1>2
<1>4. PICK k \in Int : get_ms((s + d) % Words) = (s + d) * Period - k * Words
  BY <1>2
<1> DEFINE between == get_ms((s + d) % Words) - get_ms(s % Words)
<1>5. between = d * Period + (j - k) * Words
  BY <1>1, <1>3, <1>4, Z3
<1>6. between % Words = d * Period
  <2> DEFINE e == d * Period
             m == j - k
  <2>1. e \in 0 .. Words - 1 /\ m \in Int
    BY <1>1
  <2>2. between = e + m * Words
    BY <1>5
  <2> HIDE DEF e, m, between
  <2>3. between % Words = e
    BY <1>1, <2>1, <2>2, Z3
  <2> QED
    BY <2>3 DEF e
<1> QED
  BY <1>6 DEF Within

=============================================================================
