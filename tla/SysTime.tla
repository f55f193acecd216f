------------------------------- MODULE SysTime -------------------------------
(***************************************************************************)
(* Times as the port layer passes them to FreeRTOS: lwlte_base_type_t is   *)
(* signed, the time-outs of flags and queues are uint32_t, ticks are       *)
(* TickType_t, and all have the same width. A millisecond is the unit.     *)
(***************************************************************************)
EXTENDS Integers

CONSTANTS
    Words,   \* how many values uint32_t and TickType_t have: 2^32
    Hz,      \* configTICK_RATE_HZ (sdkconfig:1273)
    Second   \* milliseconds in a second: 1000

ASSUME RateAssumption ==
    /\ Words \in Nat /\ Hz \in Nat \ {0} /\ Second \in Nat \ {0}
    /\ Second % Hz = 0
    /\ Second < Words

\* portTICK_PERIOD_MS
Period == Second \div Hz

\* A value of lwlte_base_type_t where uint32_t is expected.
Unsigned(n) == n % Words

\* LWLTE_SYS_WAIT_FOREVER in milliseconds, portMAX_DELAY in ticks.
Forever == Words - 1

\* FreeRTOS's macro: the product has the width of TickType_t.
pdMS_TO_TICKS(ms) == ((ms * Hz) % Words) \div Second

\* Mutants: a short wait is no wait; no value stands for a wait without limit;
\* one tick more for the one that has begun; milliseconds taken for ticks.
ms_to_ticks_floor(ms) == IF ms = Forever THEN Forever ELSE pdMS_TO_TICKS(ms)
ms_to_ticks_finite(ms) ==
    LET t == pdMS_TO_TICKS(ms) IN IF ms > 0 /\ t = 0 THEN 1 ELSE t

ms_to_ticks_more(ms) ==
    IF ms = 0 THEN 0 ELSE IF ms = Forever THEN Forever + 1 ELSE pdMS_TO_TICKS(ms) + 1

ms_to_ticks_raw(ms) == ms

\* Flags and queues: a wait of less than a tick becomes one of a tick.
ms_to_ticks(ms) ==
    LET t == pdMS_TO_TICKS(ms)
    IN  IF ms = 0 THEN 0
        ELSE IF ms = Forever THEN Forever
        ELSE IF t = 0 THEN 1 ELSE t

\* Times for which the product in pdMS_TO_TICKS does not overflow.
Fits(ms) == ms >= 0 /\ ms * Hz < Words

\* lwlte_sys_time_get_ms, a product of the same width; and the test of the
\* bring-up's loop, a difference of it.
get_ms(ticks) == (ticks * Period) % Words
Within(start, now, max) == (now - start) % Words < Unsigned(max)

=============================================================================
