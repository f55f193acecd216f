------------------------------ MODULE MCAtModem ------------------------------
(* AtModem for TLC: the lines and commands of MCAtWaiter, with a modem.      *)
EXTENDS AtModem

CONSTANTS c1, c2, cpin, csq

MCCmds == {cpin, csq}
MCWaitStr == [k \in Cmds |-> IF k = cpin THEN "+CPIN: READY" ELSE "OK"]
MCErrStr == [k \in Cmds |-> "ERROR"]

\* Each line is named after the string that occurs in it; "" is any other line.
MCLines == {"+CPIN: READY", "OK", "ERROR", "RDY", "+CGEV: ME PDN ACT",
            "+MSUB:", ""}
MCHas == [l \in MCLines |-> IF l = "" THEN {} ELSE {l}]

\* Every reply ends with the line that is waited for.
MCNothingAfter == [k \in Cmds |-> {}]

\* Behind the reply to AT+CPIN? comes a message of the broker, which the code keeps
\* from the waiter.
MCMessageAfter == [k \in Cmds |-> IF k = cpin THEN {"+MSUB:"} ELSE {}]

\* The reply to AT+CPIN? goes on behind "+CPIN: READY" with "OK".
MCOkAfter == [k \in Cmds |-> IF k = cpin THEN {"OK"} ELSE {}]

=============================================================================
