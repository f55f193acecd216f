----------------------------- MODULE MCAtWaiter -----------------------------
(* AtWaiter for TLC: two callers, the commands AT+CPIN? and AT+CSQ, and one  *)
(* line of each kind handle_one_line tells apart.                            *)
EXTENDS AtWaiter, TLC

CONSTANTS c1, c2, cpin, csq

MCCallers == {c1, c2}
MCOneCaller == {c1}
MCCmds == {cpin, csq}
MCWaitStr == [k \in Cmds |-> IF k = cpin THEN "+CPIN: READY" ELSE "OK"]
MCErrStr == [k \in Cmds |-> "ERROR"]

\* Each line is named after the string that occurs in it; "" is any other line.
MCLines == {"+CPIN: READY", "OK", "ERROR"}
MCAllLines == MCLines \cup {"RDY", "+CGEV: ME PDN ACT", "+MSUB:", ""}
MCHas == [l \in MCAllLines |-> IF l = "" THEN {} ELSE {l}]

CallerSymmetry == Permutations(Callers)

=============================================================================
