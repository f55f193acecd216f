----------------------------- MODULE AtExchange -----------------------------
(***************************************************************************)
(* What lwlte_core_send_at_cmd_internal promises its callers, without the  *)
(* waiter behind it: a call is refused, or its command goes to the modem,  *)
(* one command at a time; it gets one answer or none in time, and the      *)
(* caller returns that answer.                                             *)
(***************************************************************************)
CONSTANTS Callers

VARIABLES
    phase,    \* phase[c]: "idle", "queued", "asking" or "answered"
    answer,   \* answer[c]: the answer to c's last command
    returned  \* returned[c]: what c's last call returned

vars == <<phase, answer, returned>>

\* "TIMEOUT" stands for no answer within the wait time.
Answers == {"OK", "ERROR", "TIMEOUT"}
Refusals == {"INVALID_ARG", "NOT_INITIALIZED"}

TypeOK ==
    /\ phase \in [Callers -> {"idle", "queued", "asking", "answered"}]
    /\ answer \in [Callers -> Answers \cup {"none"}]
    /\ returned \in [Callers -> Answers \cup Refusals \cup {"none"}]

Init ==
    /\ phase = [c \in Callers |-> "idle"]
    /\ answer = [c \in Callers |-> "none"]
    /\ returned = [c \in Callers |-> "none"]

Refuse(c) ==
    /\ phase[c] = "idle"
    /\ \E e \in Refusals : returned' = [returned EXCEPT ![c] = e]
    /\ UNCHANGED <<phase, answer>>

Request(c) ==
    /\ phase[c] = "idle"
    /\ phase' = [phase EXCEPT ![c] = "queued"]
    /\ returned' = [returned EXCEPT ![c] = "none"]
    /\ UNCHANGED answer

Ask(c) ==
    /\ phase[c] = "queued"
    /\ \A d \in Callers : phase[d] # "asking"
    /\ phase' = [phase EXCEPT ![c] = "asking"]
    /\ answer' = [answer EXCEPT ![c] = "none"]
    /\ UNCHANGED returned

Answer(c, a) ==
    /\ phase[c] = "asking"
    /\ phase' = [phase EXCEPT ![c] = "answered"]
    /\ answer' = [answer EXCEPT ![c] = a]
    /\ UNCHANGED returned

Return(c) ==
    /\ phase[c] = "answered"
    /\ phase' = [phase EXCEPT ![c] = "idle"]
    /\ returned' = [returned EXCEPT ![c] = answer[c]]
    /\ UNCHANGED answer

Next ==
    \E c \in Callers :
        \/ Refuse(c) \/ Request(c) \/ Ask(c) \/ Return(c)
        \/ \E a \in Answers : Answer(c, a)

Spec == Init /\ [][Next]_vars

=============================================================================
