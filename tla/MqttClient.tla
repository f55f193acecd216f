----------------------------- MODULE MqttClient -----------------------------
(***************************************************************************)
(* The MQTT client: a task of the application that calls                   *)
(* lwlte_mqtt_client_init, _deinit and the functions that are stubs, and   *)
(* besides them the functions of CoreWaits. Init waits for the module,     *)
(* copies the configuration field by field into the context of the client, *)
(* and sends AT+MCONFIG with what the context then holds.                  *)
(*                                                                         *)
(* A pointer of the context is NULL, refers to a copy with or without      *)
(* text, or to memory that was freed. Behind an access to freed memory     *)
(* nothing can be said of the program: the client is not called again.     *)
(***************************************************************************)
EXTENDS CoreWaits

CONSTANTS
    Extras,     \* optional strings besides the will: "username", "password"
    CommandMs   \* the time AT+MCONFIG may take: 10000

ASSUME MqttAssumption ==
    /\ Extras \subseteq {"username", "password"}
    /\ CommandMs \in Nat \ {0}

VARIABLES
    mpc,           \* where the task stands in lwlte_mqtt_client_init_internal
    strs,          \* the pointers of s_lwlte_mqtt_client_context.config
    ints,          \* the numbers of it that are not LWLTE_MQTT_CFG_UNSET_INT
    client_flags,  \* s_lwlte_mqtt_client_context.flags is not NULL
    will,          \* has_will
    response_buf,  \* the buffer of init: "unset", an "empty" string or a "copied" reply
    fault,         \* history: freed memory was read, or freed again
    leaked,        \* history: a copy was replaced and not freed
    careful,       \* history: the caller has paired its calls so far, see Careful
    open,          \* history: a configuration is set, and no deinit since
    deinited,      \* history: deinit was called
    given          \* history: the strings ever given, and the will of this call

context == <<strs, ints, client_flags>>
memory == <<fault, leaked>>
caller == <<careful, open, deinited, given>>
clientVars == <<mpc, context, will, response_buf, memory, caller>>
mvars == <<vars, clientVars>>

Necessary == {"client_id", "uri"}
WillStrings == {"will_topic", "will_message"}
Strs == Necessary \cup Extras \cup WillStrings
WillInts == {"will_qos", "will_retain"}

\* A valid configuration. The port, clean_session and keepalive are copied too,
\* but nothing reads them.
Configs ==
    {c \in [strs : [Strs -> {"null", "text", "empty"}], ints : SUBSET WillInts] :
        /\ \A s \in Necessary : c.strs[s] = "text"
        /\ \A s \in Extras : c.strs[s] # "empty"}
Set(c) == {s \in Strs : c.strs[s] # "null"}
HasWill(c) ==
    /\ \A s \in WillStrings : c.strs[s] = "text"
    /\ c.ints = WillInts

\* The context is static: before the first deinit the numbers are 0, not unset.
MInit ==
    /\ Init
    /\ mpc = "idle"
    /\ strs = [s \in Strs |-> "null"]
    /\ ints = WillInts
    /\ client_flags = FALSE
    /\ will = FALSE
    /\ response_buf = "unset"
    /\ fault = FALSE /\ leaked = FALSE
    /\ careful = TRUE /\ open = FALSE /\ deinited = FALSE
    /\ given = [strs |-> {}, will |-> FALSE]

\* lwlte_err_2_esp_err, for the errors the client returns.
EspErr(err) ==
    IF err = "OK" THEN "ESP_OK"
    ELSE IF err = "INVALID_ARG" THEN "ESP_ERR_INVALID_ARG"
    ELSE IF err = "NOT_INITIALIZED" THEN "ESP_ERR_NOT_ALLOWED"
    ELSE "ESP_FAIL"

Idle == pc = "idle" /\ mpc = "idle"
Usable == Idle /\ ~fault

\* A function of the client returns.
Finish(err) ==
    /\ mpc' = "idle"
    /\ result' = EspErr(err)
    /\ text' = {}
    /\ UNCHANGED <<core, pc, clocks>>

-----------------------------------------------------------------------------
(* lwlte_mqtt_client_init                                                  *)

\* There is no configuration, or a necessary field of it is not set.
Invalid ==
    /\ Usable
    /\ Finish("INVALID_ARG")
    /\ UNCHANGED <<context, will, response_buf, memory, caller>>

ClientInit ==
    /\ Usable
    /\ Refuse \/ \E ms \in Limits : Wait("MODULE_READY", ms)
    /\ mpc' = "ready"
    /\ UNCHANGED <<context, will, response_buf, memory, caller>>

\* Mutant: init waits again, until the module is ready.
NotReadyAgain ==
    /\ mpc = "ready"
    /\ pc = "idle"
    /\ result # "OK"
    /\ Wait("MODULE_READY", CommandMs)
    /\ UNCHANGED clientVars

\* The wait returned LWLTE_TIMEOUT or LWLTE_NOT_INITIALIZED.
NotReady ==
    /\ mpc = "ready"
    /\ pc = "idle"
    /\ result # "OK"
    /\ Finish("NOT_INITIALIZED")
    /\ UNCHANGED <<context, will, response_buf, memory, caller>>

\* lwlte_mqtt_client_config_copy: a field that is not given keeps its value.
Copy(c) ==
    /\ strs' = [s \in Strs |-> IF s \in Set(c) THEN c.strs[s] ELSE strs[s]]
    /\ ints' = ints \cup c.ints

\* A caller is careful if every configuration is set once and then released, and
\* if it gives every string it ever gave.
Configure ==
    /\ mpc = "ready"
    /\ pc = "idle"
    /\ result = "OK"
    /\ mpc' = "send"
    /\ client_flags' = TRUE
    /\ \E c \in Configs :
         /\ Copy(c)
         /\ leaked' = (leaked \/ \E s \in Set(c) : strs[s] \in {"text", "empty"})
         /\ careful' = (careful /\ ~open /\ given.strs \subseteq Set(c))
         /\ given' = [strs |-> given.strs \cup Set(c), will |-> HasWill(c)]
    /\ open' = TRUE
    /\ UNCHANGED <<vars, will, response_buf, fault, deinited>>

\* Whatever freed memory holds, it is taken for a string.
Content(s) == IF strs[s] = "freed" THEN {"text", "empty"} ELSE {strs[s]}

\* Mutant: response_buf has no initial value.
ClearBufferDropped == UNCHANGED response_buf

ClearBuffer == response_buf' = "empty"

\* The message is looked at only if there is a topic; the command, cut or whole,
\* names the client, the user and the password.
Send ==
    /\ mpc = "send"
    /\ mpc' = "reply"
    /\ \E topic \in Content("will_topic"), message \in Content("will_message") :
         LET read == {"client_id", "will_topic"} \cup Extras
                     \cup (IF topic = "text" THEN {"will_message"} ELSE {})
         IN  /\ will' = (topic = "text" /\ message = "text" /\ ints = WillInts)
             /\ fault' = (fault \/ \E s \in read : strs[s] = "freed")
    /\ ClearBuffer
    /\ Command("command", CommandMs)
    /\ UNCHANGED <<context, leaked, caller>>

\* Whether strstr finds "OK" in the buffer, and in what lies behind it: the copy
\* stores no terminator. A reply of that one line fits in the buffer; of a longer
\* one the end may be cut off.
MayFind(found) ==
    /\ response_buf = "empty" => ~found
    /\ response_buf = "copied" /\ text = {"OK"} => found

Conclude ==
    /\ mpc = "reply"
    /\ pc = "idle"
    /\ \E found \in BOOLEAN :
         /\ MayFind(found)
         /\ Finish(IF found THEN "OK" ELSE "ERROR")
    /\ response_buf' = "unset"
    /\ will' = FALSE
    /\ UNCHANGED <<context, memory, caller>>

-----------------------------------------------------------------------------
(* The other functions of the client.                                      *)

\* Mutants: the numbers of the will stay; the broker's string is forgotten.
ReleaseStringsOnly ==
    /\ strs' = [s \in Strs |-> IF strs[s] = "null" THEN "null" ELSE "freed"]
    /\ client_flags' = FALSE
    /\ UNCHANGED ints
ReleaseClientOnly ==
    /\ strs' = [s \in Strs |->
                   IF s = "uri" \/ strs[s] = "null" THEN strs[s] ELSE "freed"]
    /\ ints' = {}
    /\ client_flags' = FALSE

\* The pointers are not set to NULL.
Release ==
    /\ strs' = [s \in Strs |-> IF strs[s] = "null" THEN "null" ELSE "freed"]
    /\ ints' = {}
    /\ client_flags' = FALSE

Deinit ==
    /\ Usable
    /\ Finish("OK")
    /\ Release
    /\ fault' = \E s \in Strs : strs[s] = "freed"
    /\ careful' = (careful /\ (open \/ given.strs = {}))
    /\ open' = FALSE
    /\ deinited' = TRUE
    /\ UNCHANGED <<will, response_buf, leaked, given>>

\* Connect, disconnect, subscribe, unsubscribe and publish do nothing.
Stub ==
    /\ Usable
    /\ Finish("OK")
    /\ UNCHANGED <<context, will, response_buf, memory, caller>>

-----------------------------------------------------------------------------
(* Composition with the core.                                              *)

\* With the reply the buffer is written, unless there is nothing to copy.
WaitStep ==
    /\ Step
    /\ response_buf' = IF pc = "command" /\ pc' = "idle" /\ text # {}
                       THEN "copied" ELSE response_buf
    /\ UNCHANGED <<mpc, context, will, memory, caller>>

\* The chip restarts: the context is what it was, and the caller begins anew.
MReset ==
    /\ Reset
    /\ mpc' = "idle"
    /\ strs' = [s \in Strs |-> "null"]
    /\ ints' = WillInts
    /\ client_flags' = FALSE
    /\ will' = FALSE
    /\ response_buf' = "unset"
    /\ fault' = FALSE /\ leaked' = FALSE
    /\ careful' = TRUE /\ open' = FALSE /\ deinited' = FALSE
    /\ given' = [strs |-> {}, will |-> FALSE]

CoreCall ==
    /\ mpc = "idle"
    /\ Calls
    /\ UNCHANGED clientVars

MEnvironment ==
    /\ Environment
    /\ UNCHANGED clientVars

InitStep == NotReady \/ Configure \/ Send \/ Conclude

MNext ==
    \/ MEnvironment \/ CoreCall \/ WaitStep \/ MReset
    \/ Invalid \/ ClientInit \/ InitStep \/ Deinit \/ Stub

MSpec == MInit /\ [][MNext]_mvars

\* Time goes on, and the scheduler runs the task when its wait is over.
FairMSpec == MSpec /\ WF_mvars(WaitStep) /\ WF_mvars(InitStep)

-----------------------------------------------------------------------------
(* Properties.                                                             *)

\* Every variable has its type.
MTypeOK ==
    /\ WaitsTypeOK
    /\ result \in Results
          \cup {"none", "ESP_OK", "ESP_FAIL", "ESP_ERR_INVALID_ARG", "ESP_ERR_NOT_ALLOWED"}
    /\ mpc \in {"idle", "ready", "send", "reply"}
    /\ strs \in [Strs -> {"null", "text", "empty", "freed"}]
    /\ ints \subseteq WillInts
    /\ client_flags \in BOOLEAN /\ will \in BOOLEAN
    /\ response_buf \in {"unset", "empty", "copied"}
    /\ fault \in BOOLEAN /\ leaked \in BOOLEAN
    /\ careful \in BOOLEAN /\ open \in BOOLEAN /\ deinited \in BOOLEAN
    /\ given \in [strs : SUBSET Strs, will : BOOLEAN]

\* Who releases each configuration before setting the next, and always gives the
\* strings it ever gave, never makes the client read freed memory, free it again
\* or lose a copy, although deinit leaves its pointers behind.
CarefulUseSafe == careful => ~fault /\ ~leaked

\* After a deinit, the will of a careful caller's configuration is what its four
\* fields say: sent if all are set, and otherwise ignored.
WillFollowsConfig == mpc = "reply" /\ careful /\ deinited => (will <=> given.will)

\* Init reports success only if something was received while its command was
\* being sent, although it ignores the result of sending and its buffer lies on a
\* used stack: a modem that stays silent is not taken for one that agrees.
SilenceFails ==
    [][mpc = "reply" /\ mpc' = "idle" /\ result' = "ESP_OK" => text # {}]_mvars

\* Init with a limit comes to an end, whatever the module does: it returns, or the
\* chip restarts under it.
InitReturns == mpc # "idle" /\ limit # -1 ~> mpc = "idle"

\* lwlte_mqtt.h: if one of the fields of the will is not set, the will is ignored.
WillDocumented == mpc = "reply" /\ will => given.will

=============================================================================
