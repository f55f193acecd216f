------------------------------- MODULE RxPath -------------------------------
(***************************************************************************)
(* The way of the modem's bytes to handle_one_line: the UART driver and    *)
(* its event queue, lwlte_ll_uart_rx_task and lwlte_core_input, the core   *)
(* input queue, and core_worker_task, which splits each item into lines.   *)
(*                                                                         *)
(* The bytes are numbered in the order the modem sends them, and a run of  *)
(* bytes is a pair <<from, to>>: the bytes from + 1 to to. Of a byte only  *)
(* whether it ends a line or is a NUL matters. The modem sends the Bytes   *)
(* bytes of the model once: a bound of the model and not of the code.      *)
(***************************************************************************)
EXTENDS Naturals, SequencesExt

CONSTANTS
    Bytes,        \* how many bytes the modem sends
    Ends,        \* those that are '\n'
    Nuls,        \* those that are '\0'
    EventDepth,  \* length of the driver's event queue
    QueueDepth   \* length of core_input_queue

ASSUME StreamAssumption ==
    /\ Bytes \in Nat
    /\ Ends \subseteq 1..Bytes
    /\ Nuls \subseteq 1..Bytes
    /\ Ends \cap Nuls = {}
    /\ EventDepth \in Nat \ {0}
    /\ QueueDepth \in Nat \ {0}

VARIABLES
    initialized,  \* LWLTE_FLAGS_CORE_INITIALIZED
    sent,         \* bytes received into the driver's ring buffer so far
    read,         \* bytes read out of it so far
    events,       \* the driver's event queue: the sizes of the chunks received
    buf,          \* the chunk the rx task holds, or NoRun
    queue,        \* core_input_queue: runs of bytes
    item,         \* the run core_worker_task works on, or NoRun
    pos,          \* how far it has come
    handled,      \* history: the runs passed to handle_one_line
    cuts,         \* history: the bytes behind which a chunk ended
    early,        \* history: bytes received before the core was initialized
    dropped       \* history: an event found the event queue full

vars == <<initialized, sent, read, events, buf, queue, item, pos, handled,
          cuts, early, dropped>>

NoRun == <<0, 0>>
Runs == Nat \X Nat

Init ==
    /\ initialized = FALSE
    /\ sent = 0
    /\ read = 0
    /\ events = <<>>
    /\ buf = NoRun
    /\ queue = <<>>
    /\ item = NoRun
    /\ pos = 0
    /\ handled = <<>>
    /\ cuts = {0}
    /\ early = 0
    /\ dropped = FALSE

\* lwlte_core_init_internal sets the flag after it has started the rx task.
Initialize ==
    /\ ~initialized
    /\ initialized' = TRUE
    /\ early' = sent
    /\ UNCHANGED <<sent, read, events, buf, queue, item, pos, handled, cuts, dropped>>

\* The driver moves n bytes to the ring buffer and reports them, unless the
\* event queue is full: then the bytes stay without an event of their own.
Arrive(n) ==
    /\ sent + n <= Bytes
    /\ sent' = sent + n
    /\ cuts' = cuts \cup {sent + n}
    /\ IF Len(events) < EventDepth
       THEN events' = Append(events, n) /\ UNCHANGED dropped
       ELSE dropped' = TRUE /\ UNCHANGED events
    /\ UNCHANGED <<initialized, read, buf, queue, item, pos, handled, early>>

\* Mutant: the rx task reads all there is.
ReadAll ==
    /\ buf = NoRun
    /\ events # <<>>
    /\ buf' = <<read, sent>>
    /\ read' = sent
    /\ events' = Tail(events)
    /\ UNCHANGED <<initialized, sent, queue, item, pos, handled, cuts, early, dropped>>

\* Mutant: the rx task leaves room for a terminator.
ReadShort ==
    /\ buf = NoRun
    /\ events # <<>>
    /\ buf' = <<read, read + Head(events) - 1>>
    /\ read' = read + Head(events) - 1
    /\ events' = Tail(events)
    /\ UNCHANGED <<initialized, sent, queue, item, pos, handled, cuts, early, dropped>>

\* The rx task reads as many bytes as the event says: the oldest in the ring.
ReadEvent ==
    /\ buf = NoRun
    /\ events # <<>>
    /\ buf' = <<read, read + Head(events)>>
    /\ read' = read + Head(events)
    /\ events' = Tail(events)
    /\ UNCHANGED <<initialized, sent, queue, item, pos, handled, cuts, early, dropped>>

\* lwlte_core_input refuses the chunk while the core is not initialized, and
\* the rx task does not look at what it returns.
Refuse ==
    /\ buf # NoRun
    /\ ~initialized
    /\ buf' = NoRun
    /\ UNCHANGED <<initialized, sent, read, events, queue, item, pos, handled,
                   cuts, early, dropped>>

\* Mutants: the queue takes any number of chunks; the chunk is thrown away if it
\* is full; the chunk goes to the front.
InputOverfull ==
    /\ buf # NoRun
    /\ initialized
    /\ queue' = Append(queue, buf)
    /\ buf' = NoRun
    /\ UNCHANGED <<initialized, sent, read, events, item, pos, handled, cuts,
                   early, dropped>>

InputOrDrop ==
    /\ buf # NoRun
    /\ initialized
    /\ queue' = IF Len(queue) < QueueDepth THEN Append(queue, buf) ELSE queue
    /\ buf' = NoRun
    /\ UNCHANGED <<initialized, sent, read, events, item, pos, handled, cuts,
                   early, dropped>>

InputFront ==
    /\ buf # NoRun
    /\ initialized
    /\ Len(queue) < QueueDepth
    /\ queue' = <<buf>> \o queue
    /\ buf' = NoRun
    /\ UNCHANGED <<initialized, sent, read, events, item, pos, handled, cuts,
                   early, dropped>>

\* lwlte_core_input waits for a place in the queue as long as it takes.
Input ==
    /\ buf # NoRun
    /\ initialized
    /\ Len(queue) < QueueDepth
    /\ queue' = Append(queue, buf)
    /\ buf' = NoRun
    /\ UNCHANGED <<initialized, sent, read, events, item, pos, handled, cuts,
                   early, dropped>>

\* Mutant: the item stays in the queue.
RecvPeek ==
    /\ item = NoRun
    /\ queue # <<>>
    /\ item' = Head(queue)
    /\ pos' = Head(queue)[1]
    /\ UNCHANGED <<initialized, sent, read, events, buf, queue, handled, cuts, early, dropped>>

Recv ==
    /\ item = NoRun
    /\ queue # <<>>
    /\ item' = Head(queue)
    /\ pos' = Head(queue)[1]
    /\ queue' = Tail(queue)
    /\ UNCHANGED <<initialized, sent, read, events, buf, handled, cuts, early, dropped>>

\* Bytes from + 1 to e are the next line of the item: e ends a line, and
\* nothing before it does or is a NUL.
NextLine(from, e) ==
    /\ e \in Ends
    /\ \A b \in Ends \cup Nuls : ~(from < b /\ b < e)

\* The loop comes to a '\n': the line goes to handle_one_line, the next begins.
Line(e) ==
    /\ item # NoRun
    /\ pos < e /\ e <= item[2]
    /\ NextLine(pos, e)
    /\ handled' = Append(handled, <<pos, e>>)
    /\ pos' = e
    /\ UNCHANGED <<initialized, sent, read, events, buf, queue, item, cuts, early, dropped>>

\* Mutant: the worker is through with an item after one line.
DiscardAfterLine ==
    /\ item # NoRun
    /\ pos # item[1] \/ \A e \in Ends : pos < e /\ e <= item[2] => ~NextLine(pos, e)
    /\ item' = NoRun
    /\ UNCHANGED <<initialized, sent, read, events, buf, queue, pos, handled,
                   cuts, early, dropped>>

\* The loop comes to a '\0', the one behind the chunk or one within it. What it
\* has collected since the last '\n' is dropped, and so is the rest of the item.
Discard ==
    /\ item # NoRun
    /\ \A e \in Ends : pos < e /\ e <= item[2] => ~NextLine(pos, e)
    /\ item' = NoRun
    /\ UNCHANGED <<initialized, sent, read, events, buf, queue, pos, handled,
                   cuts, early, dropped>>

RxTask == ReadEvent \/ Refuse \/ Input
Worker == Recv \/ (\E e \in Ends : Line(e)) \/ Discard

Next ==
    \/ Initialize
    \/ \E n \in 1..Bytes : Arrive(n)
    \/ RxTask
    \/ Worker

Spec == Init /\ [][Next]_vars

\* Both tasks have the same priority and share the processor by time slices.
Fairness == WF_vars(RxTask) /\ WF_vars(Worker) /\ WF_vars(Initialize)

FairSpec == Spec /\ Fairness

-----------------------------------------------------------------------------
(* Properties.                                                             *)

\* Every variable has its type.
TypeOK ==
    /\ initialized \in BOOLEAN
    /\ sent \in 0..Bytes
    /\ read \in Nat
    /\ events \in Seq(1..Bytes) /\ Len(events) <= EventDepth
    /\ buf \in Runs
    /\ queue \in Seq(Runs) /\ Len(queue) <= QueueDepth
    /\ item \in Runs
    /\ pos \in Nat
    /\ handled \in Seq(Runs)
    /\ cuts \subseteq 0..Bytes
    /\ early \in 0..Bytes
    /\ dropped \in BOOLEAN

\* Lines are handled in the order the modem sent them, and no byte twice,
\* although they pass through a ring buffer, two queues and two tasks.
LinesInOrder ==
    \A i, j \in 1..Len(handled) : i < j => handled[i][2] <= handled[j][1]

\* The rx task finds at least as many bytes in the ring buffer as an event
\* says, even after events were lost: uart_read_bytes never has to wait. The
\* bytes of the events follow each other from read on, and all have come.
ReadNeverShort ==
    \E ends \in [0..Len(events) -> 0..sent] :
        /\ ends[0] = read
        /\ \A i \in 1..Len(events) : ends[i] = ends[i - 1] + events[i]

\* The line that ends with byte e begins behind the '\n' before it.
Begin(e) == Max({0} \cup {b \in Ends : b < e})

\* The line that ends with e came after the core was initialized, with no NUL
\* before it in its chunk, and in one chunk.
Intact(e) ==
    /\ initialized /\ e <= sent
    /\ \E c \in cuts :
         /\ early <= c /\ c <= Begin(e)
         /\ \A d \in cuts : ~(c < d /\ d < e)
         /\ \A b \in Nuls : ~(c < b /\ b < e)

WholeIn(run, e) == run[1] <= Begin(e) /\ e <= run[2]

\* A line that came in one chunk is never lost or cut on its way, as long as the
\* driver has not lost an event: at any moment it has been handled, or it is
\* still to be read, or all of it is in the rx task's chunk, in one item of
\* the queue or in what the worker has yet to do of its item.
IntactKept ==
    \A e \in Ends :
        Intact(e) /\ ~dropped =>
            \/ \E i \in 1..Len(handled) : handled[i] = <<Begin(e), e>>
            \/ read <= Begin(e)
            \/ buf # NoRun /\ WholeIn(buf, e)
            \/ \E i \in 1..Len(queue) : WholeIn(queue[i], e)
            \/ item # NoRun /\ WholeIn(<<pos, item[2]>>, e)

\* A line that comes in one chunk is handled, whole, whatever came before it,
\* as long as the driver has not lost an event: no later chunk, full queue or
\* cut line gets in its way.
IntactHandled ==
    \A e \in Ends :
        Intact(e) /\ ~dropped
            ~> \E i \in 1..Len(handled) : handled[i] = <<Begin(e), e>>

\* Every line that is handled is a whole line: the input is processed line by
\* line. The worker forgets what it has of a line when its item ends.
WholeLines == \A i \in 1..Len(handled) : handled[i][1] = Begin(handled[i][2])

\* Where no chunk has cut a line and the driver has lost no event, only whole
\* lines have been handled: nothing else on the way cuts one, neither a NUL, nor
\* a full queue, nor that the core was initialized late.
UncutWhole == cuts \subseteq {0} \cup Ends /\ ~dropped => WholeLines

=============================================================================
