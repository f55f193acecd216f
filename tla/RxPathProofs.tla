---------------------------- MODULE RxPathProofs ----------------------------
(***************************************************************************)
(* Theorems about RxPath, for every stream and both queue lengths. The     *)
(* order of the lines rests on a chain: what was handled, the item of the  *)
(* worker, the items queued, the chunk of the rx task and the bytes in the *)
(* ring buffer follow each other in the stream. That no line is lost rests *)
(* on the events still telling where the chunks end.                       *)
(***************************************************************************)
EXTENDS RxPath, WellFoundedInduction, TLAPS

\* The type of Bytes by itself.
LEMMA BytesNat == Bytes \in Nat
BY StreamAssumption

\* The initial values have their types.
LEMMA InitType == Init => TypeOK
<1> SUFFICES ASSUME Init PROVE TypeOK
  OBVIOUS
<1>1. NoRun \in Runs
  BY DEF NoRun, Runs
<1>2. 0 \in 0..Bytes /\ 0 \in Nat
  BY BytesNat
<1>3. events \in Seq(1..Bytes) /\ queue \in Seq(Runs) /\ handled \in Seq(Runs)
  BY DEF Init
<1>4. Len(events) <= EventDepth /\ Len(queue) <= QueueDepth
  BY StreamAssumption DEF Init
<1> QED
  BY <1>1, <1>2, <1>3, <1>4 DEF Init, TypeOK

\* Every step preserves the types.
LEMMA NextType == TypeOK /\ [Next]_vars => TypeOK'
<1> SUFFICES ASSUME TypeOK, [Next]_vars PROVE TypeOK'
  OBVIOUS
<1> USE DEF TypeOK
<1>0. NoRun \in Runs
  BY DEF NoRun, Runs
<1>1. CASE Initialize
  BY <1>1 DEF Initialize
<1>2. ASSUME NEW n \in 1..Bytes, Arrive(n) PROVE TypeOK'
  <2>1. sent + n \in 0..Bytes
    BY <1>2, BytesNat DEF Arrive
  <2>2. events' \in Seq(1..Bytes) /\ Len(events') <= EventDepth
    <3> DEFINE Sizes == 1..Bytes
    <3>1. events \in Seq(Sizes) /\ n \in Sizes
      BY <1>2
    <3>2. \/ events' = events
          \/ events' = Append(events, n) /\ Len(events) < EventDepth
      BY <1>2 DEF Arrive
    <3>3. EventDepth \in Nat /\ Len(events) <= EventDepth
      BY StreamAssumption
    <3> HIDE DEF Sizes, TypeOK
    <3>4. Len(events) \in Nat
      BY <3>1
    <3>5. events' \in Seq(Sizes)
      BY <3>1, <3>2
    <3>6. \/ Len(events') = Len(events)
          \/ Len(events') = Len(events) + 1 /\ Len(events) < EventDepth
      BY <3>1, <3>2
    <3>7. Len(events') <= EventDepth
      BY <3>3, <3>4, <3>6
    <3> QED
      BY <3>5, <3>7 DEF Sizes
  <2>3. dropped' \in BOOLEAN
    BY <1>2 DEF Arrive
  <2> QED
    BY <1>2, <2>1, <2>2, <2>3 DEF Arrive
<1>3. CASE ReadEvent
  <2>1. /\ Head(events) \in 1..Bytes /\ Tail(events) \in Seq(1..Bytes)
        /\ Len(Tail(events)) <= EventDepth
    <3> DEFINE Sizes == 1..Bytes
    <3>1. events \in Seq(Sizes) /\ events # <<>>
      BY <1>3 DEF ReadEvent
    <3>2. EventDepth \in Nat /\ Len(events) <= EventDepth
      BY StreamAssumption
    <3> HIDE DEF Sizes, TypeOK
    <3>3. Head(events) \in Sizes /\ Tail(events) \in Seq(Sizes)
      BY <3>1
    <3>4. Len(events) \in Nat /\ Len(Tail(events)) = Len(events) - 1
      BY <3>1
    <3>5. Len(Tail(events)) <= EventDepth
      BY <3>2, <3>4
    <3> QED
      BY <3>3, <3>5 DEF Sizes
  <2>2. events' \in Seq(1..Bytes) /\ Len(events') <= EventDepth
    BY <1>3, <2>1 DEF ReadEvent
  <2>3. read' \in Nat /\ buf' \in Runs
    <3>1. Head(events) \in Nat /\ read \in Nat
      BY <2>1, BytesNat
    <3> HIDE DEF TypeOK
    <3>2. read + Head(events) \in Nat
      BY <3>1
    <3>3. read' = read + Head(events) /\ buf' = <<read, read + Head(events)>>
      BY <1>3 DEF ReadEvent
    <3> QED
      BY <3>1, <3>2, <3>3 DEF Runs
  <2>4. UNCHANGED <<initialized, sent, queue, item, pos, handled, cuts, early, dropped>>
    BY <1>3 DEF ReadEvent
  <2> QED
    BY <2>2, <2>3, <2>4
<1>4. CASE Refuse
  BY <1>0, <1>4 DEF Refuse
<1>5. CASE Input
  <2>1. queue' \in Seq(Runs) /\ Len(queue') = Len(queue) + 1
    BY <1>5 DEF Input
  <2>2. Len(queue) < QueueDepth /\ Len(queue) \in Nat /\ QueueDepth \in Nat
    BY <1>5, StreamAssumption DEF Input
  <2>3. Len(queue') <= QueueDepth
    BY <2>1, <2>2
  <2> QED
    BY <1>0, <1>5, <2>1, <2>3 DEF Input
<1>6. CASE Recv
  <2>1. /\ Head(queue) \in Runs /\ Tail(queue) \in Seq(Runs)
        /\ Len(Tail(queue)) <= QueueDepth
    BY <1>6, StreamAssumption DEF Recv
  <2>2. Head(queue)[1] \in Nat
    BY <2>1 DEF Runs
  <2> QED
    BY <1>6, <2>1, <2>2 DEF Recv
<1>7. ASSUME NEW e \in Ends, Line(e) PROVE TypeOK'
  <2>1. e \in Nat
    BY StreamAssumption
  <2>2. <<pos, e>> \in Runs
    BY <2>1 DEF Runs
  <2> QED
    BY <1>7, <2>1, <2>2 DEF Line
<1>8. CASE Discard
  BY <1>0, <1>8 DEF Discard
<1>9. CASE UNCHANGED vars
  BY <1>9 DEF vars
<1> QED
  BY <1>1, <1>2, <1>3, <1>4, <1>5, <1>6, <1>7, <1>8, <1>9 DEF Next, RxTask, Worker

\* Every variable keeps its type.
THEOREM TypeCorrect == Spec => []TypeOK
BY InitType, NextType, PTL DEF Spec

-----------------------------------------------------------------------------
(* The order of the lines.                                                 *)

\* The items queued follow each other, and the rx task's chunk follows them.
QueueOrder ==
    /\ \A i \in 1..Len(queue) :
         /\ queue[i][1] <= queue[i][2]
         /\ queue[i][2] <= read
         /\ buf # NoRun => queue[i][2] <= buf[1]
    /\ \A i, j \in 1..Len(queue) : i < j => queue[i][2] <= queue[j][1]
    /\ buf # NoRun => buf[1] <= buf[2] /\ buf[2] <= read

\* The worker is behind all of them.
WorkerOrder ==
    /\ pos <= read
    /\ \A i \in 1..Len(queue) :
         pos <= queue[i][1] /\ (item # NoRun => item[2] <= queue[i][1])
    /\ buf # NoRun => pos <= buf[1] /\ (item # NoRun => item[2] <= buf[1])
    /\ item # NoRun => pos <= item[2] /\ item[2] <= read

\* What was handled is behind the worker.
HandledOrder == \A i \in 1..Len(handled) : handled[i][2] <= pos

\* The inductive invariant behind the order of the lines.
Chain == QueueOrder /\ WorkerOrder /\ HandledOrder /\ LinesInOrder

\* At first nothing is under way.
LEMMA InitChain == Init => Chain
BY DEF Init, Chain, QueueOrder, WorkerOrder, HandledOrder, LinesInOrder, NoRun

\* A chunk that is read follows all that is under way.
LEMMA ReadChain == ASSUME TypeOK, Chain, ReadEvent PROVE Chain'
<1> USE DEF TypeOK, ReadEvent
<1>1. Head(events) \in Nat
  <2> DEFINE Sizes == 1..Bytes
  <2>1. events \in Seq(Sizes) /\ events # <<>>
    OBVIOUS
  <2> HIDE DEF Sizes
  <2>2. Head(events) \in Sizes
    BY <2>1
  <2> QED
    BY <2>2, BytesNat DEF Sizes
<1>2. /\ read' >= read /\ buf'[1] = read /\ buf'[2] = read' /\ read' \in Nat
      /\ UNCHANGED <<queue, item, pos, handled>>
  BY <1>1
<1>3. \A i \in 1..Len(queue) : queue[i][1] \in Nat /\ queue[i][2] \in Nat
  BY DEF Runs
<1>4. QueueOrder'
  BY <1>2, <1>3 DEF Chain, QueueOrder
<1>5. WorkerOrder'
  BY <1>2, <1>3 DEF Chain, WorkerOrder, Runs
<1>6. HandledOrder' /\ LinesInOrder'
  BY <1>2 DEF Chain, HandledOrder, LinesInOrder
<1> QED
  BY <1>4, <1>5, <1>6 DEF Chain

\* A chunk goes to the end of the queue.
LEMMA InputChain == ASSUME TypeOK, Chain, Input PROVE Chain'
<1> USE DEF TypeOK, Input
<1>1. /\ queue \in Seq(Runs) /\ buf \in Runs /\ queue' = Append(queue, buf)
      /\ buf # NoRun /\ buf' = NoRun /\ UNCHANGED <<read, item, pos, handled>>
  OBVIOUS
<1>2. /\ Len(queue') = Len(queue) + 1 /\ Len(queue) \in Nat
      /\ \A i \in 1..Len(queue) : queue'[i] = queue[i]
      /\ queue'[Len(queue) + 1] = buf
  BY <1>1
<1>3. /\ \A i \in 1..Len(queue) : queue[i][1] \in Nat /\ queue[i][2] \in Nat
      /\ buf[1] \in Nat /\ buf[2] \in Nat
  BY <1>1 DEF Runs
<1>4. QueueOrder'
  BY <1>1, <1>2, <1>3 DEF Chain, QueueOrder
<1>5. WorkerOrder'
  BY <1>1, <1>2, <1>3 DEF Chain, WorkerOrder
<1>6. HandledOrder' /\ LinesInOrder'
  BY <1>1 DEF Chain, HandledOrder, LinesInOrder
<1> QED
  BY <1>4, <1>5, <1>6 DEF Chain

\* The worker takes the item at the head of the queue.
LEMMA RecvChain == ASSUME TypeOK, Chain, Recv PROVE Chain'
<1> USE DEF TypeOK, Recv
<1>1. /\ queue \in Seq(Runs) /\ queue # <<>> /\ queue' = Tail(queue)
      /\ item' = queue[1] /\ pos' = queue[1][1]
      /\ UNCHANGED <<read, buf, handled>>
  OBVIOUS
<1>2. /\ Len(queue) \in Nat /\ Len(queue) >= 1 /\ Len(queue') = Len(queue) - 1
      /\ \A i \in 1..Len(queue') : queue'[i] = queue[i + 1]
  BY <1>1
<1>3. \A i \in 1..Len(queue) : queue[i][1] \in Nat /\ queue[i][2] \in Nat
  BY <1>1 DEF Runs
<1>4. /\ 1 \in 1..Len(queue) /\ pos <= queue[1][1] /\ pos \in Nat /\ read \in Nat
      /\ queue[1][1] <= queue[1][2] /\ queue[1][2] <= read
  BY <1>2 DEF Chain, WorkerOrder, QueueOrder
<1>5. QueueOrder'
  BY <1>1, <1>2, <1>3 DEF Chain, QueueOrder
<1>6. WorkerOrder'
  <2>1. ASSUME NEW i \in 1..Len(queue') PROVE queue[1][2] <= queue'[i][1]
    <3>1. i + 1 \in 1..Len(queue) /\ 1 \in 1..Len(queue) /\ 1 < i + 1
      BY <1>2
    <3>2. queue[1][2] <= queue[i + 1][1]
      BY <3>1 DEF Chain, QueueOrder
    <3> QED
      BY <1>2, <3>2
  <2>2. buf # NoRun => queue[1][2] <= buf[1] /\ buf[1] \in Nat
    BY <1>4 DEF Chain, QueueOrder, Runs
  <2>3. \A i \in 1..Len(queue') : queue'[i][1] \in Nat
    BY <1>2, <1>3
  <2>4. pos' <= read' /\ item'[2] <= read' /\ pos' <= item'[2]
    BY <1>1, <1>3, <1>4
  <2>5. \A i \in 1..Len(queue') : pos' <= queue'[i][1] /\ item'[2] <= queue'[i][1]
    BY <1>1, <1>3, <1>4, <2>1, <2>3
  <2>6. buf' # NoRun => pos' <= buf'[1] /\ item'[2] <= buf'[1]
    BY <1>1, <1>3, <1>4, <2>2
  <2> QED
    BY <2>4, <2>5, <2>6 DEF WorkerOrder
<1>7. HandledOrder'
  <2>1. ASSUME NEW i \in 1..Len(handled)
        PROVE  handled[i][2] <= pos /\ handled[i][2] \in Nat
    <3>1. handled[i] \in Runs
      OBVIOUS
    <3> QED
      BY <3>1 DEF Chain, HandledOrder, Runs
  <2> QED
    BY <1>1, <1>3, <1>4, <2>1 DEF HandledOrder
<1>8. LinesInOrder'
  BY DEF Chain, LinesInOrder
<1> QED
  BY <1>5, <1>6, <1>7, <1>8 DEF Chain

\* A line that is handled begins where the worker stood.
LEMMA LineChain == ASSUME TypeOK, Chain, NEW e \in Ends, Line(e) PROVE Chain'
<1> USE DEF TypeOK, Line
<1>1. /\ handled \in Seq(Runs) /\ handled' = Append(handled, <<pos, e>>)
      /\ item # NoRun /\ pos < e /\ e <= item[2] /\ pos' = e /\ pos \in Nat
      /\ e \in Nat /\ UNCHANGED <<read, queue, item, buf>>
  BY StreamAssumption
<1>2. /\ Len(handled') = Len(handled) + 1 /\ Len(handled) \in Nat
      /\ \A i \in 1..Len(handled) : handled'[i] = handled[i]
      /\ handled'[Len(handled) + 1] = <<pos, e>>
  BY <1>1
<1>3. \A i \in 1..Len(handled) : handled[i][2] <= pos /\ handled[i][2] \in Nat
  BY DEF Chain, HandledOrder, Runs
<1>4. QueueOrder'
  BY <1>1 DEF Chain, QueueOrder
<1>5. WorkerOrder'
  <2>1. item[2] \in Nat /\ read \in Nat /\ buf[1] \in Nat
        /\ \A i \in 1..Len(queue) : queue[i][1] \in Nat
    BY DEF Runs
  <2> QED
    BY <1>1, <2>1 DEF Chain, WorkerOrder
<1>6. HandledOrder'
  <2> SUFFICES ASSUME NEW i \in 1..Len(handled') PROVE handled'[i][2] <= e
    BY <1>1 DEF HandledOrder
  <2>1. CASE i \in 1..Len(handled)
    BY <1>1, <1>2, <1>3, <2>1
  <2>2. CASE i = Len(handled) + 1
    BY <1>1, <1>2, <2>2
  <2> QED
    BY <1>2, <2>1, <2>2
<1>7. LinesInOrder'
  <2> SUFFICES ASSUME NEW i \in 1..Len(handled'), NEW j \in 1..Len(handled'), i < j
               PROVE  handled'[i][2] <= handled'[j][1]
    BY DEF LinesInOrder
  <2>1. i \in 1..Len(handled) /\ handled'[i] = handled[i]
    BY <1>2
  <2>2. CASE j \in 1..Len(handled)
    BY <1>2, <2>1, <2>2 DEF Chain, LinesInOrder
  <2>3. CASE j = Len(handled) + 1
    BY <1>2, <1>3, <2>1, <2>3
  <2>4. j \in 1..Len(handled) \/ j = Len(handled) + 1
    BY <1>2
  <2> QED
    BY <2>2, <2>3, <2>4
<1> QED
  BY <1>4, <1>5, <1>6, <1>7 DEF Chain

\* Every step keeps the chain.
LEMMA NextChain == TypeOK /\ Chain /\ [Next]_vars => Chain'
<1> SUFFICES ASSUME TypeOK, Chain, [Next]_vars PROVE Chain'
  OBVIOUS
<1> USE DEF Chain, QueueOrder, WorkerOrder, HandledOrder, LinesInOrder
<1>1. CASE Initialize \/ \E n \in 1..Bytes : Arrive(n)
  BY <1>1 DEF Initialize, Arrive
<1>2. CASE Refuse \/ Discard
  BY <1>2 DEF Refuse, Discard
<1>3. CASE UNCHANGED vars
  BY <1>3 DEF vars
<1> QED
  BY <1>1, <1>2, <1>3, ReadChain, InputChain, RecvChain, LineChain
     DEF Next, RxTask, Worker

\* Lines are handled in the order the modem sent them, and no byte twice.
THEOREM InOrder == Spec => []LinesInOrder
<1>1. Chain => LinesInOrder
  BY DEF Chain
<1> QED
  BY <1>1, InitChain, NextChain, TypeCorrect, PTL DEF Spec

-----------------------------------------------------------------------------
(* The events and the bytes they stand for.                                *)

\* The driver's record of where chunks ended is up to date.
CutsInv == 0 \in cuts /\ sent \in cuts /\ cuts \subseteq 0..sent

\* The events follow each other from read on, each event's bytes behind those
\* of the one before it. Unless one was lost they are the chunks that came.
Layout(ends) ==
    /\ ends \in [0..Len(events) -> 0..sent]
    /\ ends[0] = read
    /\ \A i \in 1..Len(events) : ends[i] = ends[i - 1] + events[i]
    /\ ~dropped =>
         /\ ends[Len(events)] = sent
         /\ \A i \in 0..Len(events) : ends[i] \in cuts
         /\ \A i \in 1..Len(events), d \in cuts : ~(ends[i - 1] < d /\ d < ends[i])

EventsInv == CutsInv /\ \E ends : Layout(ends)

\* At first there is nothing to read.
LEMMA InitEvents == Init => EventsInv
<1> SUFFICES ASSUME Init PROVE EventsInv
  OBVIOUS
<1>1. CutsInv
  BY DEF Init, CutsInv
<1>2. Layout([i \in 0..0 |-> 0])
  BY DEF Init, Layout
<1> QED
  BY <1>1, <1>2 DEF EventsInv

\* What the events are.
LEMMA EventTypes ==
    ASSUME TypeOK
    PROVE  /\ Len(events) \in Nat /\ sent \in Nat /\ read \in Nat
           /\ \A i \in 1..Len(events) : events[i] \in Nat \ {0}
<1> DEFINE Sizes == 1..Bytes
<1>1. events \in Seq(Sizes) /\ sent \in Nat /\ read \in Nat
  BY BytesNat DEF TypeOK
<1>2. \A n \in Sizes : n \in Nat \ {0}
  BY BytesNat
<1> HIDE DEF Sizes
<1> QED
  BY <1>1, <1>2

\* A chunk that comes is laid out behind all others, or its event is lost.
LEMMA ArriveEvents ==
    ASSUME TypeOK, EventsInv, NEW n \in 1..Bytes, Arrive(n) PROVE EventsInv'
<1>1. n \in Nat \ {0} /\ sent' = sent + n /\ cuts' = cuts \cup {sent + n} /\ read' = read
  BY BytesNat DEF Arrive
<1>2. CutsInv'
  BY <1>1, EventTypes DEF EventsInv, CutsInv
<1>3. PICK ends : Layout(ends)
  BY DEF EventsInv
<1> DEFINE m == Len(events)
<1>4. /\ m \in Nat /\ sent \in Nat /\ read \in Nat /\ cuts \subseteq 0..sent
      /\ sent \in cuts
  BY EventTypes DEF EventsInv, CutsInv
<1>5. CASE events' = events /\ dropped' = TRUE
  <2>1. ends \in [0..Len(events) -> 0..sent']
    BY <1>1, <1>3, <1>4 DEF Layout
  <2>2. Layout(ends)'
    BY <1>1, <1>3, <1>5, <2>1 DEF Layout
  <2> QED
    BY <1>2, <2>2 DEF EventsInv
<1>6. CASE events' = Append(events, n) /\ dropped' = dropped
  <2>0. PICK longer :
          longer = [i \in 0..(m + 1) |-> IF i = m + 1 THEN ends[m] + n ELSE ends[i]]
    OBVIOUS
  <2>1. /\ Len(events') = m + 1 /\ events'[m + 1] = n
        /\ \A i \in 1..m : events'[i] = events[i]
    <3> DEFINE Sizes == 1..Bytes
    <3>1. events \in Seq(Sizes) /\ n \in Sizes
      BY DEF TypeOK
    <3> HIDE DEF Sizes
    <3> QED
      BY <1>6, <3>1
  <2>2. \A i \in 0..m : ends[i] \in 0..sent /\ longer[i] = ends[i]
    BY <1>3, <1>4, <2>0 DEF Layout
  <2>3. longer[m + 1] = ends[m] + n /\ ends[m] + n \in 0..(sent + n)
    BY <1>1, <1>4, <2>0, <2>2
  <2>4. longer \in [0..(m + 1) -> 0..(sent + n)]
    <3>1. \A i \in 0..(m + 1) : i = m + 1 \/ i \in 0..m
      BY <1>4
    <3>2. \A i \in 0..m : ends[i] \in 0..(sent + n) /\ i # m + 1
      BY <1>1, <1>4, <2>2
    <3>3. \A i \in 0..(m + 1) :
            (IF i = m + 1 THEN ends[m] + n ELSE ends[i]) \in 0..(sent + n)
      BY <2>3, <2>0, <1>4, <3>1, <3>2
    <3> QED
      BY <2>0, <3>3
  <2>5. longer[0] = read
    BY <1>3, <1>4, <2>2 DEF Layout
  <2>6. \A i \in 1..(m + 1) : longer[i] = longer[i - 1] + events'[i]
    <3>1. ASSUME NEW i \in 1..m PROVE longer[i] = longer[i - 1] + events'[i]
      <4>1. i \in 0..m /\ i - 1 \in 0..m
        BY <1>4
      <4>2. ends[i] = ends[i - 1] + events[i]
        BY <1>3 DEF Layout
      <4> QED
        BY <2>1, <2>2, <4>1, <4>2
    <3>2. longer[m + 1] = longer[m] + events'[m + 1]
      BY <1>4, <2>1, <2>2, <2>3
    <3> QED
      BY <1>4, <3>1, <3>2
  <2>7. ASSUME ~dropped
        PROVE  /\ longer[m + 1] = sent + n
               /\ \A i \in 0..(m + 1) : longer[i] \in cuts'
               /\ \A i \in 1..(m + 1), d \in cuts' :
                    ~(longer[i - 1] < d /\ d < longer[i])
    <3>1. /\ ends[m] = sent /\ \A i \in 0..m : ends[i] \in cuts
          /\ \A i \in 1..m, d \in cuts : ~(ends[i - 1] < d /\ d < ends[i])
      BY <1>3, <2>7 DEF Layout
    <3>2. longer[m + 1] = sent + n
      BY <2>3, <3>1
    <3>3. \A i \in 0..(m + 1) : longer[i] \in cuts'
      BY <1>1, <1>4, <2>2, <3>1, <3>2
    <3>4. ASSUME NEW i \in 1..(m + 1), NEW d \in cuts'
          PROVE  ~(longer[i - 1] < d /\ d < longer[i])
      <4>1. CASE i = m + 1
        <5>1. longer[i - 1] = sent /\ longer[i] = sent + n
          BY <1>4, <2>2, <3>1, <3>2, <4>1
        <5> QED
          BY <1>1, <1>4, <5>1
      <4>2. CASE i \in 1..m
        <5>1. longer[i - 1] = ends[i - 1] /\ longer[i] = ends[i] /\ ends[i] \in 0..sent
          BY <1>4, <2>2, <4>2
        <5>2. CASE d \in cuts
          BY <3>1, <4>2, <5>1, <5>2
        <5>3. CASE d = sent + n
          BY <1>1, <1>4, <5>1, <5>3
        <5> QED
          BY <1>1, <5>2, <5>3
      <4> QED
        BY <1>4, <4>1, <4>2
    <3> QED
      BY <3>2, <3>3, <3>4
  <2>8. Layout(longer)'
    BY <1>1, <1>6, <2>1, <2>4, <2>5, <2>6, <2>7 DEF Layout
  <2> QED
    BY <1>2, <2>8 DEF EventsInv
<1> QED
  BY <1>5, <1>6 DEF Arrive

\* The rx task reads the bytes of the first event; the others stay where they
\* are.
LEMMA ReadEvents == ASSUME TypeOK, EventsInv, ReadEvent PROVE EventsInv'
<1>1. PICK ends : Layout(ends)
  BY DEF EventsInv
<1> DEFINE m == Len(events)
<1>0. PICK shorter : shorter = [i \in 0..(m - 1) |-> ends[i + 1]]
  OBVIOUS
<1>2. /\ UNCHANGED <<sent, cuts, dropped>> /\ read' = read + events[1]
      /\ m \in Nat /\ m >= 1 /\ read \in Nat /\ sent \in Nat
      /\ Len(events') = m - 1 /\ \A i \in 1..(m - 1) : events'[i] = events[i + 1]
  <2> DEFINE Sizes == 1..Bytes
  <2>1. events \in Seq(Sizes) /\ events # <<>>
    BY DEF TypeOK, ReadEvent
  <2>2. events' = Tail(events) /\ Head(events) = events[1]
    BY DEF ReadEvent
  <2> HIDE DEF Sizes
  <2>3. m \in Nat /\ m >= 1 /\ Len(events') = m - 1
        /\ \A i \in 1..(m - 1) : events'[i] = events[i + 1]
    BY <2>1, <2>2
  <2> QED
    BY <2>2, <2>3, EventTypes DEF ReadEvent
<1>3. \A i \in 0..(m - 1) : shorter[i] = ends[i + 1] /\ ends[i + 1] \in 0..sent
  <2>1. ends \in [0..m -> 0..sent]
    BY <1>1 DEF Layout
  <2>2. \A i \in 0..(m - 1) : i + 1 \in 0..m
    BY <1>2
  <2> QED
    BY <1>0, <2>1, <2>2
<1>4. shorter \in [0..(m - 1) -> 0..sent]
  BY <1>0, <1>3
<1>5. shorter[0] = read'
  <2>1. ends[1] = ends[0] + events[1] /\ ends[0] = read
    BY <1>1, <1>2 DEF Layout
  <2> QED
    BY <1>2, <1>3, <2>1
<1>6. ASSUME NEW i \in 1..(m - 1)
      PROVE  /\ shorter[i] = ends[i + 1] /\ shorter[i - 1] = ends[i]
             /\ i + 1 \in 1..m /\ (i + 1) - 1 = i
  BY <1>2, <1>3
<1>7. ASSUME NEW i \in 1..(m - 1) PROVE shorter[i] = shorter[i - 1] + events'[i]
  <2>1. ends[i + 1] = ends[i] + events[i + 1]
    BY <1>1, <1>6 DEF Layout
  <2> QED
    BY <1>2, <1>6, <2>1
<1>8. ASSUME ~dropped
      PROVE  /\ shorter[m - 1] = sent
             /\ \A i \in 0..(m - 1) : shorter[i] \in cuts
             /\ \A i \in 1..(m - 1), d \in cuts :
                  ~(shorter[i - 1] < d /\ d < shorter[i])
  <2>1. /\ ends[m] = sent /\ \A i \in 0..m : ends[i] \in cuts
        /\ \A i \in 1..m, d \in cuts : ~(ends[i - 1] < d /\ d < ends[i])
    BY <1>1, <1>8 DEF Layout
  <2>2. shorter[m - 1] = sent
    BY <1>2, <1>3, <2>1
  <2>3. \A i \in 0..(m - 1) : shorter[i] \in cuts
    BY <1>2, <1>3, <2>1
  <2>4. ASSUME NEW i \in 1..(m - 1), NEW d \in cuts
        PROVE  ~(shorter[i - 1] < d /\ d < shorter[i])
    <3>1. ~(ends[i] < d /\ d < ends[i + 1])
      BY <1>6, <2>1
    <3> QED
      BY <1>6, <3>1
  <2> QED
    BY <2>2, <2>3, <2>4
<1> HIDE DEF m
<1>9. Layout(shorter)'
  <2>1. Len(events') = m - 1 /\ sent' = sent /\ cuts' = cuts /\ dropped' = dropped
    BY <1>2
  <2>2. \A i \in 1..(m - 1) : shorter[i] = shorter[i - 1] + events'[i]
    BY <1>7
  <2> QED
    BY <1>4, <1>5, <1>8, <2>1, <2>2 DEF Layout
<1>10. CutsInv'
  BY <1>2 DEF EventsInv, CutsInv
<1> QED
  BY <1>9, <1>10 DEF EventsInv

\* No step loses the place of an event.
LEMMA NextEvents == TypeOK /\ EventsInv /\ [Next]_vars => EventsInv'
<1> SUFFICES ASSUME TypeOK, EventsInv, [Next]_vars PROVE EventsInv'
  OBVIOUS
<1>1. CASE UNCHANGED <<sent, read, events, cuts, dropped>>
  BY <1>1 DEF EventsInv, CutsInv, Layout
<1> QED
  BY <1>1, ArriveEvents, ReadEvents
     DEF Next, RxTask, Worker, Initialize, Refuse, Input, Recv, Line, Discard, vars

\* What events say is there to be read.
THEOREM NeverShort == Spec => []ReadNeverShort
<1>1. EventsInv => ReadNeverShort
  BY DEF EventsInv, Layout, ReadNeverShort
<1> QED
  BY <1>1, InitEvents, NextEvents, TypeCorrect, PTL DEF Spec

-----------------------------------------------------------------------------
(* No line that came in one chunk is lost.                                 *)

\* The least-number principle, for a set instead of a predicate.
LEMMA LeastNumber ==
    ASSUME NEW T \in SUBSET Nat, T # {} PROVE \E x \in T : \A y \in T : x <= y
<1>1. PICK x \in T : \A y \in T : <<y, x>> \notin OpToRel(<, Nat)
  BY NatLessThanWellFounded, WFMin, Zenon
<1>2. \A y \in T : ~(y < x)
  BY <1>1, Zenon DEF OpToRel
<1> QED
  BY <1>2

\* Begin(e) is where the line that ends with e begins.
LEMMA BeginFact ==
    ASSUME NEW e \in Ends
    PROVE  /\ e \in Nat /\ Begin(e) \in Nat /\ Begin(e) < e
           /\ Begin(e) = 0 \/ Begin(e) \in Ends
           /\ \A b \in Ends : b < e => b <= Begin(e)
<1> DEFINE S == {0} \cup {b \in Ends : b < e}
           T == {e - b : b \in S}
<1>0. e \in Nat /\ e > 0 /\ \A b \in Ends : b \in Nat
  BY StreamAssumption
<1>1. e \in Nat /\ e > 0 /\ S \subseteq Nat /\ \A b \in S : b < e
  <2>1. ASSUME NEW b \in S PROVE b \in Nat /\ b < e
    <3>1. b = 0 \/ (b \in Ends /\ b < e)
      OBVIOUS
    <3> QED
      BY <1>0, <3>1
  <2> QED
    BY <1>0, <2>1
<1>2. T \in SUBSET Nat /\ e - 0 \in T
  BY <1>1
<1>3. PICK x \in T : \A y \in T : x <= y
  BY <1>2, LeastNumber
<1>4. PICK m \in S : x = e - m
  BY <1>3
<1>5. ASSUME NEW b \in S PROVE m >= b
  <2>1. e - b \in T /\ x <= e - b /\ x = e - m
    BY <1>3, <1>4
  <2>2. b \in Nat /\ m \in Nat
    BY <1>1, <1>4
  <2> HIDE DEF S, T
  <2> QED
    BY <1>0, <2>1, <2>2
<1>6. Begin(e) = CHOOSE n \in S : \A b \in S : n >= b
  BY DEF Begin, Max
<1>7. Begin(e) \in S /\ \A b \in S : Begin(e) >= b
  BY <1>4, <1>5, <1>6
<1> QED
  BY <1>1, <1>7

\* No chunk ended within the run.
OneChunk(run) ==
    run[2] <= sent /\ \A d \in cuts : ~(run[1] < d /\ d < run[2])

\* What is under way are whole chunks, and the worker is within its own.
ChunksInv ==
    ~dropped =>
        /\ buf # NoRun => OneChunk(buf)
        /\ \A i \in 1..Len(queue) : OneChunk(queue[i])
        /\ item # NoRun => OneChunk(item) /\ item[1] <= pos

\* The inductive invariant behind IntactKept.
KeptInv == Chain /\ EventsInv /\ ChunksInv /\ IntactKept

\* What a line that came in one chunk is, for the cuts up to now.
LEMMA IntactChunk ==
    ASSUME TypeOK, NEW e \in Ends, Intact(e), NEW run \in Runs, OneChunk(run),
           run[1] <= Begin(e), e <= run[2]
    PROVE  \A b \in Nuls : ~(run[1] < b /\ b < e)
<1>1. PICK c \in cuts : c <= Begin(e) /\ \A b \in Nuls : ~(c < b /\ b < e)
  BY DEF Intact
<1>2. /\ c \in Nat /\ e \in Nat /\ Begin(e) \in Nat /\ Begin(e) < e
      /\ run[1] \in Nat /\ run[2] \in Nat
  BY BeginFact, BytesNat DEF TypeOK, Runs
<1>3. c <= run[1]
  BY <1>1, <1>2 DEF OneChunk
<1> QED
  BY <1>1, <1>2, <1>3, StreamAssumption

\* A chunk that comes ends behind all that came before; a line in it is still
\* to be read.
LEMMA ArriveKept ==
    ASSUME TypeOK, KeptInv, NEW n \in 1..Bytes, Arrive(n)
    PROVE  ChunksInv' /\ IntactKept'
<1>1. /\ n \in Nat \ {0} /\ sent' = sent + n /\ cuts' = cuts \cup {sent + n}
      /\ UNCHANGED <<initialized, read, buf, queue, item, pos, handled, early>>
      /\ dropped' = dropped \/ dropped' = TRUE
  BY BytesNat DEF Arrive
<1>2. /\ sent \in Nat /\ read \in Nat /\ cuts \subseteq 0..sent /\ sent \in cuts
      /\ read <= sent
  <2>1. PICK ends : Layout(ends)
    BY DEF KeptInv, EventsInv
  <2>2. ends[0] \in 0..sent
    BY <2>1, EventTypes DEF Layout
  <2> QED
    BY <2>1, <2>2, EventTypes DEF KeptInv, EventsInv, CutsInv, Layout
<1>3. ChunksInv'
  <2>1. ASSUME NEW run \in Runs, OneChunk(run) PROVE OneChunk(run)'
    BY <1>1, <1>2, <2>1 DEF OneChunk, Runs
  <2>2. buf \in Runs /\ item \in Runs /\ \A i \in 1..Len(queue) : queue[i] \in Runs
    BY DEF TypeOK
  <2> QED
    BY <1>1, <2>1, <2>2 DEF KeptInv, ChunksInv, OneChunk
<1>4. IntactKept'
  <2> SUFFICES ASSUME NEW e \in Ends, Intact(e)', ~dropped'
               PROVE  \/ \E i \in 1..Len(handled) : handled[i] = <<Begin(e), e>>
                      \/ read <= Begin(e)
                      \/ buf # NoRun /\ WholeIn(buf, e)
                      \/ \E i \in 1..Len(queue) : WholeIn(queue[i], e)
                      \/ item # NoRun /\ WholeIn(<<pos, item[2]>>, e)
    BY <1>1 DEF IntactKept, WholeIn
  <2>1. e \in Nat /\ Begin(e) \in Nat /\ Begin(e) < e
    BY BeginFact
  <2>2. PICK c \in cuts' :
          /\ early <= c /\ c <= Begin(e)
          /\ \A d \in cuts' : ~(c < d /\ d < e)
          /\ \A b \in Nuls : ~(c < b /\ b < e)
    BY <1>1 DEF Intact
  <2>3. CASE e <= sent
    <3>1. c \in cuts
      BY <1>1, <1>2, <2>1, <2>2, <2>3
    <3>2. Intact(e)
      BY <1>1, <2>2, <2>3, <3>1 DEF Intact
    <3>3. ~dropped
      BY <1>1
    <3> QED
      BY <3>2, <3>3 DEF KeptInv, IntactKept
  <2>4. CASE sent < e
    <3>1. c \in Nat /\ sent \in cuts' /\ ~(c < sent)
      BY <1>1, <1>2, <2>2, <2>4
    <3> QED
      BY <1>2, <2>1, <2>2, <3>1
  <2> QED
    BY <1>2, <2>1, <2>3, <2>4
<1> QED
  BY <1>3, <1>4

\* The chunk the rx task reads holds the whole of each line that begins in it
\* and came in one chunk.
LEMMA ReadKept ==
    ASSUME TypeOK, KeptInv, ReadEvent PROVE ChunksInv' /\ IntactKept'
<1>1. PICK ends : Layout(ends)
  BY DEF KeptInv, EventsInv
<1>2. /\ buf = NoRun /\ buf' = <<read, read'>> /\ read' = read + events[1]
      /\ UNCHANGED <<initialized, sent, queue, item, pos, handled, cuts, early, dropped>>
  BY DEF ReadEvent
<1>3. 1 \in 1..Len(events) /\ 0 \in 0..Len(events) /\ 1 \in 0..Len(events)
  <2> DEFINE Sizes == 1..Bytes
  <2>1. events \in Seq(Sizes) /\ events # <<>>
    BY DEF TypeOK, ReadEvent
  <2> HIDE DEF Sizes
  <2> QED
    BY <2>1
<1>4. ends[0] = read /\ ends[1] = read' /\ ends[1] \in 0..sent /\ ends[1 - 1] = ends[0]
  <2>1. ends[1] = ends[1 - 1] + events[1]
    BY <1>1, <1>3 DEF Layout
  <2> QED
    BY <1>1, <1>2, <1>3, <2>1 DEF Layout
<1>5. /\ sent \in Nat /\ read \in Nat /\ events[1] \in Nat \ {0} /\ cuts \subseteq 0..sent
  BY <1>3, EventTypes DEF KeptInv, EventsInv, CutsInv
<1>6. ASSUME ~dropped PROVE read' \in cuts /\ OneChunk(buf')
  <2>1. ends[1] \in cuts /\ \A d \in cuts : ~(ends[1 - 1] < d /\ d < ends[1])
    BY <1>1, <1>3, <1>6 DEF Layout
  <2> QED
    BY <1>2, <1>4, <1>5, <2>1 DEF OneChunk
<1>7. ChunksInv'
  <2> SUFFICES ASSUME ~dropped
               PROVE  /\ OneChunk(buf')
                      /\ \A i \in 1..Len(queue) : OneChunk(queue[i])
                      /\ item # NoRun => OneChunk(item) /\ item[1] <= pos
    BY <1>2 DEF ChunksInv, OneChunk
  <2> QED
    BY <1>6 DEF KeptInv, ChunksInv
<1>8. IntactKept'
  <2> SUFFICES ASSUME NEW e \in Ends, Intact(e), ~dropped
               PROVE  \/ \E i \in 1..Len(handled) : handled[i] = <<Begin(e), e>>
                      \/ read' <= Begin(e)
                      \/ buf' # NoRun /\ WholeIn(buf', e)
                      \/ \E i \in 1..Len(queue) : WholeIn(queue[i], e)
                      \/ item # NoRun /\ WholeIn(<<pos, item[2]>>, e)
    BY <1>2 DEF IntactKept, WholeIn, Intact
  <2>1. e \in Nat /\ Begin(e) \in Nat /\ Begin(e) < e
    BY BeginFact
  <2>2. PICK c \in cuts : c <= Begin(e) /\ \A d \in cuts : ~(c < d /\ d < e)
    BY DEF Intact
  <2>3. ASSUME read <= Begin(e), Begin(e) < read'
        PROVE  buf' # NoRun /\ WholeIn(buf', e)
    <3>1. c \in Nat /\ read' \in Nat /\ read' # 0
      BY <1>2, <1>5, <2>2
    <3>2. e <= read'
      BY <1>6, <2>1, <2>2, <2>3, <3>1
    <3> QED
      BY <1>2, <2>3, <3>1, <3>2 DEF WholeIn, NoRun
  <2>4. read' \in Nat
    BY <1>2, <1>5
  <2>5. read <= Begin(e) => read' <= Begin(e) \/ Begin(e) < read'
    BY <2>1, <2>4
  <2>6. \/ \E i \in 1..Len(handled) : handled[i] = <<Begin(e), e>>
        \/ read <= Begin(e)
        \/ \E i \in 1..Len(queue) : WholeIn(queue[i], e)
        \/ item # NoRun /\ WholeIn(<<pos, item[2]>>, e)
    BY <1>2 DEF KeptInv, IntactKept
  <2> QED
    BY <2>3, <2>5, <2>6, Zenon
<1> QED
  BY <1>7, <1>8

\* A chunk that goes to the queue takes the lines in it along.
LEMMA InputKept == ASSUME TypeOK, KeptInv, Input PROVE ChunksInv' /\ IntactKept'
<1>1. /\ queue \in Seq(Runs) /\ queue' = Append(queue, buf)
      /\ buf \in Runs /\ buf # NoRun /\ buf' = NoRun
      /\ UNCHANGED <<initialized, sent, read, item, pos, handled, cuts, early, dropped>>
  BY DEF Input, TypeOK
<1>2. /\ Len(queue') = Len(queue) + 1 /\ Len(queue) \in Nat
      /\ \A i \in 1..Len(queue) : queue'[i] = queue[i]
      /\ queue'[Len(queue) + 1] = buf
  BY <1>1
<1>3. /\ \A i \in 1..Len(queue') : i \in 1..Len(queue) \/ i = Len(queue) + 1
      /\ Len(queue) + 1 \in 1..Len(queue')
      /\ \A i \in 1..Len(queue) : i \in 1..Len(queue')
  BY <1>2
<1>4. ChunksInv'
  <2> SUFFICES ASSUME ~dropped
               PROVE  /\ \A i \in 1..Len(queue') : OneChunk(queue'[i])
                      /\ item # NoRun => OneChunk(item) /\ item[1] <= pos
    BY <1>1 DEF ChunksInv, OneChunk
  <2>1. /\ OneChunk(buf) /\ \A i \in 1..Len(queue) : OneChunk(queue[i])
        /\ item # NoRun => OneChunk(item) /\ item[1] <= pos
    BY <1>1 DEF KeptInv, ChunksInv
  <2> QED
    BY <1>2, <1>3, <2>1
<1>5. IntactKept'
  <2> SUFFICES ASSUME NEW e \in Ends, Intact(e), ~dropped
               PROVE  \/ \E i \in 1..Len(handled) : handled[i] = <<Begin(e), e>>
                      \/ read <= Begin(e)
                      \/ \E i \in 1..Len(queue') : WholeIn(queue'[i], e)
                      \/ item # NoRun /\ WholeIn(<<pos, item[2]>>, e)
    BY <1>1 DEF IntactKept, WholeIn, Intact
  <2>1. \/ \E i \in 1..Len(handled) : handled[i] = <<Begin(e), e>>
        \/ read <= Begin(e)
        \/ WholeIn(buf, e)
        \/ \E i \in 1..Len(queue) : WholeIn(queue[i], e)
        \/ item # NoRun /\ WholeIn(<<pos, item[2]>>, e)
    BY DEF KeptInv, IntactKept
  <2>2. CASE WholeIn(buf, e)
    BY <1>2, <1>3, <2>2
  <2>3. CASE \E i \in 1..Len(queue) : WholeIn(queue[i], e)
    BY <1>2, <1>3, <2>3
  <2> QED
    BY <2>1, <2>2, <2>3, Zenon
<1> QED
  BY <1>4, <1>5

\* The item the worker takes is whole, and the worker is at its beginning.
LEMMA RecvKept == ASSUME TypeOK, KeptInv, Recv PROVE ChunksInv' /\ IntactKept'
<1>1. /\ queue \in Seq(Runs) /\ queue # <<>> /\ queue' = Tail(queue)
      /\ item = NoRun /\ item' = queue[1] /\ pos' = queue[1][1]
      /\ UNCHANGED <<initialized, sent, read, buf, handled, cuts, early, dropped>>
  BY DEF Recv, TypeOK
<1>2. /\ Len(queue) \in Nat /\ Len(queue) >= 1 /\ Len(queue') = Len(queue) - 1
      /\ \A i \in 1..Len(queue') : queue'[i] = queue[i + 1]
  BY <1>1
<1>3. /\ 1 \in 1..Len(queue) /\ queue[1] \in Runs
      /\ \A i \in 1..Len(queue') : i + 1 \in 1..Len(queue)
      /\ \A i \in 1..Len(queue) :
           i = 1 \/ (i - 1 \in 1..Len(queue') /\ queue'[i - 1] = queue[i])
  BY <1>1, <1>2
<1>4. ChunksInv'
  <2> SUFFICES ASSUME ~dropped
               PROVE  /\ buf # NoRun => OneChunk(buf)
                      /\ \A i \in 1..Len(queue') : OneChunk(queue'[i])
                      /\ OneChunk(queue[1]) /\ queue[1][1] <= queue[1][1]
    BY <1>1 DEF ChunksInv, OneChunk
  <2>1. /\ buf # NoRun => OneChunk(buf)
        /\ \A i \in 1..Len(queue) : OneChunk(queue[i])
    BY DEF KeptInv, ChunksInv
  <2>2. queue[1][1] \in Nat
    BY <1>3 DEF Runs
  <2> QED
    BY <1>2, <1>3, <2>1, <2>2
<1>5. IntactKept'
  <2> SUFFICES ASSUME NEW e \in Ends, Intact(e), ~dropped
               PROVE  \/ \E i \in 1..Len(handled) : handled[i] = <<Begin(e), e>>
                      \/ read <= Begin(e)
                      \/ buf # NoRun /\ WholeIn(buf, e)
                      \/ \E i \in 1..Len(queue') : WholeIn(queue'[i], e)
                      \/ item' # NoRun /\ WholeIn(<<pos', item'[2]>>, e)
    BY <1>1 DEF IntactKept, WholeIn, Intact
  <2>1. \/ \E i \in 1..Len(handled) : handled[i] = <<Begin(e), e>>
        \/ read <= Begin(e)
        \/ buf # NoRun /\ WholeIn(buf, e)
        \/ \E i \in 1..Len(queue) : WholeIn(queue[i], e)
    BY <1>1 DEF KeptInv, IntactKept
  <2>2. CASE \E i \in 1..Len(queue) : WholeIn(queue[i], e)
    <3>1. PICK i \in 1..Len(queue) : WholeIn(queue[i], e)
      BY <2>2
    <3>2. CASE i = 1
      <4>1. queue[1][2] >= e /\ e \in Nat /\ Begin(e) < e /\ Begin(e) \in Nat
        BY <3>1, <3>2, <1>3, BeginFact DEF WholeIn, Runs
      <4>2. item' # NoRun
        BY <1>1, <4>1 DEF NoRun
      <4>3. WholeIn(<<pos', item'[2]>>, e)
        BY <1>1, <3>1, <3>2 DEF WholeIn
      <4> QED
        BY <4>2, <4>3
    <3>3. CASE i # 1
      BY <1>3, <3>1, <3>3
    <3> QED
      BY <3>2, <3>3
  <2> QED
    BY <2>1, <2>2, Zenon
<1> QED
  BY <1>4, <1>5

\* The next line of an item is handled from where it begins; the worker does
\* not come past the beginning of any other line of it.
LEMMA LineKept ==
    ASSUME TypeOK, KeptInv, NEW e \in Ends, Line(e) PROVE ChunksInv' /\ IntactKept'
<1>1. /\ handled \in Seq(Runs) /\ handled' = Append(handled, <<pos, e>>)
      /\ item # NoRun /\ item \in Runs /\ pos < e /\ e <= item[2] /\ pos' = e
      /\ pos \in Nat /\ e \in Nat /\ NextLine(pos, e)
      /\ UNCHANGED <<initialized, sent, read, buf, queue, item, cuts, early, dropped>>
  BY StreamAssumption DEF Line, TypeOK
<1>2. /\ Len(handled') = Len(handled) + 1 /\ Len(handled) \in Nat
      /\ \A i \in 1..Len(handled) : handled'[i] = handled[i]
      /\ handled'[Len(handled) + 1] = <<pos, e>>
  <2> DEFINE line == <<pos, e>>
  <2>1. line \in Runs /\ handled' = Append(handled, line)
    BY <1>1 DEF Runs
  <2>2. handled \in Seq(Runs)
    BY <1>1
  <2> HIDE DEF line
  <2>3. /\ Len(handled') = Len(handled) + 1 /\ Len(handled) \in Nat
        /\ \A i \in 1..Len(handled) : handled'[i] = handled[i]
        /\ handled'[Len(handled) + 1] = line
    BY <2>1, <2>2
  <2> QED
    BY <2>3 DEF line
<1>3. ChunksInv'
  <2>1. item[1] \in Nat
    BY <1>1 DEF Runs
  <2>2. item[1] <= pos => item[1] <= e
    BY <1>1, <2>1
  <2> QED
    BY <1>1, <2>2 DEF KeptInv, ChunksInv, OneChunk
<1>4. IntactKept'
  <2> SUFFICES ASSUME NEW f \in Ends, Intact(f), ~dropped
               PROVE  \/ \E i \in 1..Len(handled') : handled'[i] = <<Begin(f), f>>
                      \/ read <= Begin(f)
                      \/ buf # NoRun /\ WholeIn(buf, f)
                      \/ \E i \in 1..Len(queue) : WholeIn(queue[i], f)
                      \/ WholeIn(<<e, item[2]>>, f)
    BY <1>1 DEF IntactKept, WholeIn, Intact
  <2>1. \/ \E i \in 1..Len(handled) : handled[i] = <<Begin(f), f>>
        \/ read <= Begin(f)
        \/ buf # NoRun /\ WholeIn(buf, f)
        \/ \E i \in 1..Len(queue) : WholeIn(queue[i], f)
        \/ WholeIn(<<pos, item[2]>>, f)
    BY DEF KeptInv, IntactKept
  <2>2. CASE \E i \in 1..Len(handled) : handled[i] = <<Begin(f), f>>
    BY <1>2, <2>2
  <2>3. CASE WholeIn(<<pos, item[2]>>, f)
    <3>1. /\ pos <= Begin(f) /\ f <= item[2] /\ f \in Nat
          /\ Begin(f) \in Nat /\ Begin(f) < f
      BY <2>3, BeginFact DEF WholeIn
    <3>2. CASE f < e
      BY <1>1, <3>1, <3>2 DEF NextLine
    <3>3. CASE f = e
      <4>1. Begin(f) = pos
        BY <1>1, <3>1, <3>3, BeginFact DEF NextLine
      <4> QED
        BY <1>2, <3>3, <4>1
    <3>4. CASE e < f
      BY <3>1, <3>4, BeginFact DEF WholeIn
    <3>5. f < e \/ f = e \/ e < f
      BY <1>1, <3>1
    <3> QED
      BY <3>2, <3>3, <3>4, <3>5, Zenon
  <2> QED
    BY <2>1, <2>2, <2>3, Zenon
<1> QED
  BY <1>3, <1>4

\* No line that came in one chunk is left in the item the worker drops: it, or
\* one before it, would be the next to handle.
LEMMA DiscardKept ==
    ASSUME TypeOK, KeptInv, Discard PROVE ChunksInv' /\ IntactKept'
<1>1. /\ item # NoRun /\ item \in Runs /\ item' = NoRun /\ pos \in Nat
      /\ UNCHANGED <<initialized, sent, read, buf, queue, pos, handled, cuts, early,
                     dropped>>
  BY DEF Discard, TypeOK
<1>2. ChunksInv'
  BY <1>1 DEF KeptInv, ChunksInv, OneChunk
<1>3. ASSUME NEW e \in Ends, Intact(e), ~dropped, WholeIn(<<pos, item[2]>>, e)
      PROVE  FALSE
  <2> DEFINE T == {b \in Ends : pos < b /\ b <= e}
  <2>1. /\ pos <= Begin(e) /\ e <= item[2] /\ e \in Nat /\ item[1] \in Nat
        /\ item[2] \in Nat /\ Begin(e) \in Nat /\ Begin(e) < e
    BY <1>1, <1>3, BeginFact DEF WholeIn, Runs
  <2>2. OneChunk(item) /\ item[1] <= pos
    BY <1>1, <1>3 DEF KeptInv, ChunksInv
  <2>3. \A b \in Nuls : ~(item[1] < b /\ b < e)
    BY <1>1, <1>3, <2>1, <2>2, IntactChunk
  <2>4. e \in T /\ T \in SUBSET Nat
    <3>1. pos < e /\ e <= e
      BY <1>1, <2>1
    <3>2. Ends \subseteq Nat
      BY StreamAssumption
    <3> QED
      BY <3>1, <3>2
  <2>5. PICK first \in T : \A b \in T : first <= b
    BY <2>4, LeastNumber
  <2>6. first \in Ends /\ first \in Nat /\ pos < first /\ first <= e
    BY <2>4, <2>5
  <2>7. ASSUME NEW b \in Ends \cup Nuls, pos < b, b < first PROVE FALSE
    <3>1. b \in Nat
      BY StreamAssumption
    <3>2. b <= e
      BY <2>1, <2>6, <2>7, <3>1
    <3>3. CASE b \in Ends
      BY <2>5, <2>6, <2>7, <3>1, <3>2, <3>3
    <3>4. CASE b \in Nuls
      BY <1>1, <2>1, <2>2, <2>3, <2>6, <2>7, <3>1, <3>4
    <3> QED
      BY <3>3, <3>4
  <2>8. NextLine(pos, first) /\ first <= item[2]
    BY <2>1, <2>6, <2>7 DEF NextLine
  <2> QED
    BY <2>6, <2>8 DEF Discard
<1>4. IntactKept'
  BY <1>1, <1>3 DEF KeptInv, IntactKept, WholeIn, Intact
<1> QED
  BY <1>2, <1>4

\* A line that came before the core was initialized is none that must be kept.
LEMMA InitializeKept ==
    ASSUME TypeOK, KeptInv, Initialize PROVE ChunksInv' /\ IntactKept'
<1>1. early' = sent /\ UNCHANGED <<sent, buf, queue, item, pos, cuts, dropped>>
  BY DEF Initialize
<1>2. ChunksInv'
  BY <1>1 DEF KeptInv, ChunksInv, OneChunk
<1>3. ASSUME NEW e \in Ends PROVE ~Intact(e)'
  <2>1. sent \in Nat /\ cuts \subseteq Nat
    BY EventTypes DEF KeptInv, EventsInv, CutsInv
  <2> QED
    BY <1>1, <2>1, BeginFact DEF Intact
<1>4. IntactKept'
  BY <1>3 DEF IntactKept
<1> QED
  BY <1>2, <1>4

\* A chunk is refused only while the core is not initialized.
LEMMA RefuseKept == ASSUME TypeOK, KeptInv, Refuse PROVE ChunksInv' /\ IntactKept'
<1>1. /\ ~initialized /\ buf' = NoRun
      /\ UNCHANGED <<initialized, sent, queue, item, pos, cuts, dropped>>
  BY DEF Refuse
<1>2. ChunksInv'
  BY <1>1 DEF KeptInv, ChunksInv, OneChunk
<1>3. IntactKept'
  BY <1>1 DEF IntactKept, Intact
<1> QED
  BY <1>2, <1>3

\* At first nothing has come.
LEMMA InitKept == Init => KeptInv
<1> SUFFICES ASSUME Init PROVE ChunksInv /\ IntactKept
  BY InitChain, InitEvents DEF KeptInv
<1>1. ChunksInv
  BY DEF Init, ChunksInv
<1>2. IntactKept
  BY DEF Init, IntactKept, Intact
<1> QED
  BY <1>1, <1>2

\* No step loses a line that came in one chunk.
LEMMA NextKept == TypeOK /\ KeptInv /\ [Next]_vars => KeptInv'
<1> SUFFICES ASSUME TypeOK, KeptInv, [Next]_vars PROVE ChunksInv' /\ IntactKept'
  BY NextChain, NextEvents DEF KeptInv
<1>1. CASE UNCHANGED vars
  BY <1>1 DEF KeptInv, ChunksInv, OneChunk, IntactKept, Intact, WholeIn, vars
<1> QED
  BY <1>1, InitializeKept, ArriveKept, ReadKept, RefuseKept, InputKept, RecvKept,
     LineKept, DiscardKept DEF Next, RxTask, Worker

\* A line that came in one chunk is never lost or cut on its way.
THEOREM NothingLost == Spec => []IntactKept
<1>1. KeptInv => IntactKept
  BY DEF KeptInv
<1> QED
  BY <1>1, InitKept, NextKept, TypeCorrect, PTL DEF Spec

-----------------------------------------------------------------------------
(* Only a chunk that ends within a line cuts it.                           *)

\* Until an event is lost, what is under way begins where a chunk ended, and the
\* worker stands there or behind a line.
AtCuts ==
    ~dropped =>
        /\ buf # NoRun => buf[1] \in cuts
        /\ \A i \in 1..Len(queue) : queue[i][1] \in cuts
        /\ item # NoRun => pos \in cuts \cup Ends

\* The inductive invariant behind UncutWhole.
UncutInv == EventsInv /\ AtCuts /\ UncutWhole

\* The next line from where a line may begin is a whole line.
LEMMA NextFromBegin ==
    ASSUME NEW from \in {0} \cup Ends, NEW e \in Ends, from < e, NextLine(from, e)
    PROVE  Begin(e) = from
<1>1. /\ from \in Nat /\ e \in Nat /\ Begin(e) \in Nat /\ Begin(e) < e
      /\ from <= Begin(e) /\ (Begin(e) = 0 \/ Begin(e) \in Ends)
  BY BeginFact, StreamAssumption
<1> QED
  BY <1>1 DEF NextLine

\* The rx task's next chunk begins where one ended.
LEMMA ReadAtCuts == ASSUME TypeOK, UncutInv, ReadEvent PROVE AtCuts'
<1>1. PICK ends : Layout(ends)
  BY DEF UncutInv, EventsInv
<1>2. ~dropped => read \in cuts
  BY <1>1, EventTypes DEF Layout
<1> QED
  BY <1>2 DEF ReadEvent, UncutInv, AtCuts

\* A chunk in the queue begins where it did.
LEMMA InputAtCuts == ASSUME TypeOK, UncutInv, Input PROVE AtCuts'
<1>1. /\ queue \in Seq(Runs) /\ queue' = Append(queue, buf)
      /\ buf \in Runs /\ buf # NoRun /\ buf' = NoRun
      /\ UNCHANGED <<item, pos, cuts, dropped>>
  BY DEF Input, TypeOK
<1>2. /\ Len(queue') = Len(queue) + 1 /\ Len(queue) \in Nat
      /\ \A i \in 1..Len(queue) : queue'[i] = queue[i]
      /\ queue'[Len(queue) + 1] = buf
  BY <1>1
<1>3. \A i \in 1..Len(queue') : i \in 1..Len(queue) \/ i = Len(queue) + 1
  BY <1>2
<1> QED
  BY <1>1, <1>2, <1>3 DEF UncutInv, AtCuts

\* The worker begins where its item does.
LEMMA RecvAtCuts == ASSUME TypeOK, UncutInv, Recv PROVE AtCuts'
<1>1. /\ queue \in Seq(Runs) /\ queue # <<>> /\ queue' = Tail(queue)
      /\ pos' = queue[1][1] /\ UNCHANGED <<buf, cuts, dropped>>
  BY DEF Recv, TypeOK
<1>2. /\ Len(queue) \in Nat /\ Len(queue) >= 1 /\ Len(queue') = Len(queue) - 1
      /\ \A i \in 1..Len(queue') : queue'[i] = queue[i + 1]
  BY <1>1
<1>3. 1 \in 1..Len(queue) /\ \A i \in 1..Len(queue') : i + 1 \in 1..Len(queue)
  BY <1>2
<1> QED
  BY <1>1, <1>2, <1>3 DEF UncutInv, AtCuts

\* A line that is handled is whole if the worker stood where a line may begin.
LEMMA LineUncut ==
    ASSUME TypeOK, UncutInv, NEW e \in Ends, Line(e) PROVE AtCuts' /\ UncutWhole'
<1>1. /\ handled \in Seq(Runs) /\ handled' = Append(handled, <<pos, e>>)
      /\ item # NoRun /\ pos < e /\ pos' = e /\ NextLine(pos, e)
      /\ UNCHANGED <<buf, queue, item, cuts, dropped>>
  BY DEF Line, TypeOK
<1>2. AtCuts'
  BY <1>1 DEF UncutInv, AtCuts
<1>3. ASSUME cuts \subseteq {0} \cup Ends, ~dropped, NEW i \in 1..Len(handled')
      PROVE  handled'[i][1] = Begin(handled'[i][2])
  <2>1. CASE i = Len(handled) + 1
    <3>1. handled'[i] = <<pos, e>>
      BY <1>1, <2>1 DEF Runs
    <3>2. pos \in {0} \cup Ends
      BY <1>1, <1>3 DEF UncutInv, AtCuts
    <3>3. Begin(e) = pos
      BY <1>1, <3>2, NextFromBegin
    <3> QED
      BY <3>1, <3>3
  <2>2. CASE i \in 1..Len(handled)
    <3>1. handled'[i] = handled[i]
      BY <1>1, <2>2
    <3>2. handled[i][1] = Begin(handled[i][2])
      BY <1>3, <2>2 DEF UncutInv, UncutWhole, WholeLines
    <3> QED
      BY <3>1, <3>2
  <2>3. i = Len(handled) + 1 \/ i \in 1..Len(handled)
    BY <1>1
  <2> QED
    BY <2>1, <2>2, <2>3
<1> QED
  BY <1>1, <1>2, <1>3 DEF UncutWhole, WholeLines

\* No other step adds to what was handled.
LEMMA OtherUncut ==
    ASSUME UncutInv, UNCHANGED handled, cuts \subseteq cuts', dropped => dropped'
    PROVE  UncutWhole'
BY DEF UncutInv, UncutWhole, WholeLines

\* No step but the end of a chunk cuts a line.
LEMMA NextUncut == TypeOK /\ UncutInv /\ [Next]_vars => UncutInv'
<1> SUFFICES ASSUME TypeOK, UncutInv, [Next]_vars PROVE AtCuts' /\ UncutWhole'
  BY NextEvents DEF UncutInv
<1>1. CASE UNCHANGED vars \/ Initialize \/ Refuse \/ Discard
  <2>1. /\ UNCHANGED <<queue, handled, cuts, dropped, pos>>
        /\ buf' = buf \/ buf' = NoRun
        /\ item' = item \/ item' = NoRun
    BY <1>1 DEF vars, Initialize, Refuse, Discard
  <2> QED
    BY <2>1, OtherUncut DEF UncutInv, AtCuts
<1>2. ASSUME NEW n \in 1..Bytes, Arrive(n) PROVE AtCuts' /\ UncutWhole'
  <2>1. /\ UNCHANGED <<queue, handled, buf, item, pos>> /\ cuts \subseteq cuts'
        /\ dropped' = dropped \/ dropped' = TRUE
    BY <1>2 DEF Arrive
  <2> QED
    BY <2>1, OtherUncut DEF UncutInv, AtCuts
<1>3. CASE ReadEvent
  BY <1>3, ReadAtCuts, OtherUncut DEF ReadEvent
<1>4. CASE Input
  BY <1>4, InputAtCuts, OtherUncut DEF Input
<1>5. CASE Recv
  BY <1>5, RecvAtCuts, OtherUncut DEF Recv
<1> QED
  BY <1>1, <1>2, <1>3, <1>4, <1>5, LineUncut DEF Next, RxTask, Worker

\* If no chunk cuts a line, and no event is lost, only whole lines are handled.
THEOREM UncutIsWhole == Spec => []UncutWhole
<1>1. Init => UncutInv
  BY InitEvents DEF Init, UncutInv, AtCuts, UncutWhole, WholeLines
<1>2. UncutInv => UncutWhole
  BY DEF UncutInv
<1> QED
  BY <1>1, <1>2, NextUncut, TypeCorrect, PTL DEF Spec

=============================================================================
