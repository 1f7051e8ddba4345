----------------------------- MODULE NodeProofs -----------------------------
(***************************************************************************)
(* Proofs about node for every set of messages, every number of            *)
(* connections and every limit of the backoff time.                        *)
(***************************************************************************)
EXTENDS Node, FiniteSetTheorems, TLAPS

Frames == [msg : Msgs, live : BOOLEAN]

\* Appending to a queue or a history, and taking its front away.
LEMMA AppendFacts ==
    ASSUME NEW S, NEW q \in Seq(S), NEW e \in S
    PROVE  /\ Append(q, e) \in Seq(S) /\ Append(q, e) # <<>>
           /\ Len(Append(q, e)) = 1 <=> q = <<>>
           /\ q = <<>> => Head(Append(q, e)) = e
           /\ q # <<>> => Head(Append(q, e)) = Head(q)
<1>1. Append(q, e) \in Seq(S)
  OBVIOUS
<1>2. q = <<>> <=> Len(q) = 0
  OBVIOUS
<1>3. Len(Append(q, e)) = Len(q) + 1 /\ Len(q) \in Nat
  OBVIOUS
<1>4. Append(q, e) # <<>>
  <2>1. Len(Append(q, e)) # 0
    BY <1>3
  <2>2. Len(<<>>) = 0
    OBVIOUS
  <2> QED
    BY <2>1, <2>2, Zenon
<1>5. q = <<>> => Head(Append(q, e)) = e
  OBVIOUS
<1>6. q # <<>> => Head(Append(q, e)) = Head(q)
  OBVIOUS
<1> QED
  BY <1>1, <1>2, <1>3, <1>4, <1>5, <1>6

-----------------------------------------------------------------------------
(* Types *)

\* The backoff time stays within its limit.
LEMMA BackoffType ==
    ASSUME NEW t \in 0 .. MaxBackoff
    PROVE  Longer(t) \in 0 .. MaxBackoff /\ Shorter(t) \in 0 .. MaxBackoff
<1>1. MaxBackoff \in Nat /\ MaxBackoff >= 1
  BY NodeAssumption
<1>2. Longer(t) \in 0 .. MaxBackoff
  BY <1>1 DEF Longer
<1>3. t > 1 => t \div 2 \in 0 .. t
  BY <1>1
<1>4. Shorter(t) \in 0 .. MaxBackoff
  BY <1>1, <1>3 DEF Shorter
<1> QED
  BY <1>2, <1>4

\* Scheduling a send writes a message of the queue.
LEMMA SendNextType ==
    ASSUME TypeOK, NEW w \in [Conns -> Seq(Frames)], NEW q \in Seq(Msgs), NEW c,
           SendNext(w, q, c)
    PROVE  writes' \in [Conns -> Seq(Frames)] /\ armed' \in BOOLEAN
<1>1. CASE writes' = w /\ armed' \in BOOLEAN
  BY <1>1
<1>2. CASE q # <<>> /\ do_send(w, q, c) /\ armed' = armed
  <2> DEFINE f == [msg |-> Head(q), live |-> IsOpen(websocket, c)]
  <2>1. Head(q) \in Msgs
    BY <1>2
  <2>2. f \in Frames
    BY <2>1 DEF Frames, IsOpen
  <2>3. writes' = [w EXCEPT ![websocket] = Append(w[websocket], f)]
    BY <1>2 DEF do_send
  <2> HIDE DEF f
  <2>4. websocket \in Conns => Append(w[websocket], f) \in Seq(Frames)
    BY <2>2
  <2>5. writes' \in [Conns -> Seq(Frames)]
    BY <2>3, <2>4
  <2> QED
    BY <1>2, <2>5 DEF TypeOK
<1> QED
  BY <1>1, <1>2 DEF SendNext, schedule_send, TypeOK

\* connect() and close() keep the types of the connections they are given.
LEMMA ConnectType ==
    ASSUME NEW c \in [Conns -> ConnStates], Connect(c)
    PROVE  conn' \in [Conns -> ConnStates] /\ state' = "connecting"
  BY DEF Connect, ConnStates

LEMMA CloseType ==
    ASSUME TypeOK, NEW c \in [Conns -> ConnStates], Close(c)
    PROVE  /\ conn' \in [Conns -> ConnStates]
           /\ state' \in {"disconnected", "disconnecting"}
<1>1. CASE conn' = c /\ state' \in {"disconnected", "disconnecting"}
  BY <1>1
<1>2. CASE state' = "disconnecting" /\ conn' = [c EXCEPT ![websocket] = "closing"]
  BY <1>2 DEF ConnStates
<1> QED
  BY <1>1, <1>2 DEF Close

\* So does letting go of a websocket.
LEMMA DropType ==
    ASSUME TypeOK
    PROVE  /\ DropWebsocket \in [Conns -> ConnStates]
           /\ \A k \in Conns : ReadEnds(k, conn) \in [Conns -> ConnStates]
<1>1. DropWebsocket \in [Conns -> ConnStates]
  BY DEF DropWebsocket, TypeOK, ConnStates
<1>2. \A k \in Conns : ReadEnds(k, conn) \in [Conns -> ConnStates]
  BY DEF ReadEnds, TypeOK, ConnStates
<1> QED
  BY <1>1, <1>2

\* One write of a connection that is over leaves the others.
LEMMA TailType ==
    ASSUME NEW w \in [Conns -> Seq(Frames)], NEW k \in Conns, w[k] # <<>>
    PROVE  /\ [w EXCEPT ![k] = Tail(@)] \in [Conns -> Seq(Frames)]
           /\ Head(w[k]) \in Frames /\ Head(w[k]).msg \in Msgs
<1>1. w[k] \in Seq(Frames)
  OBVIOUS
<1>2. Tail(w[k]) \in Seq(Frames) /\ Head(w[k]) \in Frames
  BY <1>1
<1>3. Head(w[k]).msg \in Msgs
  BY <1>2 DEF Frames
<1> QED
  BY <1>2, <1>3

\* The steps of the owner keep the types.
LEMMA OwnerType ==
    ASSUME TypeOK,
           \/ \E m \in Msgs : SendMessage(m)
           \/ \E value \in BOOLEAN : BackOff(value)
           \/ Destroy
    PROVE  TypeOK'
<1> USE DEF TypeOK
<1>1. ASSUME NEW m \in Msgs, SendMessage(m) PROVE TypeOK'
  <2>1. accepted' \in Seq(Msgs) /\ send_queue' \in Seq(Msgs) /\ send_queue' # <<>>
    <3>1. accepted' = Append(accepted, m) /\ send_queue' = Append(send_queue, m)
      BY <1>1 DEF SendMessage
    <3>2. /\ Append(accepted, m) \in Seq(Msgs)
          /\ Append(send_queue, m) \in Seq(Msgs) /\ Append(send_queue, m) # <<>>
      BY AppendFacts
    <3> QED
      BY <3>1, <3>2
  <2>2. writes' \in [Conns -> Seq(Frames)] /\ armed' \in BOOLEAN
    <3>1. CASE schedule_send(writes, send_queue', conn)
      <4>1. SendNext(writes, send_queue', conn)
        BY <2>1, <3>1 DEF SendNext
      <4> QED
        BY <2>1, <4>1, SendNextType DEF Frames
    <3>2. CASE UNCHANGED <<writes, armed>>
      BY <3>2 DEF Frames
    <3> QED
      BY <1>1, <3>1, <3>2 DEF SendMessage
  <2>3. conn' \in [Conns -> ConnStates]
        /\ state' \in {"disconnected", "connecting", "connected", "disconnecting"}
    BY <1>1, ConnectType DEF SendMessage
  <2> QED
    BY <1>1, <2>1, <2>2, <2>3 DEF SendMessage, Frames
<1>2. ASSUME NEW value \in BOOLEAN, BackOff(value) PROVE TypeOK'
  BY <1>2, BackoffType DEF BackOff
<1>3. CASE Destroy
  <2>1. send_queue' \in Seq(Msgs) /\ websocket' \in 0 .. MaxConnects
    BY <1>3, NodeAssumption DEF Destroy
  <2> QED
    BY <1>3, <2>1, DropType DEF Destroy
<1> QED
  BY <1>1, <1>2, <1>3

\* The handlers of connect, handshake and close keep the types.
LEMMA ConnectionType ==
    ASSUME TypeOK, NEW k \in Conns,
           ConnectDone(k) \/ HandshakeEnds(k) \/ CloseDone(k) \/ LateConnection(k)
    PROVE  TypeOK'
<1> USE DEF TypeOK
<1>1. CASE TcpConnected(k)
  <2>1. k \in 0 .. MaxConnects
    BY NodeAssumption DEF Conns
  <2>2. conn' \in [Conns -> ConnStates]
    BY <1>1, DropType DEF TcpConnected, ConnStates
  <2> QED
    BY <1>1, <2>1, <2>2 DEF TcpConnected
<1>2. CASE TcpFailed(k)
  BY <1>2 DEF TcpFailed, ConnStates
<1>3. CASE HandshakeDone(k)
  <2>1. writes' \in [Conns -> Seq(Frames)] /\ armed' \in BOOLEAN
    BY <1>3, SendNextType DEF HandshakeDone, Frames
  <2>2. conn' \in [Conns -> ConnStates] /\ reads' \in [Conns -> Nat]
    <3>1. conn' = [conn EXCEPT ![k] = IF @ = "handshake" THEN "open" ELSE "closed"]
          /\ reads' = [reads EXCEPT ![websocket] = reads[websocket] + 1]
      BY <1>3 DEF HandshakeDone
    <3>2. conn' \in [Conns -> ConnStates]
      BY <3>1 DEF ConnStates
    <3>3. websocket \in Conns => reads[websocket] + 1 \in Nat
      OBVIOUS
    <3> QED
      BY <3>1, <3>2, <3>3
  <2> QED
    BY <1>3, <2>1, <2>2 DEF HandshakeDone, Frames
<1>4. CASE \/ HandshakeFailed(k) \/ HandshakeDropped(k) \/ CloseDone(k)
           \/ LateConnection(k)
  BY <1>4 DEF HandshakeFailed, HandshakeDropped, CloseDone, LateConnection, ConnStates
<1> QED
  BY <1>1, <1>2, <1>3, <1>4 DEF ConnectDone, HandshakeEnds

\* The handlers of writes keep the types.
LEMMA WriteType ==
    ASSUME TypeOK, NEW k \in Conns, WriteDone(k) \/ LateWrite(k)
    PROVE  TypeOK'
<1> USE DEF TypeOK
<1> DEFINE w == [writes EXCEPT ![k] = Tail(@)]
<1>1. /\ writes \in [Conns -> Seq(Frames)]
      /\ writes[k] # <<>>
  BY DEF WriteDone, WriteOk, WriteError, WriteClosed, LateWrite, Frames
<1>2. w \in [Conns -> Seq(Frames)] /\ Written(k).msg \in Msgs
  BY <1>1, TailType DEF Written
<1>0. ASSUME Arrives(k) PROVE delivered' \in Seq(Msgs)
  <2>1. \/ delivered' = delivered
        \/ delivered' = Append(delivered, Written(k).msg)
    BY <1>0 DEF Arrives
  <2>2. Append(delivered, Written(k).msg) \in Seq(Msgs)
    BY <1>2
  <2> QED
    BY <2>1, <2>2
<1>3. ASSUME Popped(k), delivered' \in Seq(Msgs) PROVE TypeOK'
  <2>1. completed' \in Seq(Msgs)
    BY <1>2, <1>3 DEF Popped
  <2>2. CASE send_queue = <<>>
    BY <1>3, <2>1, <2>2 DEF Popped
  <2>3. CASE send_queue # <<>>
    <3>1. send_queue' = Tail(send_queue) /\ SendNext(w, send_queue', conn)
      BY <1>3, <2>3 DEF Popped
    <3>2. send_queue' \in Seq(Msgs)
      BY <2>3, <3>1
    <3> HIDE DEF w
    <3>3. writes' \in [Conns -> Seq(Frames)] /\ armed' \in BOOLEAN
      BY <1>2, <3>1, <3>2, SendNextType
    <3> QED
      BY <1>3, <2>1, <2>3, <3>2, <3>3 DEF Popped, Frames
  <2> QED
    BY <2>2, <2>3
<1>4. CASE WriteOk(k) \/ WriteError(k)
  <2>1. delivered' \in Seq(Msgs)
    BY <1>0, <1>4 DEF WriteOk, WriteError
  <2> QED
    BY <1>3, <1>4, <2>1 DEF WriteOk, WriteError
<1>5. CASE WriteClosed(k)
  <2> DEFINE c == [conn EXCEPT ![k] = IF @ = "broken" THEN "closed" ELSE @]
  <2>1. c \in [Conns -> ConnStates] /\ Connect(c) /\ writes' = w
    BY <1>5 DEF WriteClosed, ConnStates
  <2>3. delivered' \in Seq(Msgs)
    BY <1>0, <1>5 DEF WriteClosed
  <2> HIDE DEF c, w
  <2>2. conn' \in [Conns -> ConnStates] /\ state' = "connecting"
    BY <2>1, ConnectType
  <2> QED
    BY <1>2, <1>5, <2>1, <2>2, <2>3 DEF WriteClosed, Frames
<1>6. CASE LateWrite(k)
  <2>1. delivered' \in Seq(Msgs) /\ completed' \in Seq(Msgs) /\ writes' = w
    <3>1. /\ \/ delivered' = delivered
             \/ delivered' = Append(delivered, Written(k).msg)
          /\ completed' = Append(completed, Written(k).msg)
          /\ writes' = w
      BY <1>6 DEF LateWrite
    <3>2. /\ Append(delivered, Written(k).msg) \in Seq(Msgs)
          /\ Append(completed, Written(k).msg) \in Seq(Msgs)
      BY <1>2
    <3> QED
      BY <3>1, <3>2
  <2> HIDE DEF w
  <2> QED
    BY <1>2, <1>6, <2>1 DEF LateWrite, Frames
<1> QED
  BY <1>4, <1>5, <1>6 DEF WriteDone

\* The handlers of reads keep the types.
LEMMA ReadType ==
    ASSUME TypeOK, NEW k \in Conns, ReadError(k) \/ Receive(k) \/ LateRead(k)
    PROVE  TypeOK'
<1> USE DEF TypeOK
<1>1. CASE ReadMore(k)
  <2>1. reads' \in [Conns -> Nat]
    <3> DEFINE less == [reads EXCEPT ![k] = @ - 1]
    <3>1. less \in [Conns -> Nat]
      BY <1>1 DEF ReadMore
    <3>2. reads' = [less EXCEPT ![websocket] = less[websocket] + 1]
      BY <1>1 DEF ReadMore
    <3> HIDE DEF less
    <3>3. websocket \in Conns => less[websocket] + 1 \in Nat
      BY <3>1
    <3> QED
      BY <3>1, <3>2, <3>3
  <2> QED
    BY <1>1, <2>1, DropType DEF ReadMore
<1>2. CASE ReadClose(k)
  <2>1. reads' \in [Conns -> Nat] /\ breaks' \in 0 .. MaxBreaks
    BY <1>2, NodeAssumption DEF ReadClose
  <2>2. conn' \in [Conns -> ConnStates] /\ state' \in {"disconnected", "disconnecting"}
    BY <1>2, DropType, CloseType DEF ReadClose
  <2> QED
    BY <1>2, <2>1, <2>2 DEF ReadClose
<1>3. CASE ReadThrow(k)
  <2>1. reads' \in [Conns -> Nat]
    BY <1>3 DEF ReadThrow
  <2> QED
    BY <1>3, <2>1, DropType DEF ReadThrow
<1>4. CASE ReadError(k)
  <2> DEFINE c == [ReadEnds(k, conn) EXCEPT ![k] = IF @ = "broken" THEN "closed" ELSE @]
  <2>1. reads' \in [Conns -> Nat] /\ Close(c)
    BY <1>4 DEF ReadError
  <2>2. c \in [Conns -> ConnStates]
    BY DropType DEF ConnStates
  <2> HIDE DEF c
  <2>3. conn' \in [Conns -> ConnStates] /\ state' \in {"disconnected", "disconnecting"}
    BY <2>1, <2>2, CloseType
  <2> QED
    BY <1>4, <2>1, <2>3 DEF ReadError
<1>5. CASE Break(k)
  <2>1. breaks' \in 0 .. MaxBreaks
    BY <1>5, NodeAssumption DEF Break
  <2>2. conn' \in [Conns -> ConnStates]
    BY <1>5 DEF Break, ConnStates
  <2> QED
    BY <1>5, <2>1, <2>2 DEF Break
<1>6. CASE LateRead(k)
  <2>1. reads' \in [Conns -> Nat] /\ conn' \in [Conns -> ConnStates]
    BY <1>6 DEF LateRead, ConnStates
  <2> QED
    BY <1>6, <2>1 DEF LateRead
<1> QED
  BY <1>1, <1>2, <1>3, <1>4, <1>5, <1>6 DEF Receive

\* The waits keep the types.
LEMMA BackoffStepType ==
    ASSUME TypeOK, BackoffExpires \/ BackoffDone
    PROVE  TypeOK'
<1> USE DEF TypeOK
<1>1. CASE BackoffExpires
  <2>1. queued' = queued + 1 /\ armed' = FALSE
    BY <1>1 DEF BackoffExpires
  <2>2. queued' \in Nat
    BY <2>1
  <2>3. armed' \in BOOLEAN
    BY <2>1
  <2> QED
    BY <1>1, <2>2, <2>3 DEF BackoffExpires
<1>2. CASE BackoffDone
  <2>1. queued' \in Nat
    BY <1>2 DEF BackoffDone
  <2>2. failure' \in {"none", "assert", "pop_empty", "null_node"}
    BY <1>2 DEF BackoffDone
  <2>3. writes' \in [Conns -> Seq(Frames)]
    <3>1. CASE UNCHANGED writes
      BY <3>1 DEF Frames
    <3>2. CASE send_queue # <<>> /\ do_send(writes, send_queue, conn)
      <4> DEFINE f == [msg |-> Head(send_queue), live |-> IsOpen(websocket, conn)]
      <4>1. f \in Frames
        BY <3>2 DEF Frames, IsOpen
      <4>2. writes' = [writes EXCEPT ![websocket] = Append(writes[websocket], f)]
        BY <3>2 DEF do_send
      <4> HIDE DEF f
      <4>3. writes \in [Conns -> Seq(Frames)]
        BY DEF Frames
      <4>4. websocket \in Conns => Append(writes[websocket], f) \in Seq(Frames)
        BY <4>1, <4>3
      <4> QED
        BY <4>2, <4>3, <4>4
    <3> QED
      BY <1>2, <3>1, <3>2 DEF BackoffDone
  <2> QED
    BY <1>2, <2>1, <2>2, <2>3 DEF BackoffDone, Frames
<1> QED
  BY <1>1, <1>2

\* Every step of a node preserves the type invariant.
LEMMA TypeStep == TypeOK /\ [Next]_vars => TypeOK'
<1> SUFFICES ASSUME TypeOK, [Next]_vars PROVE TypeOK'
  OBVIOUS
<1>1. CASE UNCHANGED vars
  BY <1>1 DEF vars, TypeOK
<1> QED
  BY <1>1, OwnerType, ConnectionType, WriteType, ReadType, BackoffStepType
     DEF Next, LateHandler

\* The members of a node keep their types, and the backoff time its limit, with
\* every fault and after the node was dropped.
THEOREM TypeCorrect == Spec => []TypeOK
<1>1. Init => TypeOK
  <2> SUFFICES ASSUME Init PROVE TypeOK
    OBVIOUS
  <2>1. /\ send_queue \in Seq(Msgs) /\ accepted \in Seq(Msgs)
        /\ delivered \in Seq(Msgs) /\ completed \in Seq(Msgs)
        /\ writes \in [Conns -> Seq(Frames)]
    BY DEF Init
  <2>2. 0 \in 0 .. MaxConnects /\ 0 \in 0 .. MaxBackoff /\ 0 \in 0 .. MaxBreaks
    BY NodeAssumption
  <2> QED
    BY <2>1, <2>2 DEF Init, TypeOK, ConnStates, Frames
<1> QED
  BY <1>1, TypeStep, PTL DEF Spec

-----------------------------------------------------------------------------
(* While no connection is lost: the inductive invariant *)

\* What may go wrong is that an attempt to connect fails, reported or not, and
\* that the message handler throws.
NoLoss == Faults \subseteq {"connect", "handshake", "ssl", "handler_throw"}

\* The same for a node that may be dropped besides.
NoBreak ==
    Faults \subseteq {"connect", "handshake", "ssl", "handler_throw", "destroy"}

\* At most one connection is under way or open, and the state of the node and its
\* websocket say which.
Link ==
    /\ ~destroyed /\ failure = "none"
    /\ state \in {"disconnected", "connecting", "connected"}
    /\ \A k \in Conns :
        /\ conn[k] \in {"none", "tcp", "handshake", "dropped", "open", "closed"}
        /\ conn[k] \in {"tcp", "handshake", "dropped"} =>
                /\ state = "connecting"
                /\ \A j \in Conns \ {k} : conn[j] \in {"none", "closed"}
        /\ conn[k] = "handshake" => websocket = k
        /\ conn[k] = "open" => state = "connected" /\ websocket = k
    /\ state = "connected" => websocket \in Conns /\ conn[websocket] = "open"

\* Only the open connection is read.
Reading == \A k \in Conns : reads[k] > 0 => state = "connected" /\ websocket = k

Sendable == state = "connected" /\ send_queue # <<>>
NoWrites == writes = [k \in Conns |-> <<>>]
OneWrite(m) ==
    writes = [k \in Conns |-> IF k = websocket THEN <<[msg |-> m, live |-> TRUE]>>
                              ELSE <<>>]

\* The three ways a send can be under way, and none.
Resting == ~Sendable /\ NoWrites /\ ~armed /\ queued = 0
Writing == Sendable /\ OneWrite(Head(send_queue)) /\ ~armed /\ queued = 0
Waiting == Sendable /\ NoWrites /\ armed /\ queued = 0
Expired == Sendable /\ NoWrites /\ ~armed /\ queued = 1

Sending == Resting \/ Writing \/ Waiting \/ Expired

IInv == TypeOK /\ Link /\ Reading /\ Sending /\ InOrderExactlyOnce

\* With nothing under way, the next send is a write of the front of the queue or
\* a wait, and nothing when the queue is empty.
LEMMA SendNextEffect ==
    ASSUME websocket \in Conns, NEW q \in Seq(Msgs), NEW c, IsOpen(websocket, c),
           NEW w, w = [k \in Conns |-> <<>>], armed \in BOOLEAN, ~armed,
           SendNext(w, q, c)
    PROVE  \/ q = <<>> /\ writes' = w /\ ~armed'
           \/ q # <<>> /\ writes' = w /\ armed'
           \/ /\ q # <<>> /\ ~armed'
              /\ writes' = [k \in Conns |->
                    IF k = websocket THEN <<[msg |-> Head(q), live |-> TRUE]>>
                    ELSE <<>>]
<1>1. CASE q = <<>>
  BY <1>1 DEF SendNext
<1>2. CASE q # <<>> /\ backoff_time > 0
  BY <1>2 DEF SendNext, schedule_send
<1>3. CASE q # <<>> /\ ~(backoff_time > 0)
  <2> DEFINE f == [msg |-> Head(q), live |-> TRUE]
  <2>1. IsOpen(websocket, c) = TRUE
    BY DEF IsOpen
  <2>2. writes' = [w EXCEPT ![websocket] = Append(w[websocket], f)] /\ ~armed'
    BY <1>3, <2>1 DEF SendNext, schedule_send, do_send
  <2> HIDE DEF f
  <2>3. Append(w[websocket], f) = <<f>>
    <3>1. w[websocket] = <<>>
      OBVIOUS
    <3>2. Append(<<>>, f) = <<f>>
      OBVIOUS
    <3> QED
      BY <3>1, <3>2, Zenon
  <2>4. writes' = [k \in Conns |-> IF k = websocket THEN <<f>> ELSE <<>>]
    BY <2>2, <2>3
  <2> QED
    BY <1>3, <2>2, <2>4 DEF f
<1> QED
  BY <1>1, <1>2, <1>3

\* Moving the front of the queue to the end of what was delivered changes
\* nothing in their concatenation.
LEMMA MoveFront ==
    ASSUME NEW d \in Seq(Msgs), NEW q \in Seq(Msgs), q # <<>>
    PROVE  Append(d, Head(q)) \o Tail(q) = d \o q
  OBVIOUS

\* A message put at the end of the queue comes at the end of the concatenation.
LEMMA AppendConcat ==
    ASSUME NEW d \in Seq(Msgs), NEW q \in Seq(Msgs), NEW m \in Msgs
    PROVE  Append(d \o q, m) = d \o Append(q, m)
  OBVIOUS

-----------------------------------------------------------------------------
(* While no connection is lost: the steps *)

\* The connection under a write or a read is the open one, so the steps that need
\* a lost connection, a close or a node that is gone cannot happen.
LEMMA LossStepsDisabled ==
    ASSUME NoBreak, IInv, NEW k \in Conns
    PROVE  /\ ~Break(k) /\ ~ReadClose(k) /\ ~CloseDone(k)
           /\ ~LateHandler(k)
           /\ ~WriteError(k) /\ ~WriteClosed(k) /\ ~ReadError(k)
<1>1. ~Break(k) /\ ~ReadClose(k)
  BY DEF NoBreak, Break, ReadClose
<1>2. ~CloseDone(k) /\ ~LateHandler(k)
  BY DEF IInv, Link, CloseDone, LateHandler, LateConnection, LateRead, LateWrite
<1>3. writes[k] # <<>> => conn[k] = "open"
  BY DEF IInv, Link, Sending, Resting, Writing, Waiting, Expired, NoWrites,
     OneWrite, Sendable
<1>4. reads[k] > 0 => conn[k] = "open"
  BY DEF IInv, Link, Reading
<1> QED
  BY <1>1, <1>2, <1>3, <1>4 DEF WriteError, WriteClosed, ReadError

\* The steps of the owner.
LEMMA OwnerStep ==
    ASSUME IInv,
           \/ \E m \in Msgs : SendMessage(m)
           \/ \E value \in BOOLEAN : BackOff(value)
    PROVE  (Link /\ Reading /\ Sending /\ InOrderExactlyOnce)'
<1>1. ASSUME NEW m \in Msgs, SendMessage(m)
      PROVE  (Link /\ Reading /\ Sending /\ InOrderExactlyOnce)'
  <2>1. /\ accepted' = Append(accepted, m) /\ send_queue' = Append(send_queue, m)
        /\ UNCHANGED <<websocket, reads, queued, delivered, completed, destroyed,
                       failure>>
    BY <1>1 DEF SendMessage
  <2>2. /\ send_queue \in Seq(Msgs) /\ delivered \in Seq(Msgs)
        /\ armed \in BOOLEAN /\ state # "disconnecting"
        /\ writes \in [Conns -> Seq(Frames)] /\ conn \in [Conns -> ConnStates]
    BY DEF IInv, TypeOK, Link, Frames
  <2>3. /\ send_queue' \in Seq(Msgs) /\ send_queue' # <<>>
        /\ Len(send_queue') = 1 <=> send_queue = <<>>
        /\ send_queue = <<>> => Head(send_queue') = m
        /\ send_queue # <<>> => Head(send_queue') = Head(send_queue)
    BY <2>1, <2>2, AppendFacts
  <2>4. InOrderExactlyOnce'
    <3>1. accepted = delivered \o send_queue /\ completed = delivered
      BY DEF IInv, InOrderExactlyOnce
    <3>2. Append(delivered \o send_queue, m) = delivered \o Append(send_queue, m)
      BY <2>2, AppendConcat
    <3> QED
      BY <2>1, <3>1, <3>2 DEF InOrderExactlyOnce
  <2>5. CASE state = "connected"
    <3>1. UNCHANGED <<state, conn>>
      BY <1>1, <2>5 DEF SendMessage
    <3>2. Link' /\ Reading'
      BY <2>1, <3>1 DEF IInv, Link, Reading
    <3>3. CASE send_queue = <<>>
      <4>1. schedule_send(writes, send_queue', conn)
        BY <1>1, <2>3, <2>5, <3>3 DEF SendMessage
      <4>2. SendNext(writes, send_queue', conn)
        BY <2>3, <4>1 DEF SendNext
      <4>3. NoWrites /\ ~armed /\ queued = 0
        BY <3>3 DEF IInv, Sending, Resting, Writing, Waiting, Expired, Sendable
      <4>4. websocket \in Conns /\ IsOpen(websocket, conn)
        BY <2>5, NodeAssumption DEF IInv, Link, IsOpen, Conns
      <4>5. \/ writes' = writes /\ armed'
            \/ /\ ~armed'
               /\ writes' = [k \in Conns |-> IF k = websocket
                    THEN <<[msg |-> Head(send_queue'), live |-> TRUE]>> ELSE <<>>]
        BY <2>2, <2>3, <4>2, <4>3, <4>4, SendNextEffect DEF NoWrites
      <4>6. Writing' \/ Waiting'
        BY <2>1, <2>3, <2>5, <3>1, <4>3, <4>5
           DEF Writing, Waiting, Sendable, NoWrites, OneWrite
      <4> QED
        BY <2>4, <3>2, <4>6 DEF Sending
    <3>4. CASE send_queue # <<>>
      <4>1. UNCHANGED <<writes, armed>>
        BY <1>1, <2>3, <2>5, <3>4 DEF SendMessage
      <4>2. Sending'
        BY <2>1, <2>3, <2>5, <3>1, <3>4, <4>1 DEF IInv, Sending, Resting, Writing,
           Waiting, Expired, Sendable, NoWrites, OneWrite
      <4> QED
        BY <2>4, <3>2, <4>2
    <3> QED
      BY <3>3, <3>4
  <2>6. CASE state # "connected"
    <3>1. UNCHANGED <<writes, armed>> /\ state' = "connecting"
      BY <1>1, <2>2, <2>6 DEF SendMessage, Connect
    <3>2. \/ conn' = conn
          \/ /\ state = "disconnected"
             /\ \E k \in Conns : conn[k] = "none" /\ conn' = [conn EXCEPT ![k] = "tcp"]
      BY <1>1, <2>2, <2>6 DEF SendMessage, Connect
    <3>3. Link'
      <4>1. CASE conn' = conn
        BY <2>1, <2>6, <3>1, <4>1 DEF IInv, Link
      <4>2. ASSUME state = "disconnected", NEW k \in Conns, conn[k] = "none",
                   conn' = [conn EXCEPT ![k] = "tcp"]
            PROVE  Link'
        <5>1. \A j \in Conns : conn[j] \in {"none", "closed"}
          BY <4>2 DEF IInv, Link
        <5>2. \A j \in Conns : conn'[j] = IF j = k THEN "tcp" ELSE conn[j]
          BY <2>2, <4>2
        <5> QED
          BY <2>1, <3>1, <5>1, <5>2 DEF IInv, Link
      <4> QED
        BY <3>2, <4>1, <4>2
    <3>4. Reading'
      BY <2>1, <2>6 DEF IInv, Reading
    <3>5. Resting'
      BY <2>1, <2>6, <3>1 DEF IInv, Sending, Resting, Writing, Waiting, Expired,
         Sendable, NoWrites
    <3> QED
      BY <2>4, <3>3, <3>4, <3>5 DEF Sending
  <2> QED
    BY <2>5, <2>6
<1>2. ASSUME NEW value \in BOOLEAN, BackOff(value)
      PROVE  (Link /\ Reading /\ Sending /\ InOrderExactlyOnce)'
  BY <1>2 DEF BackOff, IInv, Link, Reading, Sending, Resting, Writing, Waiting,
     Expired, Sendable, NoWrites, OneWrite, InOrderExactlyOnce
<1> QED
  BY <1>1, <1>2

\* The handlers of connect and handshake.
LEMMA ConnectionStep ==
    ASSUME IInv, NEW k \in Conns, ConnectDone(k) \/ HandshakeEnds(k)
    PROVE  (Link /\ Reading /\ Sending /\ InOrderExactlyOnce)'
<1>1. conn \in [Conns -> ConnStates] /\ websocket \in 0 .. MaxConnects
      /\ reads \in [Conns -> Nat]
  BY DEF IInv, TypeOK
<1>2. conn[k] \in {"tcp", "handshake"}
  BY DEF IInv, Link, ConnectDone, TcpConnected, TcpFailed, HandshakeEnds,
     HandshakeDone, HandshakeFailed, HandshakeDropped
<1>3. /\ state = "connecting"
      /\ \A j \in Conns \ {k} : conn[j] \in {"none", "closed"}
      /\ \A j \in Conns : reads[j] = 0
      /\ Resting
  BY <1>1, <1>2 DEF IInv, Link, Reading, Sending, Resting, Writing, Waiting,
     Expired, Sendable
<1>4. InOrderExactlyOnce' /\ UNCHANGED <<send_queue, queued, destroyed, failure>>
  BY DEF IInv, InOrderExactlyOnce, ConnectDone, TcpConnected, TcpFailed,
     HandshakeEnds, HandshakeDone, HandshakeFailed, HandshakeDropped
<1>5. ASSUME state' \in {"connecting", "disconnected"}, UNCHANGED <<writes, armed, reads>>
      PROVE  Reading' /\ Sending'
  BY <1>3, <1>4, <1>5 DEF Reading, Sending, Resting, Sendable, NoWrites
<1>6. CASE TcpConnected(k)
  <2>1. \A j \in Conns : conn'[j] = IF j = k THEN "handshake" ELSE DropWebsocket[j]
    BY <1>6 DEF TcpConnected, DropWebsocket
  <2>2. \A j \in Conns \ {k} : DropWebsocket[j] \in {"none", "closed"}
    BY <1>3 DEF DropWebsocket
  <2>3. websocket' = k /\ state' = "connecting" /\ UNCHANGED <<writes, armed, reads>>
    BY <1>3, <1>6 DEF TcpConnected
  <2>4. Link'
    BY <1>4, <2>1, <2>2, <2>3 DEF IInv, Link
  <2> QED
    BY <1>4, <1>5, <2>3, <2>4
<1>7. CASE TcpFailed(k) \/ HandshakeFailed(k)
  <2>1. \A j \in Conns : conn'[j] \in {"none", "closed"}
    BY <1>1, <1>3, <1>7 DEF TcpFailed, HandshakeFailed
  <2>2. /\ state' = "disconnected"
        /\ UNCHANGED <<websocket, writes, armed, reads>>
    BY <1>7 DEF TcpFailed, HandshakeFailed
  <2>3. Link'
    BY <1>4, <2>1, <2>2 DEF IInv, Link
  <2> QED
    BY <1>4, <1>5, <2>2, <2>3
<1>9. CASE HandshakeDropped(k)
  <2>1. \A j \in Conns : conn'[j] = IF j = k THEN "dropped" ELSE conn[j]
    BY <1>1, <1>9 DEF HandshakeDropped
  <2>2. state' = "connecting" /\ UNCHANGED <<websocket, writes, armed, reads>>
    BY <1>3, <1>9 DEF HandshakeDropped
  <2>3. Link'
    BY <1>3, <1>4, <2>1, <2>2 DEF IInv, Link
  <2> QED
    BY <1>4, <1>5, <2>2, <2>3
<1>8. CASE HandshakeDone(k)
  <2>1. conn[k] = "handshake" /\ websocket = k
    BY <1>8 DEF IInv, Link, HandshakeDone
  <2>2. \A j \in Conns : conn'[j] = IF j = k THEN "open" ELSE conn[j]
    BY <1>1, <1>8, <2>1 DEF HandshakeDone
  <2>3. state' = "connected" /\ websocket' = websocket
        /\ SendNext(writes, send_queue, conn')
        /\ reads' = [reads EXCEPT ![k] = @ + 1]
    BY <1>8, <2>1 DEF HandshakeDone
  <2>4. Link'
    BY <1>3, <1>4, <2>1, <2>2, <2>3 DEF IInv, Link
  <2>5. Reading'
    BY <1>1, <1>3, <2>1, <2>3 DEF Reading
  <2>6. IsOpen(websocket, conn')
    BY <2>1, <2>2, NodeAssumption DEF IsOpen, Conns
  <2>7. writes = [j \in Conns |-> <<>>] /\ ~armed /\ queued = 0
        /\ armed \in BOOLEAN /\ send_queue \in Seq(Msgs)
    BY <1>3 DEF Resting, NoWrites, IInv, TypeOK
  <2>8. \/ send_queue = <<>> /\ writes' = writes /\ ~armed'
        \/ send_queue # <<>> /\ writes' = writes /\ armed'
        \/ /\ send_queue # <<>> /\ ~armed'
           /\ writes' = [j \in Conns |-> IF j = websocket
                THEN <<[msg |-> Head(send_queue), live |-> TRUE]>> ELSE <<>>]
    BY <2>1, <2>3, <2>6, <2>7, SendNextEffect
  <2>9. Sending'
    BY <1>4, <2>3, <2>7, <2>8 DEF Sending, Resting, Writing, Waiting, Sendable,
       NoWrites, OneWrite
  <2> QED
    BY <1>4, <2>4, <2>5, <2>9
<1> QED
  BY <1>6, <1>7, <1>8, <1>9 DEF ConnectDone, HandshakeEnds

\* The write handler moves the front of the queue to what was delivered.
LEMMA WriteStep ==
    ASSUME IInv, NEW k \in Conns, WriteOk(k)
    PROVE  (Link /\ Reading /\ Sending /\ InOrderExactlyOnce)'
<1>1. Writing /\ websocket = k /\ conn[k] = "open"
      /\ writes[k] = <<[msg |-> Head(send_queue), live |-> TRUE]>>
  BY DEF WriteOk, IInv, Link, Sending, Resting, Writing, Waiting, Expired, NoWrites,
     OneWrite, Sendable
<1>2. /\ state = "connected" /\ send_queue # <<>> /\ ~armed /\ queued = 0
      /\ send_queue \in Seq(Msgs) /\ delivered \in Seq(Msgs) /\ armed \in BOOLEAN
  BY <1>1 DEF Writing, Sendable, IInv, TypeOK
<1>3. Written(k).msg = Head(send_queue)
  BY <1>1 DEF Written
<1>4. /\ delivered' = Append(delivered, Head(send_queue))
      /\ completed' = Append(completed, Head(send_queue))
      /\ send_queue' = Tail(send_queue)
      /\ SendNext([writes EXCEPT ![k] = Tail(@)], send_queue', conn)
      /\ UNCHANGED <<state, websocket, conn, reads, queued, accepted, destroyed,
                     failure>>
  BY <1>1, <1>2, <1>3 DEF WriteOk, Arrives, Popped
<1>5. Link' /\ Reading'
  BY <1>4 DEF IInv, Link, Reading
<1>6. InOrderExactlyOnce'
  <2>1. accepted = delivered \o send_queue /\ completed = delivered
    BY DEF IInv, InOrderExactlyOnce
  <2>2. Append(delivered, Head(send_queue)) \o Tail(send_queue)
            = delivered \o send_queue
    BY <1>2, MoveFront
  <2> QED
    BY <1>4, <2>1, <2>2 DEF InOrderExactlyOnce
<1>7. [writes EXCEPT ![k] = Tail(@)] = [j \in Conns |-> <<>>]
  <2>1. Tail(writes[k]) = <<>>
    BY <1>1
  <2>2. writes = [j \in Conns |-> IF j = k THEN writes[k] ELSE <<>>]
    BY <1>1 DEF Writing, OneWrite
  <2>3. [writes EXCEPT ![k] = Tail(writes[k])]
            = [j \in Conns |-> IF j = k THEN Tail(writes[k]) ELSE writes[j]]
    BY <2>2
  <2> QED
    BY <2>1, <2>2, <2>3
<1>8. send_queue' \in Seq(Msgs) /\ IsOpen(websocket, conn)
  BY <1>1, <1>2, <1>4, NodeAssumption DEF IsOpen, Conns
<1>9. \/ send_queue' = <<>> /\ writes' = [j \in Conns |-> <<>>] /\ ~armed'
      \/ send_queue' # <<>> /\ writes' = [j \in Conns |-> <<>>] /\ armed'
      \/ /\ send_queue' # <<>> /\ ~armed'
         /\ writes' = [j \in Conns |-> IF j = websocket
                THEN <<[msg |-> Head(send_queue'), live |-> TRUE]>> ELSE <<>>]
  BY <1>1, <1>2, <1>4, <1>7, <1>8, SendNextEffect
<1>10. Sending'
  BY <1>2, <1>4, <1>9 DEF Sending, Resting, Writing, Waiting, Sendable,
     NoWrites, OneWrite
<1> QED
  BY <1>5, <1>6, <1>10

\* A read, and a read after which the handler throws, are of the open connection.
LEMMA ReadStep ==
    ASSUME IInv, NEW k \in Conns, ReadMore(k) \/ ReadThrow(k)
    PROVE  (Link /\ Reading /\ Sending /\ InOrderExactlyOnce)'
<1>1. reads \in [Conns -> Nat] /\ reads[k] > 0 /\ conn \in [Conns -> ConnStates]
  BY DEF IInv, TypeOK, ReadMore, ReadThrow
<1>2. state = "connected" /\ websocket = k
  BY <1>1 DEF IInv, Reading
<1>3. ReadEnds(k, conn) = conn
  BY <1>1, <1>2 DEF ReadEnds
<1>4. /\ UNCHANGED <<state, websocket, conn, send_queue, writes, armed, queued,
                     accepted, delivered, completed, destroyed, failure>>
      /\ \A j \in Conns \ {k} : reads'[j] = reads[j]
  BY <1>1, <1>2, <1>3 DEF ReadMore, ReadThrow
<1> QED
  BY <1>2, <1>4 DEF IInv, Link, Reading, Sending, Resting, Writing, Waiting,
     Expired, Sendable, NoWrites, OneWrite, InOrderExactlyOnce

\* The wait expires, and its handler finds the message it was set for.
LEMMA BackoffStep ==
    ASSUME IInv, BackoffExpires \/ BackoffDone
    PROVE  (Link /\ Reading /\ Sending /\ InOrderExactlyOnce)'
<1>1. CASE BackoffExpires
  <2>1. Waiting
    BY <1>1 DEF BackoffExpires, IInv, Sending, Resting, Writing, Expired
  <2>2. queued' = 1 /\ armed' = FALSE
    BY <1>1, <2>1 DEF BackoffExpires, Waiting
  <2>3. UNCHANGED <<state, websocket, conn, send_queue, writes, reads, accepted,
                    delivered, completed, failure, destroyed>>
    BY <1>1 DEF BackoffExpires
  <2>4. Expired'
    BY <2>1, <2>2, <2>3 DEF Waiting, Expired, Sendable, NoWrites
  <2> QED
    BY <2>3, <2>4 DEF IInv, Link, Reading, Sending, InOrderExactlyOnce
<1>2. CASE BackoffDone
  <2>1. Expired
    BY <1>2 DEF BackoffDone, IInv, Sending, Resting, Writing, Waiting
  <2>2. /\ send_queue # <<>> /\ ~destroyed /\ state = "connected"
        /\ websocket \in Conns /\ conn[websocket] = "open"
        /\ writes = [k \in Conns |-> <<>>] /\ ~armed /\ queued = 1
    BY <2>1 DEF Expired, Sendable, NoWrites, IInv, Link
  <2>3. /\ do_send(writes, send_queue, conn) /\ queued' = queued - 1
        /\ UNCHANGED <<state, websocket, conn, send_queue, reads, armed, accepted,
                       delivered, completed, destroyed, failure>>
    BY <1>2, <2>2 DEF BackoffDone
  <2> DEFINE f == [msg |-> Head(send_queue), live |-> TRUE]
  <2>4. IsOpen(websocket, conn) = TRUE
    BY <2>2, NodeAssumption DEF IsOpen, Conns
  <2>5. writes' = [writes EXCEPT ![websocket] = Append(writes[websocket], f)]
    BY <2>3, <2>4 DEF do_send
  <2> HIDE DEF f
  <2>6. Append(writes[websocket], f) = <<f>>
    <3>1. writes[websocket] = <<>>
      BY <2>2
    <3>2. Append(<<>>, f) = <<f>>
      OBVIOUS
    <3> QED
      BY <3>1, <3>2, Zenon
  <2>7. writes' = [k \in Conns |-> IF k = websocket THEN <<f>> ELSE <<>>]
    BY <2>2, <2>5, <2>6
  <2>8. Writing'
    BY <2>2, <2>3, <2>7 DEF Writing, Sendable, OneWrite, f
  <2> QED
    BY <2>3, <2>8 DEF IInv, Link, Reading, Sending, InOrderExactlyOnce
<1> QED
  BY <1>1, <1>2

-----------------------------------------------------------------------------
(* What a node guarantees while no connection is lost *)

\* A new node satisfies the invariant.
LEMMA InitIInv == Init /\ TypeOK => IInv
<1> SUFFICES ASSUME Init, TypeOK PROVE IInv
  OBVIOUS
<1>1. Link /\ Reading
  BY DEF Init, Link, Reading
<1>2. Resting
  BY DEF Init, Resting, Sendable, NoWrites
<1>3. InOrderExactlyOnce
  BY DEF Init, InOrderExactlyOnce
<1> QED
  BY <1>1, <1>2, <1>3 DEF IInv, Sending

\* Every step but the end of the node preserves the invariant.
LEMMA KeptUnlessDropped ==
    ASSUME NoBreak, IInv, [Next]_vars, ~Destroy
    PROVE  IInv'
<1>1. TypeOK'
  BY TypeStep DEF IInv
<1>2. CASE UNCHANGED vars
  BY <1>1, <1>2 DEF vars, IInv, Link, Reading, Sending, Resting, Writing, Waiting,
     Expired, Sendable, NoWrites, OneWrite, InOrderExactlyOnce
<1>3. CASE Next
  <2>1. ASSUME NEW k \in Conns,
               \/ ConnectDone(k) \/ HandshakeEnds(k) \/ WriteDone(k)
               \/ ReadError(k) \/ CloseDone(k) \/ Receive(k) \/ LateHandler(k)
        PROVE  (Link /\ Reading /\ Sending /\ InOrderExactlyOnce)'
    BY <2>1, LossStepsDisabled, ConnectionStep, WriteStep, ReadStep
       DEF WriteDone, Receive
  <2>2. (Link /\ Reading /\ Sending /\ InOrderExactlyOnce)'
    BY <1>3, <2>1, OwnerStep, BackoffStep DEF Next
  <2> QED
    BY <1>1, <2>2 DEF IInv
<1> QED
  BY <1>2, <1>3

\* The conjuncts hold together in every reachable state.
LEMMA Invariance == ASSUME NoLoss PROVE Spec => []IInv
<1>1. IInv /\ [Next]_vars => IInv'
  <2>1. NoBreak /\ ~Destroy
    BY DEF NoLoss, NoBreak, Destroy
  <2> QED
    BY <2>1, KeptUnlessDropped
<1> QED
  BY <1>1, TypeCorrect, InitIInv, PTL DEF Spec

\* While no connection is lost, a connected node with messages to send has
\* exactly one write or wait under way and no other node has any: no wakeup is
\* lost and no two writes overlap, for any number of messages and attempts.
THEOREM OneSender == ASSUME NoLoss PROVE Spec => []ExactlyOneSender
<1>1. IInv => ExactlyOneSender
  <2> SUFFICES ASSUME IInv PROVE ExactlyOneSender
    OBVIOUS
  <2> DEFINE outstanding == {k \in Conns : writes[k] # <<>>}
  <2>1. CASE Resting \/ Waiting \/ Expired
    <3>1. outstanding = {} /\ \A k \in Conns : Len(writes[k]) <= 1
      BY <2>1 DEF Resting, Waiting, Expired, NoWrites
    <3>2. Cardinality(outstanding) = 0
      BY <3>1, FS_EmptySet
    <3> QED
      BY <2>1, <3>1, <3>2 DEF Resting, Waiting, Expired, Sendable, ExactlyOneSender
  <2>2. CASE Writing
    <3>1. websocket \in Conns
      BY <2>2 DEF IInv, Link, Writing, Sendable
    <3>2. outstanding = {websocket} /\ \A k \in Conns : Len(writes[k]) <= 1
      BY <2>2, <3>1 DEF Writing, OneWrite
    <3>3. Cardinality(outstanding) = 1
      BY <3>2, FS_Singleton
    <3> QED
      BY <2>2, <3>2, <3>3 DEF Writing, Sendable, ExactlyOneSender
  <2> QED
    BY <2>1, <2>2 DEF IInv, Sending
<1> QED
  BY <1>1, Invariance, PTL

\* While no connection is lost, the peer receives the messages in the order of the
\* calls of send_message, each once, and its callback is called.
THEOREM InOrder == ASSUME NoLoss PROVE Spec => []InOrderExactlyOnce
<1>1. IInv => InOrderExactlyOnce
  BY DEF IInv
<1> QED
  BY <1>1, Invariance, PTL

\* The handlers find what they assume: the assertion of schedule_send holds, the
\* write handler pops a message, and no wait handler uses a node that is gone.
HandlersSafe == failure = "none"

\* No assertion of schedule_send fails and no empty queue is popped, for any
\* number of messages on a node that loses no connection.
THEOREM LosslessSafe == ASSUME NoLoss PROVE Spec => []HandlersSafe
<1>1. IInv => HandlersSafe
  BY DEF IInv, Link, HandlersSafe
<1> QED
  BY <1>1, Invariance, PTL

-----------------------------------------------------------------------------
(* Any number of messages, and a node that may be dropped *)

\* No connection is lost, and the owner does not drop the node while an expired
\* wait is queued.
Droppable == NoBreak /\ LateExpiry = FALSE

\* d is what was sent first, in the order of the calls of send_message.
Begins(d) ==
    Len(d) <= Len(accepted) /\ \A i \in 1 .. Len(d) : d[i] = accepted[i]

\* The peer receives the messages in the order of the calls of send_message and
\* the callbacks are called in that order, none left out: dropping the node cuts
\* both short, and the write under way then may still come to either end.
InOrderCutShort == Begins(delivered) /\ Begins(completed)

\* No message is delivered twice, and no callback is called twice.
DeliveredOnce == IsInjective(delivered) /\ IsInjective(completed)

\* What is left of a node that was dropped: at most the one write that was under
\* way, of the message that comes next.
LeftBehind ==
    \/ NoWrites /\ InOrderCutShort
    \/ /\ completed = delivered
       /\ \E k \in Conns, f \in Frames :
            /\ writes = [j \in Conns |-> IF j = k THEN <<f>> ELSE <<>>]
            /\ Begins(Append(delivered, f.msg))

Dropped ==
    destroyed /\ failure = "none" /\ ~armed /\ queued = 0 /\ LeftBehind

DInv == TypeOK /\ IsInjective(accepted) /\ (IInv \/ Dropped)

\* A sequence that begins as the accepted messages do has none of them twice.
LEMMA BeginsInjective ==
    ASSUME accepted \in Seq(Msgs), IsInjective(accepted),
           NEW d \in Seq(Msgs), Begins(d)
    PROVE  IsInjective(d)
  BY DEF Begins, IsInjective

\* What was delivered begins what was accepted, and so it does with the front of
\* the queue added to it.
LEMMA FrontBegins ==
    ASSUME NEW d \in Seq(Msgs), NEW q \in Seq(Msgs), accepted = d \o q
    PROVE  Begins(d) /\ (q # <<>> => Begins(Append(d, Head(q))))
<1>1. Len(accepted) = Len(d) + Len(q) /\ Len(d) \in Nat /\ Len(q) \in Nat
  OBVIOUS
<1>2. \A i \in 1 .. Len(d) : accepted[i] = d[i]
  OBVIOUS
<1>3. Begins(d)
  BY <1>1, <1>2 DEF Begins
<1>4. ASSUME q # <<>> PROVE Begins(Append(d, Head(q)))
  <2>1. Len(q) >= 1 /\ Head(q) = q[1] /\ Head(q) \in Msgs
    BY <1>4
  <2>2. accepted[Len(d) + 1] = Head(q)
    BY <1>1, <2>1
  <2>3. /\ Len(Append(d, Head(q))) = Len(d) + 1
        /\ \A i \in 1 .. Len(d) : Append(d, Head(q))[i] = d[i]
        /\ Append(d, Head(q))[Len(d) + 1] = Head(q)
    BY <2>1
  <2> QED
    BY <1>1, <1>2, <2>1, <2>2, <2>3 DEF Begins
<1> QED
  BY <1>3, <1>4

\* So does what is left of it when its end is cut off.
LEMMA BeginsShorter ==
    ASSUME accepted \in Seq(Msgs), NEW d \in Seq(Msgs), NEW m \in Msgs,
           Begins(Append(d, m))
    PROVE  Begins(d)
<1>1. /\ Len(Append(d, m)) = Len(d) + 1 /\ Len(d) \in Nat
      /\ \A i \in 1 .. Len(d) : Append(d, m)[i] = d[i]
  OBVIOUS
<1>2. Len(d) + 1 <= Len(accepted)
      /\ \A i \in 1 .. Len(d) + 1 : Append(d, m)[i] = accepted[i]
  BY <1>1, Zenon DEF Begins
<1>3. Len(d) <= Len(accepted)
  BY <1>1, <1>2
<1> QED
  BY <1>1, <1>2, <1>3 DEF Begins

\* send_message is the only step that accepts a message, and accepts it once.
LEMMA AcceptedOnce ==
    ASSUME TypeOK, IsInjective(accepted), [Next]_vars
    PROVE  IsInjective(accepted')
<1>1. CASE UNCHANGED accepted
  BY <1>1
<1>2. ASSUME NEW m \in Msgs, SendMessage(m) PROVE IsInjective(accepted')
  <2>1. /\ accepted \in Seq(Msgs) /\ accepted' = Append(accepted, m)
        /\ \A i \in 1 .. Len(accepted) : accepted[i] # m
    BY <1>2 DEF SendMessage, TypeOK, Range
  <2>2. /\ Len(accepted') = Len(accepted) + 1 /\ Len(accepted) \in Nat
        /\ DOMAIN accepted' = 1 .. Len(accepted) + 1
        /\ \A i \in 1 .. Len(accepted) : accepted'[i] = accepted[i]
        /\ accepted'[Len(accepted) + 1] = m
    BY <2>1
  <2>3. \A i, j \in 1 .. Len(accepted) : accepted[i] = accepted[j] => i = j
    BY <2>1 DEF IsInjective
  <2> QED
    BY <2>1, <2>2, <2>3 DEF IsInjective
<1>3. CASE ~(\E m \in Msgs : SendMessage(m))
  <2>1. UNCHANGED accepted
    BY <1>3 DEF Next, vars, BackOff, ConnectDone, TcpConnected, TcpFailed,
       HandshakeEnds, HandshakeDone, HandshakeFailed, HandshakeDropped, WriteDone, WriteOk, WriteError,
       WriteClosed, Popped, ReadError, CloseDone, Receive, ReadMore, ReadClose,
       ReadThrow, Break, LateHandler, LateConnection, LateRead, LateWrite,
       BackoffExpires, BackoffDone, Destroy
  <2> QED
    BY <1>1, <2>1
<1> QED
  BY <1>2, <1>3

\* Dropping the node leaves the write under way behind, if there is one.
LEMMA DestroyLeaves ==
    ASSUME Droppable, IInv, Destroy
    PROVE  Dropped'
<1>1. /\ queued = 0 /\ destroyed' /\ ~armed'
      /\ UNCHANGED <<writes, queued, accepted, delivered, completed, failure>>
  BY DEF Destroy, Droppable
<1>2. /\ delivered \in Seq(Msgs) /\ send_queue \in Seq(Msgs)
      /\ accepted = delivered \o send_queue /\ completed = delivered
      /\ failure = "none"
  BY DEF IInv, TypeOK, InOrderExactlyOnce, Link
<1>3. Begins(delivered) /\ (send_queue # <<>> => Begins(Append(delivered, Head(send_queue))))
  BY <1>2, FrontBegins
<1>4. CASE NoWrites
  BY <1>1, <1>2, <1>3, <1>4 DEF Dropped, LeftBehind, NoWrites, InOrderCutShort, Begins
<1>5. CASE Writing
  <2> DEFINE f == [msg |-> Head(send_queue), live |-> TRUE]
  <2>1. send_queue # <<>> /\ websocket \in Conns
    BY <1>5 DEF Writing, Sendable, IInv, Link
  <2>2. f \in Frames /\ f.msg = Head(send_queue)
    BY <1>2, <2>1 DEF Frames
  <2>3. writes = [j \in Conns |-> IF j = websocket THEN <<f>> ELSE <<>>]
    BY <1>5 DEF Writing, OneWrite
  <2> HIDE DEF f
  <2>4. LeftBehind
    BY <1>2, <1>3, <2>1, <2>2, <2>3 DEF LeftBehind
  <2>5. LeftBehind'
    BY <1>1, <2>4 DEF LeftBehind, NoWrites, InOrderCutShort, Begins
  <2> QED
    BY <1>1, <1>2, <2>5 DEF Dropped
<1> QED
  BY <1>1, <1>4, <1>5 DEF IInv, Sending, Resting, Waiting, Expired

\* The handler of the write left behind calls its callback, and no more is left.
LEMMA LateWriteLeaves ==
    ASSUME TypeOK, Dropped, NEW k \in Conns, LateWrite(k)
    PROVE  Dropped'
<1>1. /\ writes[k] # <<>> /\ writes' = [writes EXCEPT ![k] = Tail(@)]
      /\ completed' = Append(completed, Written(k).msg)
      /\ delivered' \in {delivered, Append(delivered, Written(k).msg)}
      /\ UNCHANGED <<accepted, destroyed, failure, armed, queued>>
  BY DEF LateWrite
<1>2. ~NoWrites
  BY <1>1 DEF NoWrites
<1>3. PICK i \in Conns : \E f \in Frames :
        /\ writes = [j \in Conns |-> IF j = i THEN <<f>> ELSE <<>>]
        /\ Begins(Append(delivered, f.msg))
  BY <1>2 DEF Dropped, LeftBehind
<1>4. PICK f \in Frames :
        /\ writes = [j \in Conns |-> IF j = i THEN <<f>> ELSE <<>>]
        /\ Begins(Append(delivered, f.msg))
  BY <1>3
<1>5. k = i /\ writes[k] = <<f>>
  BY <1>1, <1>4
<1>6. Written(k) = f /\ Tail(<<f>>) = <<>> /\ f.msg \in Msgs
  BY <1>5 DEF Written, Frames
<1>7. writes' = [j \in Conns |-> <<>>]
  BY <1>1, <1>4, <1>5, <1>6
<1>8. /\ completed = delivered
      /\ delivered \in Seq(Msgs) /\ accepted \in Seq(Msgs)
  BY <1>2 DEF Dropped, LeftBehind, TypeOK
<1>9. Begins(delivered)
  BY <1>4, <1>6, <1>8, BeginsShorter
<1>10. Begins(completed') /\ Begins(delivered')
  BY <1>1, <1>4, <1>6, <1>8, <1>9
<1>11. InOrderCutShort'
  BY <1>1, <1>10 DEF InOrderCutShort, Begins
<1> QED
  BY <1>1, <1>7, <1>11 DEF Dropped, LeftBehind, NoWrites

\* Nothing else happens to a node that was dropped but that the connections end.
LEMMA DroppedStep ==
    ASSUME TypeOK, Dropped, [Next]_vars
    PROVE  Dropped'
<1>1. \/ \E k \in Conns : LateWrite(k)
      \/ UNCHANGED <<writes, accepted, delivered, completed, destroyed, failure,
                     armed, queued>>
  <2>1. destroyed /\ ~armed /\ ~(queued > 0)
    BY DEF Dropped
  <2> QED
    BY <2>1 DEF Next, vars, Running, SendMessage, BackOff, ConnectDone, TcpConnected,
       TcpFailed, HandshakeEnds, HandshakeDone, HandshakeFailed, HandshakeDropped, WriteDone, WriteOk,
       WriteError, WriteClosed, ReadError, CloseDone, Receive, ReadMore,
       ReadClose, ReadThrow, Break, LateHandler, LateConnection, LateRead,
       BackoffExpires, BackoffDone, Destroy
<1>2. CASE UNCHANGED <<writes, accepted, delivered, completed, destroyed, failure,
                       armed, queued>>
  BY <1>2 DEF Dropped, LeftBehind, NoWrites, InOrderCutShort, Begins
<1> QED
  BY <1>1, <1>2, LateWriteLeaves

\* The invariant of the node with the one of what is left of it.
LEMMA DroppableInvariance == ASSUME Droppable PROVE Spec => []DInv
<1>1. Init /\ TypeOK => DInv
  <2>1. Init => IsInjective(accepted)
    BY DEF Init, IsInjective
  <2> QED
    BY <2>1, InitIInv DEF DInv
<1>2. DInv /\ [Next]_vars => DInv'
  <2> SUFFICES ASSUME DInv, [Next]_vars PROVE DInv'
    OBVIOUS
  <2>1. TypeOK' /\ IsInjective(accepted')
    BY TypeStep, AcceptedOnce DEF DInv
  <2>2. CASE IInv /\ ~Destroy
    BY <2>1, <2>2, KeptUnlessDropped DEF DInv, Droppable
  <2>3. CASE IInv /\ Destroy
    BY <2>1, <2>3, DestroyLeaves DEF DInv
  <2>4. CASE Dropped
    BY <2>1, <2>4, DroppedStep DEF DInv
  <2> QED
    BY <2>2, <2>3, <2>4 DEF DInv
<1> QED
  BY <1>1, <1>2, TypeCorrect, PTL DEF Spec

\* In either case what was delivered and called back begins what was accepted.
LEMMA DroppableInOrder ==
    ASSUME DInv
    PROVE  InOrderCutShort /\ DeliveredOnce
<1>1. /\ delivered \in Seq(Msgs) /\ completed \in Seq(Msgs)
      /\ accepted \in Seq(Msgs) /\ send_queue \in Seq(Msgs)
  BY DEF DInv, TypeOK
<1>2. InOrderCutShort
  <2>1. CASE IInv
    BY <1>1, <2>1, FrontBegins DEF IInv, InOrderExactlyOnce, InOrderCutShort
  <2>2. CASE NoWrites /\ InOrderCutShort
    BY <2>2
  <2>3. ASSUME completed = delivered, NEW f \in Frames,
               Begins(Append(delivered, f.msg))
        PROVE  InOrderCutShort
    <3>1. f.msg \in Msgs
      BY DEF Frames
    <3> QED
      BY <1>1, <2>3, <3>1, BeginsShorter DEF InOrderCutShort
  <2> QED
    BY <2>1, <2>2, <2>3 DEF DInv, Dropped, LeftBehind
<1>3. DeliveredOnce
  BY <1>1, <1>2, BeginsInjective DEF InOrderCutShort, DeliveredOnce, DInv
<1> QED
  BY <1>2, <1>3

\* Whenever the node is dropped, what its peer has received and what was called
\* back are the first of the messages sent, in their order, for any number of
\* messages and attempts to connect.
THEOREM DroppedInOrder == ASSUME Droppable PROVE Spec => []InOrderCutShort
  BY DroppableInvariance, DroppableInOrder, PTL

\* In the same runs no message is delivered twice and no callback called twice.
THEOREM DroppedDelivered == ASSUME Droppable PROVE Spec => []DeliveredOnce
  BY DroppableInvariance, DroppableInOrder, PTL

-----------------------------------------------------------------------------
(* A message on its way: what CallbackCalled rests on *)

\* A node that says it is connecting has an attempt to connect under way, or the
\* secure stream has dropped it.
AttemptUnderWay ==
    state = "connecting" =>
        \E k \in Conns : conn[k] \in {"tcp", "handshake", "dropped"}

\* A message that was accepted and not called back is on its way, unless the node
\* is disconnected or its handshake was dropped: an operation is under way whose
\* handler goes on to send it.
OnItsWay ==
    /\ Len(completed) < Len(accepted)
    /\ state # "disconnected"
    /\ \A k \in Conns : conn[k] # "dropped"
    =>
        \/ \E k \in Conns : conn[k] \in {"tcp", "handshake"} \/ writes[k] # <<>>
        \/ armed \/ queued > 0

\* connect() starts the attempt with the state, and the handlers that end it
\* change the state.
LEMMA AttemptStep ==
    ASSUME NoBreak, ~Destroy, IInv, AttemptUnderWay, [Next]_vars
    PROVE  AttemptUnderWay'
<1> USE DEF AttemptUnderWay
<1>1. conn \in [Conns -> ConnStates]
  BY DEF IInv, TypeOK
<1>2. ASSUME NEW m \in Msgs, SendMessage(m) PROVE AttemptUnderWay'
  <2>1. CASE state \in {"connected", "connecting"}
    BY <1>2, <2>1 DEF SendMessage
  <2>2. CASE Connect(conn)
    BY <1>1, <2>2 DEF Connect
  <2> QED
    BY <1>2, <2>1, <2>2 DEF SendMessage
<1>3. ASSUME NEW k \in Conns, TcpConnected(k) PROVE AttemptUnderWay'
  <2>1. conn'[k] = "handshake"
    BY <1>3 DEF TcpConnected, DropWebsocket
  <2> QED
    BY <2>1
<1>4. ASSUME NEW k \in Conns, TcpFailed(k) \/ HandshakeEnds(k)
      PROVE  AttemptUnderWay'
  BY <1>1, <1>4 DEF TcpFailed, HandshakeEnds, HandshakeDone, HandshakeFailed, HandshakeDropped
<1>5. ASSUME NEW k \in Conns, WriteOk(k) PROVE AttemptUnderWay'
  BY <1>5 DEF WriteOk, Popped
<1>6. ASSUME NEW k \in Conns, ReadMore(k) \/ ReadThrow(k) PROVE AttemptUnderWay'
  <2>1. state = "connected" /\ state' = state
    BY <1>6 DEF ReadMore, ReadThrow, IInv, TypeOK, Reading
  <2> QED
    BY <2>1
<1>7. CASE (\E value \in BOOLEAN : BackOff(value)) \/ BackoffExpires \/ BackoffDone
           \/ UNCHANGED vars
  BY <1>7 DEF BackOff, BackoffExpires, BackoffDone, vars
<1> QED
  BY <1>2, <1>3, <1>4, <1>5, <1>6, <1>7, LossStepsDisabled
     DEF Next, ConnectDone, WriteDone, Receive

\* While no connection is lost, no accepted message is stranded: as long as its
\* callback was not called an attempt to connect, a write or a wait is under way,
\* unless the last attempt failed and the node is disconnected, or the secure
\* stream dropped it and the node waits for a handler that will not run.
THEOREM NothingStranded == ASSUME NoLoss PROVE Spec => []OnItsWay
<1>1. Init => AttemptUnderWay
  BY DEF Init, AttemptUnderWay
<1>2. IInv /\ AttemptUnderWay /\ [Next]_vars => AttemptUnderWay'
  <2>1. NoBreak /\ ~Destroy
    BY DEF NoLoss, NoBreak, Destroy
  <2> QED
    BY <2>1, AttemptStep
<1>3. IInv /\ AttemptUnderWay => OnItsWay
  <2> SUFFICES ASSUME IInv, AttemptUnderWay, state # "disconnected",
                      Len(completed) < Len(accepted),
                      \A k \in Conns : conn[k] # "dropped"
               PROVE  \/ \E k \in Conns : \/ conn[k] \in {"tcp", "handshake"}
                                          \/ writes[k] # <<>>
                      \/ armed \/ queued > 0
    BY DEF OnItsWay
  <2>1. CASE state = "connecting"
    BY <2>1 DEF AttemptUnderWay
  <2>2. CASE state = "connected"
    <3>1. send_queue # <<>>
      BY DEF IInv, TypeOK, InOrderExactlyOnce
    <3>2. Writing \/ Waiting \/ Expired
      BY <2>2, <3>1 DEF IInv, Sending, Resting, Sendable
    <3>3. Writing => websocket \in Conns /\ writes[websocket] # <<>>
      BY DEF IInv, Link, Writing, Sendable, OneWrite
    <3> QED
      BY <3>2, <3>3 DEF Waiting, Expired
  <2> QED
    BY <2>1, <2>2 DEF IInv, Link
<1> QED
  BY <1>1, <1>2, <1>3, Invariance, PTL DEF Spec
-----------------------------------------------------------------------------
(* Any messages, any faults, any connections *)

\* A websocket is there to write to for a node that is connected, and for a
\* handshake handler that is going to connect it.
HasWebsocket ==
    ~destroyed /\ (state = "connected" \/ \E k \in Conns : conn[k] \in {"handshake", "aborted"})
        => websocket \in Conns

\* What SomebodyActs needs to be inductive.
AInv == TypeOK /\ HasWebsocket /\ SomebodyActs

\* A message written to the websocket, or a wait for it, is a send under way.
LEMMA SendNextSends ==
    ASSUME websocket \in Conns, NEW w \in [Conns -> Seq(Frames)],
           NEW q \in Seq(Msgs), q # <<>>, NEW c, SendNext(w, q, c)
    PROVE  armed' \/ \E k \in Conns : writes'[k] # <<>>
<1>1. CASE armed'
  BY <1>1
<1>2. CASE do_send(w, q, c)
  <2> DEFINE f == [msg |-> Head(q), live |-> IsOpen(websocket, c)]
  <2>1. writes' = [w EXCEPT ![websocket] = Append(w[websocket], f)]
    BY <1>2 DEF do_send
  <2>2. f \in Frames
    BY DEF Frames, IsOpen
  <2> HIDE DEF f
  <2>3. Append(w[websocket], f) # <<>>
    BY <2>2, AppendFacts
  <2> QED
    BY <2>1, <2>3
<1> QED
  BY <1>1, <1>2 DEF SendNext, schedule_send

\* Only the connect handler replaces the websocket, before any handshake.
LEMMA WebsocketKept ==
    ASSUME TypeOK, HasWebsocket, [Next]_vars
    PROVE  HasWebsocket'
<1> USE DEF HasWebsocket
<1>1. conn \in [Conns -> ConnStates]
  BY DEF TypeOK
<1>2. CASE destroyed'
  BY <1>2
<1>3. ASSUME ~destroyed, UNCHANGED <<destroyed, websocket>>, state' = state \/ state' # "connected",
             \A k \in Conns : conn'[k] \in {"handshake", "aborted"} => conn'[k] = conn[k]
      PROVE  HasWebsocket'
  BY <1>3
<1>4. ASSUME NEW c \in [Conns -> ConnStates], Connect(c)
      PROVE  /\ state' = "connecting"
             /\ \A k \in Conns : conn'[k] \in {"handshake", "aborted"} => conn'[k] = c[k]
  BY <1>4 DEF Connect
<1>5. ASSUME NEW c \in [Conns -> ConnStates], Close(c)
      PROVE  /\ state' # "connected"
             /\ \A k \in Conns : conn'[k] \in {"handshake", "aborted"} => conn'[k] = c[k]
  BY <1>5 DEF Close
<1>6. ASSUME NEW m \in Msgs, SendMessage(m) PROVE HasWebsocket'
  BY <1>1, <1>3, <1>4, <1>6 DEF SendMessage, Running
<1>7. ASSUME NEW k \in Conns, TcpConnected(k) PROVE HasWebsocket'
  BY <1>7 DEF TcpConnected
<1>8. ASSUME NEW k \in Conns, HandshakeDone(k) PROVE HasWebsocket'
  BY <1>8 DEF HandshakeDone, Running
<1>9. ASSUME NEW k \in Conns,
             \/ TcpFailed(k) \/ HandshakeFailed(k) \/ HandshakeDropped(k)
             \/ CloseDone(k) \/ Break(k)
      PROVE  HasWebsocket'
  BY <1>1, <1>3, <1>9 DEF TcpFailed, HandshakeFailed, HandshakeDropped, CloseDone,
     Break, Running
<1>10. ASSUME NEW k \in Conns, WriteOk(k) \/ WriteError(k) PROVE HasWebsocket'
  BY <1>3, <1>10 DEF WriteOk, WriteError, Popped, Running
<1>11. ASSUME NEW k \in Conns, WriteClosed(k) PROVE HasWebsocket'
  <2> DEFINE c == [conn EXCEPT ![k] = IF @ = "broken" THEN "closed" ELSE @]
  <2>1. /\ c \in [Conns -> ConnStates] /\ Connect(c)
        /\ \A j \in Conns : c[j] \in {"handshake", "aborted"} => c[j] = conn[j]
    BY <1>1, <1>11 DEF WriteClosed, ConnStates
  <2> HIDE DEF c
  <2> QED
    BY <1>3, <1>4, <1>11, <2>1 DEF WriteClosed, Running
<1>12. \A k \in Conns : /\ ReadEnds(k, conn) \in [Conns -> ConnStates]
                        /\ \A j \in Conns : ReadEnds(k, conn)[j] \in {conn[j], "closed"}
  BY <1>1 DEF ReadEnds, ConnStates
<1>13. ASSUME NEW k \in Conns, ReadMore(k) \/ ReadThrow(k) PROVE HasWebsocket'
  BY <1>3, <1>12, <1>13 DEF ReadMore, ReadThrow, Running
<1>14. ASSUME NEW k \in Conns, ReadClose(k) PROVE HasWebsocket'
  BY <1>3, <1>5, <1>12, <1>14 DEF ReadClose, Running
<1>15. ASSUME NEW k \in Conns, ReadError(k) PROVE HasWebsocket'
  <2> DEFINE c == [ReadEnds(k, conn) EXCEPT ![k] = IF @ = "broken" THEN "closed" ELSE @]
  <2>1. c \in [Conns -> ConnStates] /\ \A j \in Conns : c[j] \in {conn[j], "closed"}
    BY <1>12 DEF ConnStates
  <2>2. Close(c)
    BY <1>15 DEF ReadError
  <2> HIDE DEF c
  <2> QED
    BY <1>3, <1>5, <1>15, <2>1, <2>2 DEF ReadError, Running
<1>16. CASE \/ \E value \in BOOLEAN : BackOff(value)
            \/ BackoffExpires \/ BackoffDone \/ UNCHANGED vars
  BY <1>16 DEF BackOff, BackoffExpires, BackoffDone, vars
<1>17. ASSUME NEW k \in Conns, LateHandler(k) PROVE destroyed'
  BY <1>17 DEF LateHandler, LateConnection, LateRead, LateWrite
<1>18. Destroy => destroyed'
  BY DEF Destroy
<1> QED
  BY <1>2, <1>6, <1>7, <1>8, <1>9, <1>10, <1>11, <1>13, <1>14, <1>15, <1>16, <1>17,
     <1>18 DEF Next, ConnectDone, HandshakeEnds, WriteDone, Receive

\* The steps that neither connect nor send leave an attempt and a send to be.
LEMMA QuietStep ==
    ASSUME AInv, NEW k \in Conns,
           \/ TcpFailed(k) \/ HandshakeFailed(k) \/ HandshakeDropped(k)
           \/ TcpConnected(k) \/ CloseDone(k) \/ Break(k) \/ ReadMore(k)
           \/ ReadThrow(k) \/ ReadClose(k) \/ ReadError(k) \/ LateHandler(k)
    PROVE  SomebodyActs'
<1> USE DEF SomebodyActs
<1>1. conn \in [Conns -> ConnStates] /\ TypeOK
  BY DEF AInv, TypeOK
<1>2. CASE TcpConnected(k)
  <2>1. conn'[k] = "handshake"
    BY <1>2 DEF TcpConnected, DropWebsocket
  <2> QED
    BY <1>2, <2>1 DEF TcpConnected, AInv, Running, Sound
<1>3. CASE TcpFailed(k) \/ HandshakeFailed(k) \/ CloseDone(k)
  BY <1>3 DEF TcpFailed, HandshakeFailed, CloseDone
<1>4. CASE HandshakeDropped(k)
  <2>1. conn'[k] = "dropped"
    BY <1>1, <1>4 DEF HandshakeDropped
  <2> QED
    BY <1>4, <2>1 DEF HandshakeDropped, AInv, Running, Sound
<1>5. CASE Break(k) \/ ReadMore(k) \/ ReadThrow(k)
  <2>1. conn[k] = "open" /\ \A j \in Conns \ {k} : conn'[j] = conn[j]
    BY <1>1, <1>5 DEF Break, ReadMore, ReadThrow, ReadEnds
  <2> QED
    BY <1>5, <2>1 DEF Break, ReadMore, ReadThrow, AInv, Running, Sound
<1>6. CASE ReadClose(k) \/ ReadError(k)
  <2>1. state' \in {"disconnected", "disconnecting"}
    BY <1>6 DEF ReadClose, ReadError, Close
  <2> QED
    BY <2>1
<1>7. CASE LateHandler(k)
  BY <1>7 DEF LateHandler, LateConnection, LateRead, LateWrite, Running
<1> QED
  BY <1>2, <1>3, <1>4, <1>5, <1>6, <1>7

\* The handshake handler and the write handlers go on with what is queued.
LEMMA GoesOn ==
    ASSUME AInv, NEW k \in Conns, HandshakeDone(k) \/ WriteDone(k)
    PROVE  SomebodyActs'
<1> USE DEF SomebodyActs
<1>1. /\ conn \in [Conns -> ConnStates] /\ send_queue \in Seq(Msgs)
      /\ writes \in [Conns -> Seq(Frames)] /\ TypeOK /\ ~destroyed
  BY DEF AInv, TypeOK, Frames, HandshakeDone, WriteDone, WriteOk, WriteError,
     WriteClosed, Running
<1>2. CASE HandshakeDone(k)
  <2>1. websocket \in Conns /\ SendNext(writes, send_queue, conn')
    BY <1>1, <1>2 DEF HandshakeDone, AInv, HasWebsocket
  <2>2. state' = "connected" /\ send_queue' = send_queue
    BY <1>2 DEF HandshakeDone
  <2> QED
    BY <1>1, <2>1, <2>2, SendNextSends
<1>3. CASE WriteOk(k) \/ WriteError(k)
  <2> DEFINE w == [writes EXCEPT ![k] = Tail(@)]
  <2>1. writes[k] # <<>> /\ Popped(k)
    BY <1>3 DEF WriteOk, WriteError
  <2>2. w \in [Conns -> Seq(Frames)]
    BY <1>1, <2>1, TailType
  <2>3. UNCHANGED <<state, conn, websocket, destroyed>>
    BY <2>1 DEF Popped
  <2>4. CASE send_queue = <<>>
    BY <2>1, <2>4 DEF Popped, Running, Sound
  <2>5. CASE send_queue # <<>>
    <3>1. send_queue' = Tail(send_queue) /\ SendNext(w, send_queue', conn)
          /\ failure' = failure
      BY <2>1, <2>5 DEF Popped
    <3>2. send_queue' \in Seq(Msgs)
      BY <1>1, <2>5, <3>1
    <3> HIDE DEF w
    <3>3. state = "connected" /\ send_queue' # <<>> =>
            armed' \/ \E j \in Conns : writes'[j] # <<>>
      BY <1>1, <2>2, <3>1, <3>2, SendNextSends DEF AInv, HasWebsocket
    <3> QED
      BY <2>3, <3>1, <3>3 DEF AInv, Running, Sound
  <2> QED
    BY <2>4, <2>5
<1>4. CASE WriteClosed(k)
  <2> DEFINE c == [conn EXCEPT ![k] = IF @ = "broken" THEN "closed" ELSE @]
  <2>1. Connect(c) /\ c \in [Conns -> ConnStates]
    BY <1>1, <1>4 DEF WriteClosed, ConnStates
  <2> HIDE DEF c
  <2>2. state' = "connecting" /\ \E j \in Conns : conn'[j] = "tcp"
    BY <2>1 DEF Connect
  <2> QED
    BY <2>2
<1> QED
  BY <1>2, <1>3, <1>4 DEF WriteDone

\* send_message, the swarm's back_off and the timer.
LEMMA OwnerActs ==
    ASSUME AInv,
           \/ \E m \in Msgs : SendMessage(m)
           \/ \E value \in BOOLEAN : BackOff(value)
           \/ BackoffExpires \/ BackoffDone \/ Destroy
    PROVE  SomebodyActs'
<1> USE DEF SomebodyActs
<1>1. /\ conn \in [Conns -> ConnStates] /\ send_queue \in Seq(Msgs)
      /\ writes \in [Conns -> Seq(Frames)] /\ TypeOK /\ queued \in Nat
  BY DEF AInv, TypeOK, Frames
<1>2. ASSUME NEW m \in Msgs, SendMessage(m) PROVE SomebodyActs'
  <2>1. send_queue' = Append(send_queue, m) /\ queued' = queued /\ Running
        /\ UNCHANGED <<destroyed, failure, websocket>>
    BY <1>2 DEF SendMessage
  <2>2. /\ send_queue' \in Seq(Msgs) /\ send_queue' # <<>>
        /\ Len(send_queue') = 1 <=> send_queue = <<>>
    BY <1>1, <2>1, AppendFacts
  <2>3. CASE state = "connected"
    <3>1. UNCHANGED <<state, conn>> /\ websocket \in Conns
      BY <1>2, <2>1, <2>3 DEF SendMessage, AInv, HasWebsocket, Running
    <3>2. CASE send_queue = <<>>
      <4>1. SendNext(writes, send_queue', conn)
        BY <1>2, <2>2, <2>3, <3>2 DEF SendMessage, SendNext
      <4> QED
        BY <1>1, <2>2, <2>3, <3>1, <4>1, SendNextSends
    <3>3. CASE send_queue # <<>>
      <4>1. UNCHANGED <<writes, armed>>
        BY <1>2, <2>2, <2>3, <3>3 DEF SendMessage
      <4> QED
        BY <2>1, <2>3, <3>1, <3>3, <4>1 DEF AInv
    <3> QED
      BY <3>2, <3>3
  <2>4. CASE state = "connecting"
    BY <1>2, <2>1, <2>4 DEF SendMessage, AInv
  <2>5. CASE Connect(conn)
    BY <1>1, <2>5 DEF Connect
  <2> QED
    BY <1>2, <2>3, <2>4, <2>5 DEF SendMessage
<1>3. ASSUME NEW value \in BOOLEAN, BackOff(value) PROVE SomebodyActs'
  BY <1>3 DEF BackOff, AInv, Running, Sound
<1>4. CASE BackoffExpires
  BY <1>1, <1>4 DEF BackoffExpires, AInv, Running, Sound
<1>5. CASE BackoffDone
  <2>1. CASE destroyed \/ send_queue = <<>>
    BY <1>5, <2>1 DEF BackoffDone, Running, Sound
  <2>2. CASE ~destroyed /\ send_queue # <<>>
    <3>1. do_send(writes, send_queue, conn) /\ Running
          /\ UNCHANGED <<state, conn, send_queue, websocket>>
      BY <1>5, <2>2 DEF BackoffDone, Running
    <3>2. state = "connected" => websocket \in Conns
      BY <2>2 DEF AInv, HasWebsocket
    <3> DEFINE f == [msg |-> Head(send_queue), live |-> IsOpen(websocket, conn)]
    <3>3. writes' = [writes EXCEPT ![websocket] = Append(writes[websocket], f)]
      BY <3>1 DEF do_send
    <3>4. f \in Frames
      BY <1>1, <2>2 DEF Frames, IsOpen
    <3> HIDE DEF f
    <3>5. websocket \in Conns => Append(writes[websocket], f) # <<>>
      BY <1>1, <3>4, AppendFacts
    <3>6. state = "connected" => \E k \in Conns : writes'[k] # <<>>
      BY <1>1, <3>2, <3>3, <3>5
    <3> QED
      BY <3>1, <3>6 DEF AInv
  <2> QED
    BY <2>1, <2>2
<1>6. CASE Destroy
  BY <1>6 DEF Destroy, Running
<1> QED
  BY <1>2, <1>3, <1>4, <1>5, <1>6

\* Under every fault, with any number of messages, connections and losses and
\* with the node dropped at any time, a node that is connecting has an attempt
\* under way or one the secure stream dropped, and a connected node with messages
\* to send has a write or a wait under way.
THEOREM AlwaysSomebodyActs == Spec => []SomebodyActs
<1>1. Init => HasWebsocket /\ SomebodyActs
  BY DEF Init, HasWebsocket, SomebodyActs
<1>2. AInv /\ [Next]_vars => AInv'
  <2> SUFFICES ASSUME AInv, [Next]_vars PROVE AInv'
    OBVIOUS
  <2>1. TypeOK' /\ HasWebsocket'
    BY TypeStep, WebsocketKept DEF AInv
  <2>2. CASE UNCHANGED vars
    BY <2>1, <2>2 DEF vars, AInv, SomebodyActs, Running, Sound
  <2>3. CASE Next
    BY <2>1, <2>3, QuietStep, GoesOn, OwnerActs
       DEF Next, ConnectDone, HandshakeEnds, Receive, AInv
  <2> QED
    BY <2>2, <2>3
<1>3. AInv => SomebodyActs
  BY DEF AInv
<1>4. Init /\ TypeOK => AInv
  BY <1>1 DEF AInv
<1> QED
  BY <1>2, <1>3, <1>4, TypeCorrect, PTL DEF Spec
=============================================================================
