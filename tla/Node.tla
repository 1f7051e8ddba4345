-------------------------------- MODULE Node --------------------------------
(***************************************************************************)
(* node: the connection to one node of the swarm, and the queue of the     *)
(* messages to send over it.  Every step runs on the strand of the node.   *)
(*                                                                         *)
(* Each call of connect() makes a connection of its own, numbered in the   *)
(* order of the calls; websocket is the one the member variable points at. *)
(* A connection goes "tcp" (connecting), "handshake", "open", and from     *)
(* there to "broken" (the peer is gone, unnoticed so far), "closing"       *)
(* (async_close was called) and "closed".  The handlers of a connection do *)
(* not know which one they belong to: they act on the current websocket    *)
(* and on state, and may run long after both have moved on.                *)
(***************************************************************************)
EXTENDS Integers, Sequences, FiniteSets, Functions

CONSTANTS
    Msgs,           \* messages to send, each of them once
    Faults,         \* what may go wrong
    MaxConnects,    \* bound on the calls of connect()
    MaxBreaks,      \* bound on the connections that break or are closed
    MaxBackoff,     \* MAX_BACKOFF_TIME
    LateExpiry      \* may the node go while an expired wait is queued?

ASSUME NodeAssumption ==
    /\ Faults \subseteq {"connect", "handshake", "ssl", "break", "handler_close",
                         "handler_throw", "destroy"}
    /\ MaxConnects \in Nat \ {0}
    /\ MaxBreaks \in Nat
    /\ MaxBackoff \in Nat \ {0}
    /\ LateExpiry \in BOOLEAN

VARIABLES
    state,          \* connect_state
    websocket,      \* number of the current websocket, 0 for null
    conn,           \* what became of each connection
    send_queue,
    writes,         \* outstanding async_writes of each connection
    reads,          \* outstanding async_reads of each connection
    backoff_time,
    armed,          \* is a wait on backoff_timer armed?
    queued,         \* expired waits whose handler has not run yet
    accepted,       \* history: messages in the order they were queued
    delivered,      \* history: messages the peer received
    completed,      \* history: messages whose callback was called
    breaks,         \* connections broken or closed so far
    destroyed,      \* has the owner dropped the node?
    failure         \* "none", or why the process is no longer sound

vars == <<state, websocket, conn, send_queue, writes, reads, backoff_time,
          armed, queued, accepted, delivered, completed, breaks, destroyed,
          failure>>

Conns == 1 .. MaxConnects

Init ==
    /\ state = "disconnected"
    /\ websocket = 0
    /\ conn = [k \in Conns |-> "none"]
    /\ send_queue = <<>>
    /\ writes = [k \in Conns |-> <<>>]
    /\ reads = [k \in Conns |-> 0]
    /\ backoff_time = 0
    /\ armed = FALSE
    /\ queued = 0
    /\ accepted = <<>>
    /\ delivered = <<>>
    /\ completed = <<>>
    /\ breaks = 0
    /\ destroyed = FALSE
    /\ failure = "none"

Sound == failure = "none"
Running == Sound /\ ~destroyed

-----------------------------------------------------------------------------
(* Pieces of the handlers *)

\* websocket->is_open(): the broken state is not known yet.
IsOpen(k, c) == k # 0 /\ c[k] \in {"open", "broken"}

\* Mutant: the newest message of the queue is written.
do_send_Newest(w, q, c) ==
    writes' = [w EXCEPT ![websocket] =
        Append(@, [msg |-> q[Len(q)], live |-> IsOpen(websocket, c)])]

\* do_send: the front of the queue q is written to the current websocket, in
\* the connections c and with the writes w under way.  A write to a websocket
\* that is not open can only fail.
do_send(w, q, c) ==
    writes' = [w EXCEPT ![websocket] =
        Append(@, [msg |-> Head(q), live |-> IsOpen(websocket, c)])]

\* schedule_send for the non-empty queue q: at once, or after backoff_time.
\* Setting the timer again aborts a wait that is armed.
schedule_send(w, q, c) ==
    IF backoff_time > 0
    THEN armed' = TRUE /\ writes' = w
    ELSE do_send(w, q, c) /\ UNCHANGED armed

\* Mutant: nothing is scheduled.
SendNext_Never(w, q, c) == writes' = w /\ UNCHANGED armed

\* schedule_send if there is something to send.
SendNext(w, q, c) ==
    IF q # <<>> THEN schedule_send(w, q, c) ELSE writes' = w /\ UNCHANGED armed

\* The backoff time doubles up to its maximum, and halves down to 0.
Longer(t) ==
    IF t = 0 THEN 1 ELSE IF 2 * t < MaxBackoff THEN 2 * t ELSE MaxBackoff

Shorter(t) == IF t > 1 THEN t \div 2 ELSE 0

\* connect(), in the connections c.
Connect(c) ==
    /\ state' = "connecting"
    /\ \E k \in Conns :
        /\ c[k] = "none" /\ \A j \in 1 .. k - 1 : c[j] # "none"
        /\ conn' = [c EXCEPT ![k] = "tcp"]

\* close(), in the connections c: the current websocket is closed if it is
\* open, whichever connection the caller belongs to.
Close(c) ==
    IF IsOpen(websocket, c)
    THEN IF state = "disconnecting"
         THEN conn' = c /\ UNCHANGED state
         ELSE /\ state' = "disconnecting"
              /\ conn' = [c EXCEPT ![websocket] = "closing"]
    ELSE state' = "disconnected" /\ conn' = c

-----------------------------------------------------------------------------
(* The owner of the node *)

\* send_message: the part it posts to the strand.
SendMessage(m) ==
    /\ Running
    /\ m \notin Range(accepted)
    /\ accepted' = Append(accepted, m)
    /\ send_queue' = Append(send_queue, m)
    /\ \/ /\ state = "connected"
          /\ IF Len(send_queue') = 1
             THEN schedule_send(writes, send_queue', conn)
             ELSE UNCHANGED <<writes, armed>>
          /\ UNCHANGED <<state, conn>>
       \/ /\ state = "connecting"
          /\ UNCHANGED <<state, conn, writes, armed>>
       \/ /\ state \in {"disconnected", "disconnecting"}
          /\ Connect(conn)
          /\ UNCHANGED <<writes, armed>>
    /\ UNCHANGED <<websocket, reads, backoff_time, queued, delivered,
                   completed, breaks, destroyed, failure>>

\* back_off, called by the swarm for every message it receives.
BackOff(value) ==
    /\ Running
    /\ backoff_time' = IF value THEN Longer(backoff_time)
                       ELSE Shorter(backoff_time)
    /\ UNCHANGED <<state, websocket, conn, send_queue, writes, reads, armed,
                   queued, accepted, delivered, completed, breaks, destroyed,
                   failure>>

-----------------------------------------------------------------------------
(* connect *)

\* The connections once the node has let go of its websocket, which is destroyed
\* unless a read or a close still holds it; an operation under way on it is
\* aborted.
DropWebsocket ==
    [j \in Conns |->
        IF j # websocket THEN conn[j]
        ELSE IF conn[j] = "handshake" THEN "aborted"
        ELSE IF reads[j] = 0 /\ conn[j] # "closing" THEN "closed" ELSE conn[j]]

\* The connect handler: a new websocket replaces the current one.
TcpConnected(k) ==
    /\ Running
    /\ conn[k] = "tcp"
    /\ websocket' = k
    /\ conn' = [DropWebsocket EXCEPT ![k] = "handshake"]
    /\ UNCHANGED <<state, send_queue, writes, reads, backoff_time, armed,
                   queued, accepted, delivered, completed, breaks, destroyed,
                   failure>>

TcpFailed(k) ==
    /\ Running
    /\ "connect" \in Faults
    /\ conn[k] = "tcp"
    /\ conn' = [conn EXCEPT ![k] = "closed"]
    /\ state' = "disconnected"
    /\ UNCHANGED <<websocket, send_queue, writes, reads, backoff_time, armed,
                   queued, accepted, delivered, completed, breaks, destroyed,
                   failure>>

\* The handshake handler: it sends and receives on the current websocket.  It
\* may have been queued behind the connect handler that replaced its own.
HandshakeDone(k) ==
    /\ Running
    /\ conn[k] \in {"handshake", "aborted"}
    /\ conn' = [conn EXCEPT ![k] = IF @ = "handshake" THEN "open" ELSE "closed"]
    /\ state' = "connected"
    /\ SendNext(writes, send_queue, conn')
    /\ reads' = [reads EXCEPT ![websocket] = @ + 1]
    /\ UNCHANGED <<websocket, send_queue, backoff_time, queued, accepted,
                   delivered, completed, breaks, destroyed, failure>>

HandshakeFailed(k) ==
    /\ Running
    /\ conn[k] = "aborted" \/ (conn[k] = "handshake" /\ "handshake" \in Faults)
    /\ conn' = [conn EXCEPT ![k] = "closed"]
    /\ state' = "disconnected"
    /\ UNCHANGED <<websocket, send_queue, writes, reads, backoff_time, armed,
                   queued, accepted, delivered, completed, breaks, destroyed,
                   failure>>

\* A secure stream whose ssl handshake fails or times out drops the handler of
\* async_handshake: nothing tells the node.
HandshakeDropped(k) ==
    /\ Running
    /\ "ssl" \in Faults
    /\ conn[k] \in {"handshake", "aborted"}
    /\ conn' = [conn EXCEPT ![k] = "dropped"]
    /\ UNCHANGED <<state, websocket, send_queue, writes, reads, backoff_time,
                   armed, queued, accepted, delivered, completed, breaks,
                   destroyed, failure>>

-----------------------------------------------------------------------------
(* Sending *)

Written(k) == Head(writes[k])

\* Whether the message of a write that is over has reached the peer.  On an open
\* connection it has; otherwise it may have, before the connection was lost,
\* whatever the write reports.
Arrives(k) ==
    \/ Written(k).live /\ delivered' = Append(delivered, Written(k).msg)
    \/ conn[k] # "open" /\ UNCHANGED delivered

\* The rest of the write handler once the write of k is over: pop_front, the
\* next message, the callback.
Popped(k) ==
    /\ writes[k] # <<>>
    /\ completed' = Append(completed, Written(k).msg)
    /\ IF send_queue = <<>>
       THEN failure' = "pop_empty" /\ UNCHANGED <<send_queue, writes, armed>>
       ELSE /\ send_queue' = Tail(send_queue)
            /\ UNCHANGED failure
            /\ SendNext([writes EXCEPT ![k] = Tail(@)], send_queue', conn)
    /\ UNCHANGED <<state, websocket, conn, reads, backoff_time, queued,
                   accepted, breaks, destroyed>>

\* The write handler without an error: the front of the queue is popped, and
\* the next message scheduled.  A write that the peer was no longer there for
\* succeeds all the same.
WriteOk(k) ==
    /\ Running
    /\ writes[k] # <<>>
    /\ Written(k).live
    /\ Arrives(k)
    /\ Popped(k)

\* The write handler with an error that does not mean a closed connection.
WriteError(k) ==
    /\ Running
    /\ writes[k] # <<>>
    /\ Written(k).live
    /\ conn[k] \in {"broken", "closed"}
    /\ Arrives(k)
    /\ Popped(k)

\* The write handler with closed, eof or operation_aborted: the message stays
\* in the queue, received or not, and the node connects again.
WriteClosed(k) ==
    /\ Running
    /\ writes[k] # <<>>
    /\ conn[k] # "open"
    /\ writes' = [writes EXCEPT ![k] = Tail(@)]
    /\ Arrives(k)
    /\ Connect([conn EXCEPT ![k] = IF @ = "broken" THEN "closed" ELSE @])
    /\ UNCHANGED <<websocket, send_queue, reads, backoff_time, armed, queued,
                   accepted, completed, breaks, destroyed, failure>>

BackoffExpires ==
    /\ Sound
    /\ armed
    /\ armed' = FALSE
    /\ queued' = queued + 1
    /\ UNCHANGED <<state, websocket, conn, send_queue, writes, reads,
                   backoff_time, accepted, delivered, completed, breaks,
                   failure, destroyed>>

\* The wait handler of schedule_send, with its assertion.  It tests the error, not
\* the pointer, and uses a node that is gone.
BackoffDone ==
    /\ Sound
    /\ queued > 0
    /\ queued' = queued - 1
    /\ IF destroyed THEN failure' = "null_node" /\ UNCHANGED writes
       ELSE IF send_queue = <<>> THEN failure' = "assert" /\ UNCHANGED writes
       ELSE do_send(writes, send_queue, conn) /\ UNCHANGED failure
    /\ UNCHANGED <<state, websocket, conn, send_queue, reads, backoff_time,
                   armed, accepted, delivered, completed, breaks, destroyed>>

-----------------------------------------------------------------------------
(* Receiving and closing *)

\* The read handler ends: the connection it held goes with it unless it is
\* the current one.
ReadEnds(k, c) ==
    [c EXCEPT ![k] = IF k # websocket /\ @ # "closing" THEN "closed" ELSE @]

\* A message, after which the handler wants more: the next read is on the
\* current websocket.
ReadMore(k) ==
    /\ Running
    /\ reads[k] > 0
    /\ conn[k] = "open"
    /\ reads' = [[reads EXCEPT ![k] = @ - 1] EXCEPT ![websocket] = @ + 1]
    /\ conn' = ReadEnds(k, conn)
    /\ UNCHANGED <<state, websocket, send_queue, writes, backoff_time, armed,
                   queued, accepted, delivered, completed, breaks, destroyed,
                   failure>>

\* A message the handler closes the connection for.
ReadClose(k) ==
    /\ Running
    /\ "handler_close" \in Faults /\ breaks < MaxBreaks
    /\ breaks' = breaks + 1
    /\ reads[k] > 0
    /\ conn[k] = "open"
    /\ reads' = [reads EXCEPT ![k] = @ - 1]
    /\ Close(ReadEnds(k, conn))
    /\ UNCHANGED <<websocket, send_queue, writes, backoff_time, armed, queued,
                   accepted, delivered, completed, failure, destroyed>>

\* A message the handler throws for: nobody reads any more.
ReadThrow(k) ==
    /\ Running
    /\ "handler_throw" \in Faults
    /\ reads[k] > 0
    /\ conn[k] = "open"
    /\ reads' = [reads EXCEPT ![k] = @ - 1]
    /\ conn' = ReadEnds(k, conn)
    /\ UNCHANGED <<state, websocket, send_queue, writes, backoff_time, armed,
                   queued, accepted, delivered, completed, breaks, destroyed,
                   failure>>

\* A read error: it is close() that decides what it means.
ReadError(k) ==
    /\ Running
    /\ reads[k] > 0
    /\ conn[k] # "open"
    /\ reads' = [reads EXCEPT ![k] = @ - 1]
    /\ Close([ReadEnds(k, conn) EXCEPT ![k] = IF @ = "broken" THEN "closed" ELSE @])
    /\ UNCHANGED <<websocket, send_queue, writes, backoff_time, armed, queued,
                   accepted, delivered, completed, breaks, destroyed, failure>>

\* The close handler.
CloseDone(k) ==
    /\ Running
    /\ conn[k] = "closing"
    /\ conn' = [conn EXCEPT ![k] = "closed"]
    /\ state' = "disconnected"
    /\ UNCHANGED <<websocket, send_queue, writes, reads, backoff_time, armed,
                   queued, accepted, delivered, completed, breaks, destroyed,
                   failure>>

\* The peer goes away.
Break(k) ==
    /\ Running
    /\ "break" \in Faults /\ breaks < MaxBreaks
    /\ breaks' = breaks + 1
    /\ conn[k] = "open"
    /\ conn' = [conn EXCEPT ![k] = "broken"]
    /\ UNCHANGED <<state, websocket, send_queue, writes, reads, backoff_time,
                   armed, queued, accepted, delivered, completed, failure,
                   destroyed>>

-----------------------------------------------------------------------------
(* The end of the node *)

\* The owner drops the node: the queue, the timer with a wait that is armed, and
\* the websocket go, but no handler that holds a weak pointer does.
Destroy ==
    /\ Running
    /\ "destroy" \in Faults
    /\ LateExpiry \/ queued = 0
    /\ destroyed' = TRUE
    /\ send_queue' = <<>>
    /\ armed' = FALSE
    /\ websocket' = 0
    /\ conn' = DropWebsocket
    /\ UNCHANGED <<state, writes, reads, backoff_time, queued, accepted,
                   delivered, completed, breaks, failure>>

\* Without the node the handlers of connect, handshake and close do nothing,
LateConnection(k) ==
    /\ Sound /\ destroyed
    /\ conn[k] \in {"tcp", "handshake", "aborted", "closing"}
    /\ conn' = [conn EXCEPT ![k] = "closed"]
    /\ UNCHANGED <<state, websocket, send_queue, writes, reads, backoff_time,
                   armed, queued, accepted, delivered, completed, breaks,
                   destroyed, failure>>

\* that of a read lets the websocket go,
LateRead(k) ==
    /\ Sound /\ destroyed
    /\ reads[k] > 0
    /\ reads' = [reads EXCEPT ![k] = @ - 1]
    /\ conn' = [conn EXCEPT ![k] =
            IF reads[k] > 1 \/ @ = "closing" THEN @ ELSE "closed"]
    /\ UNCHANGED <<state, websocket, send_queue, writes, backoff_time, armed,
                   queued, accepted, delivered, completed, breaks, destroyed,
                   failure>>

\* and that of a write, with any error, calls the callback.  The text written was
\* freed with the queue: the peer receives the message if the write was through
\* by then, and otherwise nothing, or bytes that are not the message.
LateWrite(k) ==
    /\ Sound /\ destroyed
    /\ writes[k] # <<>>
    /\ writes' = [writes EXCEPT ![k] = Tail(@)]
    /\ completed' = Append(completed, Written(k).msg)
    /\ \/ /\ Written(k).live /\ conn[k] \in {"open", "closing"}
          /\ delivered' = Append(delivered, Written(k).msg)
       \/ UNCHANGED delivered
    /\ UNCHANGED <<state, websocket, conn, send_queue, reads, backoff_time,
                   armed, queued, accepted, breaks, destroyed, failure>>

LateHandler(k) == LateConnection(k) \/ LateRead(k) \/ LateWrite(k)

-----------------------------------------------------------------------------
ConnectDone(k) == TcpConnected(k) \/ TcpFailed(k)
HandshakeEnds(k) == HandshakeDone(k) \/ HandshakeFailed(k) \/ HandshakeDropped(k)
WriteDone(k) == WriteOk(k) \/ WriteError(k) \/ WriteClosed(k)
Receive(k) == ReadMore(k) \/ ReadClose(k) \/ ReadThrow(k) \/ Break(k)

Next ==
    \/ \E m \in Msgs : SendMessage(m)
    \/ \E value \in BOOLEAN : BackOff(value)
    \/ \E k \in Conns :
            \/ ConnectDone(k) \/ HandshakeEnds(k) \/ WriteDone(k)
            \/ ReadError(k) \/ CloseDone(k) \/ Receive(k)
            \/ LateHandler(k)
    \/ BackoffExpires
    \/ BackoffDone
    \/ Destroy

\* asio completes connects and closes, reports a connection that is gone to its
\* reader, and the timer expires.  Handshakes and writes have no timeout: a peer
\* that does not answer or does not read keeps them pending.  Nothing has to be
\* sent, received or broken.
Fairness ==
    /\ \A k \in Conns :
        /\ WF_vars(ConnectDone(k))
        /\ WF_vars(ReadError(k))
        /\ WF_vars(CloseDone(k))
    /\ WF_vars(BackoffExpires)
    /\ WF_vars(BackoffDone)

Spec == Init /\ [][Next]_vars
FairSpec == Spec /\ Fairness

-----------------------------------------------------------------------------
(* Properties *)

ConnStates ==
    {"none", "tcp", "handshake", "aborted", "dropped", "open", "broken",
     "closing", "closed"}

\* The members of node have their declared types, and the backoff time stays
\* within its limit however often the swarm is busy.
TypeOK ==
    /\ state \in {"disconnected", "connecting", "connected", "disconnecting"}
    /\ conn \in [Conns -> ConnStates]
    /\ websocket \in 0 .. MaxConnects
    /\ send_queue \in Seq(Msgs)
    /\ writes \in [Conns -> Seq([msg : Msgs, live : BOOLEAN])]
    /\ reads \in [Conns -> Nat]
    /\ backoff_time \in 0 .. MaxBackoff
    /\ armed \in BOOLEAN
    /\ queued \in Nat
    /\ accepted \in Seq(Msgs) /\ delivered \in Seq(Msgs) /\ completed \in Seq(Msgs)
    /\ breaks \in 0 .. MaxBreaks
    /\ destroyed \in BOOLEAN
    /\ failure \in {"none", "assert", "pop_empty", "null_node"}

\* While no connection is lost, a connected node with messages to send has
\* exactly one send under way, a write or a wait for the backoff: no two
\* writes overlap on the websocket, no message waits for a wakeup that was
\* lost between the queue, the connection and the timer, and after a failed
\* connection attempt nothing is under way.
ExactlyOneSender ==
    LET outstanding == {k \in Conns : writes[k] # <<>>} IN
    /\ \A k \in Conns : Len(writes[k]) <= 1
    /\ Cardinality(outstanding) + queued + (IF armed THEN 1 ELSE 0)
        = (IF state = "connected" /\ send_queue # <<>> THEN 1 ELSE 0)

\* While no connection is lost, what the peer has received and what is still
\* queued is what was sent, in the order of the calls of send_message, through
\* failed connects and handshakes, and a callback is called for every message
\* delivered.
InOrderExactlyOnce ==
    /\ accepted = delivered \o send_queue
    /\ completed = delivered

\* Whatever happens to its connections, a node is not left waiting for a handler
\* that will not run: while it is connecting, when send_message leaves the sending
\* to the handshake, an attempt to connect is under way, or its handshake was
\* dropped by the secure stream; while it is connected with messages to send,
\* when send_message leaves them to the send before, a write or a wait is under
\* way.
SomebodyActs ==
    Running =>
        /\ state = "connecting" => \E k \in Conns :
                conn[k] \in {"tcp", "handshake", "aborted", "dropped"}
        /\ state = "connected" /\ send_queue # <<>> =>
                armed \/ queued > 0 \/ \E k \in Conns : writes[k] # <<>>

\* A handshake or a write of the connection k never ends.
Hangs(k) == <>[](conn[k] = "handshake") \/ <>[](writes[k] # <<>>)

\* The callback of a message that was sent is eventually called, unless the
\* attempt to connect fails, when the node is disconnected until the next call
\* of send_message, the secure stream drops a handshake, or a handshake or a
\* write never ends.
CallbackCalled ==
    \A m \in Msgs :
        \/ \E k \in Conns : Hangs(k)
        \/ m \in Range(accepted) ~>
                \/ m \in Range(completed) \/ state = "disconnected"
                \/ \E k \in Conns : conn[k] = "dropped"
=============================================================================
