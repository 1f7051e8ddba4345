------------------------- MODULE UdpResponseProofs --------------------------
(***************************************************************************)
(* Proofs about udp_response for every set of ports and outcomes and any   *)
(* number of calls of the client.                                          *)
(***************************************************************************)
EXTENDS UdpResponse, TLAPS

\* What Append does to the histories: the first element is the only one of a
\* sequence that was empty, and stays the first of one that was not.
LEMMA AppendFirst ==
    ASSUME NEW S, NEW seq \in Seq(S), NEW e \in S
    PROVE  /\ Append(seq, e) # <<>>
           /\ Append(seq, e) \in Seq(S)
           /\ Len(Append(seq, e)) = Len(seq) + 1
           /\ \A i \in 1 .. Len(seq) : Append(seq, e)[i] = seq[i]
           /\ Append(seq, e)[Len(seq) + 1] = e
           /\ seq = <<>> => Len(seq) = 0
           /\ seq # <<>> => Len(seq) \in Nat /\ Len(seq) >= 1
  OBVIOUS

-----------------------------------------------------------------------------
(* The inductive invariant *)

\* What the io thread has written so far: the result is stored before the
\* promise is set, and the promise is set before the error is.
Completion ==
    /\ result_str = IF io = "working" THEN Unset ELSE outcome
    /\ prom = IF io \in {"ready", "done"} THEN outcome ELSE Unset
    /\ io = "done" => error_val = outcome

\* A notification is either owed or sent, never both, and only of a response
\* that is complete.
Notification ==
    /\ deferred_signal => io = "done" /\ signals = <<>>
    /\ signals # <<>> => /\ io = "done" /\ ~deferred_signal
                         /\ Len(signals) = 1 /\ signals[1].error = outcome

\* The future is retrieved by the first call of get_result, which is still
\* waiting or has returned something.
Retrieval ==
    /\ ~taken => client = "idle" /\ got = <<>>
    /\ client = "waiting" => taken /\ got = <<>>
    /\ taken /\ client = "idle" => got # <<>>
    /\ ResultOnce

IInv == TypeOK /\ Completion /\ Notification /\ Retrieval

\* A new response satisfies the invariant.
LEMMA InitIInv == Init => IInv
<1> SUFFICES ASSUME Init PROVE IInv
  OBVIOUS
<1>1. TypeOK
  <2>1. signals \in Seq([to : Ports, error : Errors])
    BY DEF Init
  <2>2. got \in Seq(Errors \cup {Unset, ErrorResult})
    BY DEF Init
  <2>3. calls \in 0 .. MaxCalls
    BY ResponseAssumption DEF Init
  <2> QED
    BY <2>1, <2>2, <2>3 DEF Init, TypeOK
<1>2. Completion /\ Notification /\ Retrieval
  BY DEF Init, Completion, Notification, Retrieval, ResultOnce
<1> QED
  BY <1>1, <1>2 DEF IInv

\* Every step of the io thread and of the client's thread preserves the types: a
\* deferred notification carries an error the response has, because it is owed
\* only once the response is complete.
LEMMA TypeStep == IInv /\ [Next]_vars => TypeOK'
<1> SUFFICES ASSUME IInv, [Next]_vars PROVE TypeOK'
  OBVIOUS
<1> USE ResponseAssumption DEF IInv, TypeOK
<1>1. CASE SetResult
  BY <1>1 DEF SetResult
<1>2. CASE SetValue
  BY <1>2 DEF SetValue
<1>3. CASE Signal
  <2>1. signals' \in Seq([to : Ports, error : Errors])
    <3>1. CASE their_id # 0
      <4>1. [to |-> their_id, error |-> outcome] \in [to : Ports, error : Errors]
        BY <3>1
      <4>2. signals' = Append(signals, [to |-> their_id, error |-> outcome])
        BY <1>3, <3>1 DEF Signal, send_signal
      <4> QED
        BY <4>1, <4>2
    <3>2. CASE their_id = 0
      BY <1>3, <3>2 DEF Signal
    <3> QED
      BY <3>1, <3>2
  <2>2. deferred_signal' \in BOOLEAN
    BY <1>3 DEF Signal
  <2> QED
    BY <1>3, <2>1, <2>2 DEF Signal
<1>4. ASSUME NEW port \in Ports, SetSignalId(port) PROVE TypeOK'
  <2>1. deferred_signal => error_val \in Errors
    BY DEF Completion, Notification
  <2>2. signals' \in Seq([to : Ports, error : Errors])
    <3>1. CASE deferred_signal
      <4>1. [to |-> port, error |-> error_val] \in [to : Ports, error : Errors]
        BY <2>1, <3>1
      <4>2. signals' = Append(signals, [to |-> port, error |-> error_val])
        BY <1>4, <3>1 DEF SetSignalId, send_signal
      <4> QED
        BY <4>1, <4>2
    <3>2. CASE ~deferred_signal
      BY <1>4, <3>2 DEF SetSignalId
    <3> QED
      BY <3>1, <3>2
  <2>3. calls' \in 0 .. MaxCalls
    BY <1>4 DEF SetSignalId, Calls
  <2> QED
    BY <1>4, <2>2, <2>3 DEF SetSignalId, Calls
<1>5. CASE GetFuture
  <2>1. got' \in Seq(Errors \cup {Unset, ErrorResult})
    BY <1>5 DEF GetFuture
  <2>2. calls' \in 0 .. MaxCalls
    BY <1>5 DEF GetFuture, Calls
  <2> QED
    BY <1>5, <2>1, <2>2 DEF GetFuture
<1>6. CASE GetResult
  BY <1>6 DEF GetResult
<1>7. CASE UNCHANGED vars
  BY <1>7 DEF vars
<1> QED
  BY <1>1, <1>2, <1>3, <1>4, <1>5, <1>6, <1>7 DEF Next, IoThread, ClientThread

\* The io thread writes the members in their order, and the client writes none
\* of them.
LEMMA CompletionStep == IInv /\ [Next]_vars => Completion'
<1> SUFFICES ASSUME IInv, [Next]_vars PROVE Completion'
  OBVIOUS
<1> USE DEF IInv, TypeOK, Completion
<1>1. CASE IoThread
  BY <1>1 DEF IoThread, SetResult, SetValue, Signal
<1>2. CASE ClientThread
  BY <1>2 DEF ClientThread, SetSignalId, GetFuture, GetResult, Calls
<1>3. CASE UNCHANGED vars
  BY <1>3 DEF vars
<1> QED
  BY <1>1, <1>2, <1>3 DEF Next

\* Whichever of signal and set_signal_id comes second sends the notification.
LEMMA NotificationStep == IInv /\ [Next]_vars => Notification'
<1> SUFFICES ASSUME IInv, [Next]_vars PROVE Notification'
  OBVIOUS
<1> USE DEF IInv, TypeOK, Notification
<1>1. CASE SetResult \/ SetValue \/ GetFuture \/ GetResult
  BY <1>1 DEF SetResult, SetValue, GetFuture, GetResult
<1>2. CASE Signal
  <2>1. io # "done" /\ io' = "done" /\ outcome' = outcome /\ signals = <<>>
        /\ ~deferred_signal
    BY <1>2 DEF Signal
  <2>2. CASE their_id # 0
    <3>1. signals' = Append(signals, [to |-> their_id, error |-> outcome])
          /\ [to |-> their_id, error |-> outcome] \in [to : Ports, error : Errors]
          /\ ~deferred_signal'
      BY <1>2, <2>1, <2>2 DEF Signal, send_signal
    <3> QED
      BY <2>1, <3>1, AppendFirst
  <2>3. CASE their_id = 0
    BY <1>2, <2>1, <2>3 DEF Signal
  <2> QED
    BY <2>2, <2>3
<1>3. ASSUME NEW port \in Ports, SetSignalId(port) PROVE Notification'
  <2>1. CASE deferred_signal
    <3>1. signals' = Append(signals, [to |-> port, error |-> error_val])
          /\ ~deferred_signal' /\ io' = io /\ outcome' = outcome
      BY <1>3, <2>1 DEF SetSignalId, send_signal
    <3>2. io = "done" /\ signals = <<>> /\ error_val = outcome
      BY <2>1 DEF Completion
    <3>3. [to |-> port, error |-> error_val] \in [to : Ports, error : Errors]
      BY <3>2
    <3> QED
      BY <3>1, <3>2, <3>3, AppendFirst
  <2>2. CASE ~deferred_signal
    BY <1>3, <2>2 DEF SetSignalId
  <2> QED
    BY <2>1, <2>2
<1>4. CASE UNCHANGED vars
  BY <1>4 DEF vars
<1> QED
  BY <1>1, <1>2, <1>3, <1>4 DEF Next, IoThread, ClientThread

\* Only the call that retrieved the future returns a result.
LEMMA RetrievalStep == IInv /\ [Next]_vars => Retrieval'
<1> SUFFICES ASSUME IInv, [Next]_vars PROVE Retrieval'
  OBVIOUS
<1> USE DEF IInv, TypeOK, Retrieval, ResultOnce
<1>1. CASE IoThread
  BY <1>1 DEF IoThread, SetResult, SetValue, Signal
<1>2. ASSUME NEW port \in Ports, SetSignalId(port) PROVE Retrieval'
  BY <1>2 DEF SetSignalId
<1>3. CASE GetFuture
  <2>1. CASE ~taken
    BY <1>3, <2>1 DEF GetFuture, Calls
  <2>2. CASE taken
    <3>1. got # <<>> /\ got' = Append(got, ErrorResult) /\ client' = "idle"
          /\ taken' /\ outcome' = outcome
      BY <1>3, <2>2 DEF GetFuture, Calls
    <3>2. ResultOnce'
      BY <3>1 DEF ErrorResult
    <3> QED
      BY <3>1, <3>2
  <2> QED
    BY <2>1, <2>2
<1>4. CASE GetResult
  BY <1>4, ResponseAssumption DEF GetResult, Completion, Unset
<1>5. CASE UNCHANGED vars
  BY <1>5 DEF vars
<1> QED
  BY <1>1, <1>2, <1>3, <1>4, <1>5 DEF Next, ClientThread

-----------------------------------------------------------------------------
(* What udp_response guarantees *)

\* The conjuncts hold together in every reachable state.
LEMMA Invariance == Spec => []IInv
<1>1. IInv /\ [Next]_vars => IInv'
  BY TypeStep, CompletionStep, NotificationStep, RetrievalStep DEF IInv
<1> QED
  BY <1>1, InitIInv, PTL DEF Spec

\* Every member of udp_response keeps its type, and no notification goes to
\* port 0, for any ports, outcomes and number of calls.
THEOREM TypeCorrect == Spec => []TypeOK
<1>1. IInv => TypeOK
  BY DEF IInv
<1> QED
  BY <1>1, Invariance, PTL

\* The client is notified at most once, and only of a response whose promise and
\* error are set, however signal and set_signal_id interleave.
THEOREM NotifiedOnce == Spec => []NotifiedOnceWhenReady
<1>1. IInv => NotifiedOnceWhenReady
  <2> SUFFICES ASSUME IInv PROVE NotifiedOnceWhenReady
    OBVIOUS
  <2>1. CASE signals = <<>>
    BY <2>1 DEF NotifiedOnceWhenReady
  <2>2. CASE signals # <<>>
    <3>1. io = "done" /\ Len(signals) = 1 /\ signals[1].error = outcome
      BY <2>2 DEF IInv, Notification
    <3>2. prom = outcome /\ error_val = outcome
      BY <3>1 DEF IInv, Completion
    <3> QED
      BY <3>1, <3>2 DEF NotifiedOnceWhenReady
  <2> QED
    BY <2>1, <2>2
<1> QED
  BY <1>1, Invariance, PTL

\* The first get_result returns the outcome of the operation and every further
\* one the error result.
THEOREM ResultGivenOnce == Spec => []ResultOnce
<1>1. IInv => ResultOnce
  BY DEF IInv, Retrieval
<1> QED
  BY <1>1, Invariance, PTL

-----------------------------------------------------------------------------
(* Nothing is lost: what the liveness properties rest on *)

\* A completed response owes its client a notification or has sent it, and owes
\* one only as long as the client has given no port.
Owed ==
    /\ io = "done" => deferred_signal \/ signals # <<>>
    /\ deferred_signal => their_id = 0

\* A client that gave a port and a response that is complete: the notification
\* is out.  NotificationArrives then needs no more than an io thread that goes on.
NotificationNotLost == io = "done" /\ their_id # 0 => signals # <<>>

\* The one of signal and set_signal_id that comes second finds what the first
\* has left: the port, or the deferred signal.
LEMMA OwedStep == IInv /\ Owed /\ [Next]_vars => Owed'
<1> SUFFICES ASSUME IInv, Owed, [Next]_vars PROVE Owed'
  OBVIOUS
<1> USE DEF IInv, TypeOK, Owed
<1>1. CASE SetResult \/ SetValue \/ GetFuture \/ GetResult
  BY <1>1 DEF SetResult, SetValue, GetFuture, GetResult, Notification
<1>2. CASE Signal
  <2>1. CASE their_id # 0
    <3>1. /\ signals' = Append(signals, [to |-> their_id, error |-> outcome])
          /\ [to |-> their_id, error |-> outcome] \in [to : Ports, error : Errors]
          /\ UNCHANGED <<their_id, deferred_signal>>
      BY <1>2, <2>1 DEF Signal, send_signal
    <3> QED
      BY <3>1, AppendFirst
  <2>2. CASE their_id = 0
    BY <1>2, <2>2 DEF Signal
  <2> QED
    BY <2>1, <2>2
<1>3. ASSUME NEW port \in Ports, SetSignalId(port) PROVE Owed'
  <2>1. CASE deferred_signal
    <3>1. signals' = Append(signals, [to |-> port, error |-> error_val])
          /\ ~deferred_signal'
      BY <1>3, <2>1 DEF SetSignalId, send_signal
    <3>2. [to |-> port, error |-> error_val] \in [to : Ports, error : Errors]
      BY <2>1 DEF Completion, Notification
    <3> QED
      BY <3>1, <3>2, AppendFirst
  <2>2. CASE ~deferred_signal
    BY <1>3, <2>2 DEF SetSignalId
  <2> QED
    BY <2>1, <2>2
<1>4. CASE UNCHANGED vars
  BY <1>4 DEF vars
<1> QED
  BY <1>1, <1>2, <1>3, <1>4 DEF Next, IoThread, ClientThread

\* No notification is lost between signal and set_signal_id, whichever of them
\* takes the mutex first and however often the client names another port: once
\* the response is complete and a port is known, it has been sent.
THEOREM NoLostNotification == Spec => []NotificationNotLost
<1>1. Init => Owed
  BY DEF Init, Owed
<1>2. IInv /\ Owed => NotificationNotLost
  BY DEF Owed, NotificationNotLost
<1> QED
  BY <1>1, <1>2, OwedStep, Invariance, PTL DEF Spec
=============================================================================
