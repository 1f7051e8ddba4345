---------------------------- MODULE UdpResponse -----------------------------
(***************************************************************************)
(* udp_response: the future through which the outcome of an asynchronous   *)
(* operation passes from the io thread to the client's thread.             *)
(*                                                                         *)
(* The io thread stores the result and completes the response once; the    *)
(* client may give a UDP port to be notified on, wait for the result and   *)
(* ask for the error, in any order.  signal and set_signal_id exclude each *)
(* other by the mutex; the promise and the other members are not guarded.  *)
(***************************************************************************)
EXTENDS Integers, Sequences

CONSTANTS
    Ports,          \* UDP ports the client may name, none of them 0
    Errors,         \* outcomes: 0 for set_ready, other numbers for set_error
    MaxCalls        \* bound on the calls of the client

ASSUME ResponseAssumption ==
    /\ Ports \subseteq Nat \ {0}
    /\ Errors \subseteq Nat
    /\ MaxCalls \in Nat

VARIABLES
    io,             \* progress of the io thread
    outcome,        \* what it completes the response with
    result_str,     \* the outcome the stored result stands for, -1 before
    prom,           \* value of the promise, -1 before it is set
    error_val,
    their_id,
    deferred_signal,
    signals,        \* history: notifications sent, [to, error]
    client,         \* is the client's thread inside get_result?
    taken,          \* was the future retrieved?
    got,            \* history: what get_result returned, "exception" included
    calls           \* calls made by the client

vars == <<io, outcome, result_str, prom, error_val, their_id, deferred_signal,
          signals, client, taken, got, calls>>

Unset == -1
ErrorResult == -2   \* ERROR_RESULT

Init ==
    /\ io = "working"
    /\ outcome \in Errors
    /\ result_str = Unset
    /\ prom = Unset
    /\ error_val = 0
    /\ their_id = 0
    /\ deferred_signal = FALSE
    /\ signals = <<>>
    /\ client = "idle"
    /\ taken = FALSE
    /\ got = <<>>
    /\ calls = 0

send_signal(to, error) == signals' = Append(signals, [to |-> to, error |-> error])

-----------------------------------------------------------------------------
(* The io thread: set_result, then set_ready or set_error *)

SetResult ==
    /\ io = "working"
    /\ io' = "stored"
    /\ result_str' = outcome
    /\ UNCHANGED <<outcome, prom, error_val, their_id, deferred_signal,
                   signals, client, taken, got, calls>>

\* set_error: the promise is set,
SetValue ==
    /\ io = "stored"
    /\ io' = "ready"
    /\ prom' = outcome
    /\ UNCHANGED <<outcome, result_str, error_val, their_id, deferred_signal,
                   signals, client, taken, got, calls>>

\* Mutant: without a port to notify the signal is dropped.
Signal_Dropped ==
    /\ io = "ready"
    /\ io' = "done"
    /\ error_val' = outcome
    /\ IF their_id # 0 THEN send_signal(their_id, outcome) ELSE UNCHANGED signals
    /\ UNCHANGED <<outcome, result_str, prom, their_id, deferred_signal,
                   client, taken, got, calls>>

\* and then the client is notified, or will be once it has given a port.
Signal ==
    /\ io = "ready"
    /\ io' = "done"
    /\ error_val' = outcome
    /\ \/ /\ their_id # 0
          /\ send_signal(their_id, outcome)
          /\ UNCHANGED deferred_signal
       \/ /\ their_id = 0
          /\ deferred_signal' = TRUE
          /\ UNCHANGED signals
    /\ UNCHANGED <<outcome, result_str, prom, their_id, client, taken, got, calls>>

-----------------------------------------------------------------------------
(* The client's thread *)

Calls ==
    /\ client = "idle"
    /\ calls < MaxCalls
    /\ calls' = calls + 1

\* Mutant: the deferred signal is not reset.
SetSignalId_NoReset(port) ==
    /\ Calls
    /\ their_id' = port
    /\ IF deferred_signal THEN send_signal(port, error_val) ELSE UNCHANGED signals
    /\ UNCHANGED <<io, outcome, result_str, prom, error_val, deferred_signal,
                   client, taken, got>>

\* set_signal_id: a signal that was deferred is sent now.
SetSignalId(port) ==
    /\ Calls
    /\ their_id' = port
    /\ \/ deferred_signal /\ send_signal(port, error_val)
       \/ ~deferred_signal /\ UNCHANGED signals
    /\ deferred_signal' = FALSE
    /\ UNCHANGED <<io, outcome, result_str, prom, error_val, client, taken,
                   got>>

\* get_result: get_future, which throws if it was called before,
GetFuture ==
    /\ Calls
    /\ taken' = TRUE
    /\ \/ ~taken /\ client' = "waiting" /\ UNCHANGED got
       \/ taken /\ got' = Append(got, ErrorResult) /\ UNCHANGED client
    /\ UNCHANGED <<io, outcome, result_str, prom, error_val, their_id,
                   deferred_signal, signals>>

\* Mutant: the result is read without waiting for the promise.
GetResult_NoWait ==
    /\ client = "waiting"
    /\ client' = "idle"
    /\ got' = Append(got, result_str)
    /\ UNCHANGED <<io, outcome, result_str, prom, error_val, their_id,
                   deferred_signal, signals, taken, calls>>

\* and get(), which waits for the promise.
GetResult ==
    /\ client = "waiting"
    /\ prom # Unset
    /\ client' = "idle"
    /\ got' = Append(got, result_str)
    /\ UNCHANGED <<io, outcome, result_str, prom, error_val, their_id,
                   deferred_signal, signals, taken, calls>>

-----------------------------------------------------------------------------
IoThread == SetResult \/ SetValue \/ Signal

ClientThread ==
    (\E port \in Ports : SetSignalId(port)) \/ GetFuture \/ GetResult

Next == IoThread \/ ClientThread

\* set_error is straight-line code of a running io thread: once begun it ends.
\* That a response is completed at all is not assumed: a request that met a fatal
\* error, or a swarm without a status, leaves it uncompleted for good.
Fairness == WF_vars(SetValue \/ Signal)

Spec == Init /\ [][Next]_vars
FairSpec == Spec /\ Fairness

-----------------------------------------------------------------------------
(* Properties *)

\* The members of udp_response have their declared types: a notification goes to
\* a port the client named, never to port 0 (the assertion of send_signal).
TypeOK ==
    /\ io \in {"working", "stored", "ready", "done"}
    /\ outcome \in Errors
    /\ result_str \in Errors \cup {Unset} /\ prom \in Errors \cup {Unset}
    /\ error_val \in Errors \cup {0}
    /\ their_id \in Ports \cup {0}
    /\ deferred_signal \in BOOLEAN
    /\ signals \in Seq([to : Ports, error : Errors])
    /\ client \in {"idle", "waiting"}
    /\ taken \in BOOLEAN
    /\ got \in Seq(Errors \cup {Unset, ErrorResult})
    /\ calls \in 0 .. MaxCalls

\* The client is notified at most once, and when it is, get_result does not
\* block any more ("at which time get_result() will not block") and get_error
\* has the error the notification carries.
NotifiedOnceWhenReady ==
    /\ Len(signals) <= 1
    /\ signals # <<>> => /\ prom = outcome
                         /\ error_val = outcome
                         /\ signals[1].error = outcome

\* A client that gave a port is notified of a response the io thread completes,
\* whether it gave the port before, during or after the completion.
NotificationArrives == io # "working" /\ their_id # 0 ~> signals # <<>>

\* The first get_result returns the result of the operation, however it overlaps
\* with its completion; the future cannot be taken again, and a further call
\* returns the error result, never a result that is half stored.
ResultOnce ==
    \A i \in 1 .. Len(got) : got[i] = IF i = 1 THEN outcome ELSE ErrorResult
=============================================================================
