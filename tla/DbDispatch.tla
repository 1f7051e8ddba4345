----------------------------- MODULE DbDispatch -----------------------------
(***************************************************************************)
(* db_dispatch: numbers, sends and tracks database requests, collates the  *)
(* answers of the swarm, retries, and times requests out.                  *)
(*                                                                         *)
(* Two threads act on it.  The io thread runs every asio handler (received *)
(* messages, expired timers), one at a time.  send_message_to_swarm runs   *)
(* on the thread of its caller: the client's thread, or the io thread when *)
(* a handler issues a request (create_uuid from the callback of has_uuid). *)
(* Nothing is locked, so a call is four steps, cut where the other thread  *)
(* can see or change something: the load of next_nonce, its store together *)
(* with the arming of the timers, the insertion into messages, the send.   *)
(*                                                                         *)
(* messages is the set of requests whose msg_info is in the map; the key   *)
(* of a request is nonce[r], and Find(k) is messages.find(k).              *)
(*                                                                         *)
(* A timer is the set of its outstanding waits: "armed", and "queued" once *)
(* it has expired and its handler waits for the io thread.  Cancelling or  *)
(* destroying a timer drops an armed wait and leaves a queued one.         *)
(***************************************************************************)
EXTENDS Integers, FiniteSets

CONSTANTS
    Requests,       \* calls of send_message_to_swarm
    IoRequests,     \* those made by a handler, on the io thread
    QuickReads,     \* those sent with send_policy::fastest, the rest normal
    Nodes,          \* nodes of the swarm
    Faulty,         \* nodes that may answer anything
    Values,         \* contents of a database_response
    QuickValues,    \* those whose payload is a quick_read response
    Answer,         \* [Requests -> Values], what an honest node answers
    NoSender,       \* the empty sender of an envelope
    NoValue,        \* no response from this sender yet
    Timeout,        \* the "Request timeout" error response
    SwarmSizes,     \* sizes the node list of the swarm may have
    ErrorKinds,     \* the swarm errors nodes send
    EarlyExpiry,    \* may a timer expire before its request is stored?
    MaxSends        \* transmissions of one request are counted up to here

ASSUME DispatchAssumption ==
    /\ IoRequests \subseteq Requests /\ QuickReads \subseteq Requests
    /\ Faulty \subseteq Nodes /\ IsFiniteSet(Nodes)
    /\ QuickValues \subseteq Values /\ Answer \in [Requests -> Values]
    /\ NoSender \notin Nodes
    /\ NoValue \notin Values /\ Timeout \notin Values /\ NoValue # Timeout
    /\ SwarmSizes \subseteq Nat \ {0}
    /\ ErrorKinds \subseteq {"timestamp", "too_large", "too_busy", "duplicate"}
    /\ EarlyExpiry \in BOOLEAN
    /\ MaxSends \in Nat \ {0, 1}

VARIABLES
    next_nonce,     \* db_dispatch::next_nonce
    pc,             \* progress of each send_message_to_swarm
    nonce,          \* the nonce each call was given, 0 before
    responses_required,
    messages,       \* requests whose msg_info is stored
    responses,      \* msg_info::responses, by the sender the envelope names
    retry_timer,    \* waits of msg_info::retry_timer
    timeout_timer,  \* waits of msg_info::timeout_timer
    sends,          \* transmissions of each request
    duplicate,      \* history: requests a DUPLICATE error was handled for
    dropped,        \* history: requests erased by TIMESTAMP or TOO_LARGE
    replied,        \* history: <<node, value>> answers with a signature
    calls,          \* how often each handler was called
    answer,         \* what it was last called with
    crashed         \* "null": a null timer was dereferenced, "assert": an
                    \* assertion failed

vars == <<next_nonce, pc, nonce, responses_required, messages, responses,
          retry_timer, timeout_timer, sends, duplicate, dropped, replied,
          calls, answer, crashed>>

Phases == {"idle", "numbered", "armed", "stored", "sent"}
Waits == SUBSET {"armed", "queued"}
Senders == Nodes \cup {NoSender}
NoResponses == [s \in Senders |-> NoValue]

Init ==
    /\ next_nonce = 1
    /\ pc = [r \in Requests |-> "idle"]
    /\ nonce = [r \in Requests |-> 0]
    /\ responses_required = [r \in Requests |-> 0]
    /\ messages = {}
    /\ responses = [r \in Requests |-> NoResponses]
    /\ retry_timer = [r \in Requests |-> {}]
    /\ timeout_timer = [r \in Requests |-> {}]
    /\ sends = [r \in Requests |-> 0]
    /\ duplicate = {} /\ dropped = {}
    /\ replied = [r \in Requests |-> {}]
    /\ calls = [r \in Requests |-> 0]
    /\ answer = [r \in Requests |-> NoValue]
    /\ crashed = "no"

-----------------------------------------------------------------------------
(* Helpers *)

\* messages.find(k): a singleton, or empty for messages.end().
Find(k) == {r \in messages : nonce[r] = k}

\* Only the non-fastest policies are given a retry timer; the pointer of the
\* others stays null.
HasRetryTimer(r) == r \notin QuickReads

\* The retry timers of the requests R are used.
Dereferenced(R) == IF \E q \in R : ~HasRetryTimer(q) THEN "null" ELSE crashed

\* swarm::honest_majority_size for a list of n nodes.
honest_majority_size(n) == ((n - 1) \div 3) * 2 + 1

\* One more transmission, counted up to MaxSends.
Sent(s) == IF s < MaxSends THEN s + 1 ELSE s

InProgress(r) == pc[r] \in {"numbered", "armed", "stored"}
IoIdle == \A r \in IoRequests : ~InProgress(r)
ClientIdle == \A r \in Requests \ IoRequests : ~InProgress(r)

Disarm(timer, R) == [r \in Requests |->
    IF r \in R THEN timer[r] \ {"armed"} ELSE timer[r]]

\* The msg_info objects of R are destroyed: the waits of their timers are
\* aborted unless already queued, their responses are gone.
Release(R) ==
    /\ retry_timer' = Disarm(retry_timer, R)
    /\ responses' = [r \in Requests |->
            IF r \in R THEN NoResponses ELSE responses[r]]

\* Mutant: the message is left in the map once its handler was called.
Erase_KeepsMessage(r) ==
    /\ UNCHANGED messages
    /\ Release({r})
    /\ timeout_timer' = Disarm(timeout_timer, {r})

\* messages.erase(nonce) for the request r it finds.
Erase(r) ==
    /\ messages' = messages \ {r}
    /\ Release({r})
    /\ timeout_timer' = Disarm(timeout_timer, {r})

-----------------------------------------------------------------------------
(* send_message_to_swarm *)

\* The load of next_nonce++.  A request of the io thread is issued by the
\* handler of an earlier one.
ReadNonce(r) ==
    /\ crashed = "no"
    /\ pc[r] = "idle"
    /\ IF r \in IoRequests
       THEN IoIdle /\ \E q \in Requests : calls[q] > 0
       ELSE ClientIdle
    /\ pc' = [pc EXCEPT ![r] = "numbered"]
    /\ nonce' = [nonce EXCEPT ![r] = next_nonce]
    /\ UNCHANGED <<next_nonce, responses_required, messages, responses,
                   retry_timer, timeout_timer, sends, duplicate, dropped,
                   replied, calls, answer, crashed>>

\* The store of next_nonce++, setup_client_timeout and setup_request_policy.
SetupTimers(r) ==
    /\ crashed = "no"
    /\ pc[r] = "numbered"
    /\ pc' = [pc EXCEPT ![r] = "armed"]
    /\ next_nonce' = nonce[r] + 1
    /\ timeout_timer' = [timeout_timer EXCEPT ![r] = {"armed"}]
    /\ \/ /\ HasRetryTimer(r)
          /\ \E n \in SwarmSizes : responses_required' =
                [responses_required EXCEPT ![r] = honest_majority_size(n)]
          /\ retry_timer' = [retry_timer EXCEPT ![r] = {"armed"}]
       \/ /\ ~HasRetryTimer(r)
          /\ responses_required' = [responses_required EXCEPT ![r] = 1]
          /\ UNCHANGED retry_timer
    /\ UNCHANGED <<nonce, messages, responses, sends, duplicate, dropped,
                   replied, calls, answer, crashed>>

\* messages[nonce] = info: an entry under the same nonce is overwritten.
StoreInfo(r) ==
    /\ crashed = "no"
    /\ pc[r] = "armed"
    /\ pc' = [pc EXCEPT ![r] = "stored"]
    /\ messages' = (messages \ Find(nonce[r])) \cup {r}
    /\ Release(Find(nonce[r]))
    /\ timeout_timer' = Disarm(timeout_timer, Find(nonce[r]))
    /\ UNCHANGED <<next_nonce, nonce, responses_required, sends, duplicate,
                   dropped, replied, calls, answer, crashed>>

\* register_swarm_handler and swarm->send_request.
SendRequest(r) ==
    /\ crashed = "no"
    /\ pc[r] = "stored"
    /\ pc' = [pc EXCEPT ![r] = "sent"]
    /\ sends' = [sends EXCEPT ![r] = Sent(@)]
    /\ UNCHANGED <<next_nonce, nonce, responses_required, messages, responses,
                   retry_timer, timeout_timer, duplicate, dropped, replied,
                   calls, answer, crashed>>

-----------------------------------------------------------------------------
(* Timers *)

MayExpire(r) == EarlyExpiry \/ pc[r] \in {"stored", "sent"}

ExpireRetry(r) ==
    /\ crashed = "no"
    /\ "armed" \in retry_timer[r]
    /\ MayExpire(r)
    /\ retry_timer' = [retry_timer EXCEPT ![r] = {"queued"}]
    /\ UNCHANGED <<next_nonce, pc, nonce, responses_required, messages,
                   responses, timeout_timer, sends, duplicate, dropped,
                   replied, calls, answer, crashed>>

ExpireTimeout(r) ==
    /\ crashed = "no"
    /\ "armed" \in timeout_timer[r]
    /\ MayExpire(r)
    /\ timeout_timer' = [timeout_timer EXCEPT ![r] = {"queued"}]
    /\ UNCHANGED <<next_nonce, pc, nonce, responses_required, messages,
                   responses, retry_timer, sends, duplicate, dropped, replied,
                   calls, answer, crashed>>

\* Mutant: the retry timer is not re-armed.
HandleRequestTimeout_NoRearm(r) ==
    LET found == Find(nonce[r]) IN
    /\ crashed = "no"
    /\ IoIdle
    /\ "queued" \in retry_timer[r]
    /\ retry_timer' = [retry_timer EXCEPT ![r] = @ \ {"queued"}]
    /\ sends' = [q \in Requests |->
            IF q \in found THEN Sent(sends[q]) ELSE sends[q]]
    /\ crashed' = Dereferenced(found)
    /\ UNCHANGED <<next_nonce, pc, nonce, responses_required, messages,
                   responses, timeout_timer, duplicate, dropped, replied,
                   calls, answer>>

\* handle_request_timeout for the timer of r.  It looks its message up by
\* nonce, re-arms the retry timer it finds there and broadcasts; with no such
\* message it does nothing.
HandleRequestTimeout(r) ==
    LET found == Find(nonce[r]) IN
    /\ crashed = "no"
    /\ IoIdle
    /\ "queued" \in retry_timer[r]
    /\ retry_timer' = [q \in Requests |->
            (retry_timer[q] \ (IF q = r THEN {"queued"} ELSE {}))
                        \cup (IF q \in found THEN {"armed"} ELSE {})]
    /\ sends' = [q \in Requests |->
            IF q \in found THEN Sent(sends[q]) ELSE sends[q]]
    /\ crashed' = Dereferenced(found)
    /\ UNCHANGED <<next_nonce, pc, nonce, responses_required, messages,
                   responses, timeout_timer, duplicate, dropped, replied,
                   calls, answer>>

\* The wait handler of setup_client_timeout for the timer of r: the message
\* with the nonce of r is answered with the error "Request timeout" and erased.
HandleClientTimeout(r) ==
    LET found == Find(nonce[r]) IN
    /\ crashed = "no"
    /\ IoIdle
    /\ "queued" \in timeout_timer[r]
    /\ messages' = messages \ found
    /\ Release(found)
    /\ timeout_timer' = [q \in Requests |->
            timeout_timer[q] \ ((IF q = r THEN {"queued"} ELSE {})
                                 \cup (IF q \in found THEN {"armed"} ELSE {}))]
    /\ calls' = [q \in Requests |->
            IF q \in found THEN calls[q] + 1 ELSE calls[q]]
    /\ answer' = [q \in Requests |->
            IF q \in found THEN Timeout ELSE answer[q]]
    /\ UNCHANGED <<next_nonce, pc, nonce, responses_required, sends, duplicate,
                   dropped, replied, crashed>>

-----------------------------------------------------------------------------
(* Answers of the swarm.  Messages may be lost (no action), repeated and   *)
(* reordered.  One that carries a nonce not in messages, an unsigned one   *)
(* that needs a signature, and a TOO_BUSY error change nothing and are     *)
(* stuttering steps.  The swarm lets a message through whose sender is     *)
(* empty or on the node list and verifies a signature only if there is     *)
(* one, so the sender of an unsigned message is whatever its author wrote. *)

\* A node has received a request with the nonce of q: count transmissions of
\* it.
Transmitted(q, p, count) == nonce[p] = nonce[q] /\ sends[p] >= count

\* An honest node answers the request it got.  A faulty one answers anything
\* at any time, under its own name if it signs and under any name otherwise.
MayReply(s, q, v, signed) ==
    \/ signed /\ s \in Faulty
    \/ ~signed /\ Faulty # {}
    \/ /\ signed => s \in Nodes
       /\ \E p \in Requests : Transmitted(q, p, 1) /\ v = Answer[p]

\* An honest node reports an error on a request it got count times; nothing
\* keeps a faulty one from reporting it.
MayReport(q, count) ==
    Faulty # {} \/ \E p \in Requests : Transmitted(q, p, count)

\* Mutant: unsigned responses are accepted.
SignatureOk_Unsigned(v, signed) == signed \in BOOLEAN

\* A response needs a signature unless its own payload is a quick_read: the
\* request it answers is not looked at.
SignatureOk(v, signed) == v \in QuickValues \/ signed

Responded(resp) == {s \in Senders : resp[s] # NoValue}
Matching(resp, s) == {t \in Responded(resp) : resp[t] = resp[s]}

\* Mutant: responses are counted, matching or not.
qualify_response_CountsAll(q, resp, s) ==
    Cardinality(Responded(resp)) >= responses_required[q]

\* Mutant: one response too many is awaited.
qualify_response_OneMore(q, resp, s) ==
    Cardinality(Matching(resp, s)) > responses_required[q]

qualify_response(q, resp, s) ==
    /\ Cardinality(Responded(resp)) >= responses_required[q]
    /\ \/ responses_required[q] = 1
       \/ Cardinality(Matching(resp, s)) >= responses_required[q]

\* The assertion of qualify_response on a request that needs one response.
AssertSingle(q, resp) ==
    responses_required[q] = 1 => Cardinality(Responded(resp)) = 1

\* handle_swarm_response for the response v to the message q under sender s.
HandleSwarmResponse(q, s, v, signed) ==
    LET resp == [responses[q] EXCEPT ![s] = v] IN
    /\ crashed = "no"
    /\ IoIdle
    /\ q \in messages
    /\ MayReply(s, q, v, signed)
    /\ SignatureOk(v, signed)
    /\ replied' = [replied EXCEPT ![q] =
            IF signed /\ v \notin QuickValues THEN @ \cup {<<s, v>>} ELSE @]
    /\ crashed' = IF AssertSingle(q, resp) THEN crashed ELSE "assert"
    /\ \/ /\ qualify_response(q, resp, s)
          /\ calls' = [calls EXCEPT ![q] = @ + 1]
          /\ answer' = [answer EXCEPT ![q] = v]
          /\ Erase(q)
       \/ /\ ~qualify_response(q, resp, s)
          /\ responses' = [responses EXCEPT ![q] = resp]
          /\ UNCHANGED <<calls, answer, messages, retry_timer, timeout_timer>>
    /\ UNCHANGED <<next_nonce, pc, nonce, responses_required, sends, duplicate,
                   dropped>>

\* handle_swarm_error, TIMESTAMP and TOO_LARGE: the message is erased.
HandleFatalError(q) ==
    /\ crashed = "no"
    /\ IoIdle
    /\ q \in messages
    /\ ErrorKinds \cap {"timestamp", "too_large"} # {}
    /\ MayReport(q, 1)
    /\ dropped' = dropped \cup {q}
    /\ Erase(q)
    /\ UNCHANGED <<next_nonce, pc, nonce, responses_required, sends, duplicate,
                   replied, calls, answer, crashed>>

\* Mutant: the client timeout is cancelled in place of the retry.
HandleDuplicateError_WrongTimer(q) ==
    /\ crashed = "no"
    /\ IoIdle
    /\ q \in messages
    /\ "duplicate" \in ErrorKinds
    /\ MayReport(q, 2)
    /\ timeout_timer' = [timeout_timer EXCEPT ![q] = @ \ {"armed"}]
    /\ duplicate' = duplicate \cup {q}
    /\ UNCHANGED <<next_nonce, pc, nonce, responses_required, messages,
                   responses, retry_timer, sends, dropped, replied, calls,
                   answer, crashed>>

\* Mutant: a duplicate is treated as a fatal error.
HandleDuplicateError_Erases(q) ==
    /\ crashed = "no"
    /\ IoIdle
    /\ q \in messages
    /\ "duplicate" \in ErrorKinds
    /\ MayReport(q, 2)
    /\ Erase(q)
    /\ UNCHANGED <<next_nonce, pc, nonce, responses_required, sends, duplicate,
                   dropped, replied, calls, answer, crashed>>

\* handle_swarm_error, DUPLICATE: a node says it saw the request a second time.
\* The retry timer is cancelled, which cannot recall a queued handler; a quick
\* read has none.
HandleDuplicateError(q) ==
    /\ crashed = "no"
    /\ IoIdle
    /\ q \in messages
    /\ "duplicate" \in ErrorKinds
    /\ MayReport(q, 2)
    /\ retry_timer' = [retry_timer EXCEPT ![q] = @ \ {"armed"}]
    /\ duplicate' = duplicate \cup {q}
    /\ crashed' = Dereferenced({q})
    /\ UNCHANGED <<next_nonce, pc, nonce, responses_required, messages,
                   responses, timeout_timer, sends, dropped, replied, calls,
                   answer>>

-----------------------------------------------------------------------------
Send(r) == ReadNonce(r) \/ SetupTimers(r) \/ StoreInfo(r) \/ SendRequest(r)

Timers(r) ==
    \/ ExpireRetry(r) \/ HandleRequestTimeout(r)
    \/ ExpireTimeout(r) \/ HandleClientTimeout(r)

Swarm(r) ==
    \/ \E s \in Senders, v \in Values, signed \in BOOLEAN :
            HandleSwarmResponse(r, s, v, signed)
    \/ HandleFatalError(r)
    \/ HandleDuplicateError(r)

Next == \E r \in Requests : Send(r) \/ Timers(r) \/ Swarm(r)

\* A thread that is inside send_message_to_swarm goes on, the clock runs, and
\* the io thread gets to every expired timer.  Nobody has to issue a request
\* and no node has to answer.
Fairness ==
    \A r \in Requests :
        /\ WF_vars(SetupTimers(r)) /\ WF_vars(StoreInfo(r))
        /\ WF_vars(SendRequest(r))
        /\ WF_vars(ExpireTimeout(r)) /\ WF_vars(HandleClientTimeout(r))
        /\ WF_vars(ExpireRetry(r)) /\ WF_vars(HandleRequestTimeout(r))

Spec == Init /\ [][Next]_vars

FairSpec == Spec /\ Fairness

-----------------------------------------------------------------------------
(* Properties *)

\* The members of db_dispatch and of every msg_info have their declared types;
\* in particular a timer has at most one wait armed and one queued.
TypeOK ==
    /\ next_nonce \in Nat \ {0}
    /\ pc \in [Requests -> Phases]
    /\ nonce \in [Requests -> Nat]
    /\ responses_required \in [Requests -> Nat]
    /\ messages \subseteq Requests
    /\ responses \in [Requests -> [Senders -> Values \cup {NoValue}]]
    /\ retry_timer \in [Requests -> Waits]
    /\ timeout_timer \in [Requests -> Waits]
    /\ sends \in [Requests -> 0 .. MaxSends]
    /\ duplicate \subseteq Requests /\ dropped \subseteq Requests
    /\ replied \in [Requests -> SUBSET (Nodes \X (Values \ QuickValues))]
    /\ calls \in [Requests -> Nat]
    /\ answer \in [Requests -> Values \cup {NoValue, Timeout}]
    /\ crashed \in {"no", "null", "assert"}

\* A response and a timeout may race, a queued timer may outlive the message
\* it belongs to, responses arrive late: whatever the order, the handler of a
\* request is called at most once (async_database fulfils a promise in it,
\* which throws the second time).
HandlerAtMostOnce == \A r \in Requests : calls[r] <= 1

\* The nodes that signed v in answer to r.
Backers(r, v) == {n \in Nodes : <<n, v>> \in replied[r]}

\* A value other than a quick_read payload reaches the handler only if at least
\* responses_required distinct nodes signed exactly this value, however often
\* nodes repeat themselves or change their mind in between, and whatever comes
\* unsigned under their names.
QuorumBacked ==
    \A r \in Requests : answer[r] \in Values \ QuickValues =>
        Cardinality(Backers(r, answer[r])) >= responses_required[r]

\* While fewer nodes are faulty than must agree, a value other than a quick_read
\* payload that reaches the handler of a request is the answer of the honest
\* nodes to this request, and never their answer to another one.  (For a
\* quick_read payload one faulty node can supply every sender of a quorum.)
AgreedAnswer ==
    \A r \in Requests :
        /\ answer[r] \in Values \ QuickValues
        /\ Cardinality(Faulty) < responses_required[r]
        => answer[r] = Answer[r]

\* A request that was sent and whose handler was not called is tracked, so
\* that its answer or its timeout can still reach the handler ("sends and
\* tracks outgoing database requests"), unless a node declared it too old or
\* too large.
UnansweredTracked ==
    \A r \in Requests \ dropped :
        pc[r] = "sent" /\ calls[r] = 0 => r \in messages

\* Every tracked request has its client timeout ahead of it.
TrackedTimesOut == \A r \in messages : timeout_timer[r] # {}

\* A tracked request that must gather a majority has a retry ahead of it
\* unless a node said it already has the request.
TrackedRetries ==
    \A r \in messages \ QuickReads :
        r \in duplicate \/ retry_timer[r] # {}

\* The null retry timer of a quick read is used in one case only, when a node
\* falsely reports as DUPLICATE a quick read that was transmitted once; timers
\* and true reports, which find messages by nonce alone, never get to it.  The
\* assertion that a request with one required response has one never fails.
NoCrash ==
    \/ crashed = "no"
    \/ /\ crashed = "null"
       /\ \E q \in QuickReads \cap duplicate : sends[q] < 2

\* Every request that is issued is eventually answered, by the swarm or by its
\* timeout, even if no node ever answers.
EveryRequestAnswered ==
    \A r \in Requests : pc[r] # "idle" ~> calls[r] > 0

-----------------------------------------------------------------------------
(* Refinement: db_dispatch implements AsyncRequest.                        *)

phaseBar == [r \in Requests |->
    IF calls[r] > 0 THEN "answered"
    ELSE IF pc[r] = "idle" THEN "idle"
    ELSE IF r \in dropped \/ crashed # "no" THEN "abandoned" ELSE "pending"]

outcomeBar == [r \in Requests |->
    IF answer[r] = NoValue THEN <<>> ELSE <<answer[r]>>]

\* Every request may time out or get the honest answer.  With a faulty node a
\* quick read gets whatever the one node it asks says, and the others may get a
\* quick_read payload.
OutcomesOf == [r \in Requests |->
    {Timeout, Answer[r]} \cup (IF Faulty = {} THEN {}
                               ELSE IF r \in QuickReads THEN Values
                               ELSE QuickValues)]

\* Some error a node may report ends a request without an answer: TIMESTAMP
\* and TOO_LARGE, or a false DUPLICATE for a quick read.
MayAbandon ==
    \/ ErrorKinds \cap {"timestamp", "too_large"} # {}
    \/ "duplicate" \in ErrorKinds /\ QuickReads # {} /\ Faulty # {}

Abstract == INSTANCE AsyncRequest WITH
    phase <- phaseBar, outcome <- outcomeBar, Outcomes <- OutcomesOf,
    Abandonable <- MayAbandon

\* db_dispatch keeps the promise of AsyncRequest: at most one call of the
\* handler per request, with a legitimate answer or a timeout, and it comes
\* unless a reported error ends the request.
ImplementsAsyncRequest == Abstract!Spec
=============================================================================
