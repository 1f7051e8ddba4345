-------------------------- MODULE DbDispatchProofs --------------------------
(***************************************************************************)
(* Proofs about db_dispatch for every set of requests and nodes, every     *)
(* number of swarm sizes and every bound.                                  *)
(***************************************************************************)
EXTENDS DbDispatch, FiniteSetTheorems, TLAPS

\* The answer of honest_majority_size is a positive number for every non-empty
\* list of nodes.
LEMMA MajorityPositive ==
    ASSUME NEW n \in SwarmSizes
    PROVE  honest_majority_size(n) \in Nat /\ honest_majority_size(n) >= 1
  BY DispatchAssumption DEF honest_majority_size

\* Counting a transmission stays within the bound.
LEMMA SentType ==
    ASSUME NEW s \in 0 .. MaxSends
    PROVE  Sent(s) \in 0 .. MaxSends
  BY DispatchAssumption DEF Sent

\* Disarming keeps the type of a timer.
LEMMA DisarmType ==
    ASSUME NEW timer \in [Requests -> Waits], NEW R
    PROVE  Disarm(timer, R) \in [Requests -> Waits]
  BY DEF Disarm, Waits

\* Every step of db_dispatch preserves the type invariant.
LEMMA TypeStep == TypeOK /\ [Next]_vars => TypeOK'
<1> SUFFICES ASSUME TypeOK, [Next]_vars PROVE TypeOK'
  OBVIOUS
<1>1. ASSUME NEW r \in Requests, ReadNonce(r) PROVE TypeOK'
  BY <1>1 DEF ReadNonce, TypeOK, Phases
<1>2. ASSUME NEW r \in Requests, SetupTimers(r) PROVE TypeOK'
  <2>1. responses_required' \in [Requests -> Nat]
    <3>1. \A n \in SwarmSizes : honest_majority_size(n) \in Nat
      BY MajorityPositive
    <3>2. responses_required \in [Requests -> Nat]
      BY DEF TypeOK
    <3>3. \E k \in Nat : responses_required' = [responses_required EXCEPT ![r] = k]
      BY <1>2, <3>1 DEF SetupTimers
    <3> QED
      BY <3>2, <3>3
  <2>2. retry_timer' \in [Requests -> Waits]
    <3>1. retry_timer \in [Requests -> Waits] /\ {"armed"} \in Waits
      BY DEF TypeOK, Waits
    <3>2. \/ retry_timer' = [retry_timer EXCEPT ![r] = {"armed"}]
          \/ retry_timer' = retry_timer
      BY <1>2 DEF SetupTimers
    <3> QED
      BY <3>1, <3>2
  <2>3. timeout_timer' \in [Requests -> Waits]
    BY <1>2 DEF SetupTimers, TypeOK, Waits
  <2>4. /\ pc' \in [Requests -> Phases]
        /\ next_nonce' \in Nat \ {0}
    BY <1>2 DEF SetupTimers, TypeOK, Phases
  <2>5. UNCHANGED <<nonce, messages, responses, sends, duplicate, dropped, replied,
                    calls, answer, crashed>>
    BY <1>2 DEF SetupTimers
  <2> QED
    BY <2>1, <2>2, <2>3, <2>4, <2>5 DEF TypeOK
<1>3. ASSUME NEW r \in Requests, StoreInfo(r) PROVE TypeOK'
  <2>1. /\ retry_timer' \in [Requests -> Waits]
        /\ timeout_timer' \in [Requests -> Waits]
    BY <1>3, DisarmType DEF StoreInfo, Release, TypeOK
  <2>2. responses' \in [Requests -> [Senders -> Values \cup {NoValue}]]
    BY <1>3 DEF StoreInfo, Release, NoResponses, TypeOK
  <2>3. pc' \in [Requests -> Phases] /\ messages' \subseteq Requests
    BY <1>3 DEF StoreInfo, TypeOK, Phases
  <2>4. UNCHANGED <<next_nonce, nonce, responses_required, sends, duplicate, dropped,
                    replied, calls, answer, crashed>>
    BY <1>3 DEF StoreInfo
  <2> QED
    BY <2>1, <2>2, <2>3, <2>4 DEF TypeOK
<1>4. ASSUME NEW r \in Requests, SendRequest(r) PROVE TypeOK'
  BY <1>4, SentType DEF SendRequest, TypeOK, Phases
<1>5. ASSUME NEW r \in Requests, ExpireRetry(r) PROVE TypeOK'
  BY <1>5 DEF ExpireRetry, TypeOK, Waits
<1>6. ASSUME NEW r \in Requests, ExpireTimeout(r) PROVE TypeOK'
  BY <1>6 DEF ExpireTimeout, TypeOK, Waits
<1>7. ASSUME NEW r \in Requests, HandleRequestTimeout(r) PROVE TypeOK'
  <2>1. retry_timer' \in [Requests -> Waits]
    BY <1>7 DEF HandleRequestTimeout, TypeOK, Waits
  <2>2. sends' \in [Requests -> 0 .. MaxSends]
    BY <1>7, SentType DEF HandleRequestTimeout, TypeOK
  <2>3. crashed' \in {"no", "null", "assert"}
    BY <1>7 DEF HandleRequestTimeout, Dereferenced, TypeOK
  <2>4. UNCHANGED <<next_nonce, pc, nonce, responses_required, messages,
                    responses, timeout_timer, duplicate, dropped, replied, calls,
                    answer>>
    BY <1>7 DEF HandleRequestTimeout
  <2> QED
    BY <2>1, <2>2, <2>3, <2>4 DEF TypeOK
<1>8. ASSUME NEW r \in Requests, HandleClientTimeout(r) PROVE TypeOK'
  <2>1. retry_timer' \in [Requests -> Waits]
    BY <1>8, DisarmType DEF HandleClientTimeout, Release, TypeOK
  <2>2. timeout_timer' \in [Requests -> Waits]
    BY <1>8 DEF HandleClientTimeout, TypeOK, Waits
  <2>3. responses' \in [Requests -> [Senders -> Values \cup {NoValue}]]
    BY <1>8 DEF HandleClientTimeout, Release, NoResponses, TypeOK
  <2>4. /\ messages' \subseteq Requests
        /\ calls' \in [Requests -> Nat]
        /\ answer' \in [Requests -> Values \cup {NoValue, Timeout}]
    BY <1>8 DEF HandleClientTimeout, TypeOK
  <2>5. UNCHANGED <<next_nonce, pc, nonce, responses_required, sends,
                    duplicate, dropped, replied, crashed>>
    BY <1>8 DEF HandleClientTimeout
  <2> QED
    BY <2>1, <2>2, <2>3, <2>4, <2>5 DEF TypeOK
<1>9. ASSUME NEW q \in Requests, NEW s \in Senders, NEW v \in Values,
             NEW signed \in BOOLEAN, HandleSwarmResponse(q, s, v, signed)
      PROVE  TypeOK'
  <2>1. replied' \in [Requests -> SUBSET (Nodes \X (Values \ QuickValues))]
    <3>1. signed => s \in Nodes
      BY <1>9, DispatchAssumption DEF HandleSwarmResponse, MayReply
    <3> QED
      BY <1>9, <3>1 DEF HandleSwarmResponse, TypeOK
  <2>2. crashed' \in {"no", "null", "assert"}
    BY <1>9 DEF HandleSwarmResponse, TypeOK
  <2>3. UNCHANGED <<next_nonce, pc, nonce, responses_required, sends,
                    duplicate, dropped>>
    BY <1>9 DEF HandleSwarmResponse
  <2>4. CASE qualify_response(q, [responses[q] EXCEPT ![s] = v], s)
    <3>1. /\ Erase(q)
          /\ calls' = [calls EXCEPT ![q] = @ + 1]
          /\ answer' = [answer EXCEPT ![q] = v]
      BY <1>9, <2>4 DEF HandleSwarmResponse
    <3>2. /\ retry_timer' \in [Requests -> Waits]
          /\ timeout_timer' \in [Requests -> Waits]
          /\ responses' \in [Requests -> [Senders -> Values \cup {NoValue}]]
          /\ messages' \subseteq Requests
      BY <3>1, DisarmType DEF Erase, Release, NoResponses, TypeOK
    <3>3. /\ calls' \in [Requests -> Nat]
          /\ answer' \in [Requests -> Values \cup {NoValue, Timeout}]
      BY <3>1 DEF TypeOK
    <3> QED
      BY <2>1, <2>2, <2>3, <3>2, <3>3 DEF TypeOK
  <2>5. CASE ~qualify_response(q, [responses[q] EXCEPT ![s] = v], s)
    <3>1. /\ responses' = [responses EXCEPT ![q] = [responses[q] EXCEPT ![s] = v]]
          /\ UNCHANGED <<calls, answer, messages, retry_timer, timeout_timer>>
      BY <1>9, <2>5 DEF HandleSwarmResponse
    <3>2. responses' \in [Requests -> [Senders -> Values \cup {NoValue}]]
      BY <3>1 DEF TypeOK
    <3> QED
      BY <2>1, <2>2, <2>3, <3>1, <3>2 DEF TypeOK
  <2> QED
    BY <2>4, <2>5
<1>10. ASSUME NEW q \in Requests, HandleFatalError(q) PROVE TypeOK'
  <2>1. Erase(q)
    BY <1>10 DEF HandleFatalError
  <2>2. /\ retry_timer' \in [Requests -> Waits]
        /\ timeout_timer' \in [Requests -> Waits]
        /\ responses' \in [Requests -> [Senders -> Values \cup {NoValue}]]
        /\ messages' \subseteq Requests
    BY <2>1, DisarmType DEF Erase, Release, NoResponses, TypeOK
  <2>3. /\ UNCHANGED <<next_nonce, pc, nonce, responses_required, sends,
                       duplicate, replied, calls, answer, crashed>>
        /\ dropped' = dropped \cup {q}
    BY <1>10 DEF HandleFatalError
  <2> QED
    BY <2>2, <2>3 DEF TypeOK
<1>11. ASSUME NEW q \in Requests, HandleDuplicateError(q) PROVE TypeOK'
  BY <1>11 DEF HandleDuplicateError, Dereferenced, TypeOK, Waits
<1>12. CASE UNCHANGED vars
  BY <1>12 DEF vars, TypeOK
<1> QED
  BY <1>1, <1>2, <1>3, <1>4, <1>5, <1>6, <1>7, <1>8, <1>9, <1>10, <1>11, <1>12
  DEF Next, Send, Timers, Swarm

\* Every variable of db_dispatch keeps its type, whatever the threads, the
\* timers and the nodes do.
THEOREM TypeCorrect == Spec => []TypeOK
<1>1. Init => TypeOK
  <2> SUFFICES ASSUME Init PROVE TypeOK
    OBVIOUS
  <2>1. 0 \in 0 .. MaxSends
    BY DispatchAssumption
  <2>2. crashed \in {"no", "null", "assert"}
    BY DEF Init
  <2> QED
    BY <2>1, <2>2 DEF Init, TypeOK, Phases, Waits, NoResponses
<1> QED
  BY <1>1, TypeStep, PTL DEF Spec

-----------------------------------------------------------------------------
(* The life of a request.                                                  *)

\* A request is in messages only between its insertion and the call of its
\* handler or a fatal error, is never called before it was stored, and a dropped
\* one never comes back.
Lifecycle ==
    \A r \in Requests :
        /\ r \in messages => pc[r] \in {"stored", "sent"} /\ calls[r] = 0
        /\ pc[r] \in {"idle", "numbered", "armed"} => calls[r] = 0
        /\ calls[r] <= 1
        /\ calls[r] = 0 => answer[r] = NoValue
        /\ r \in dropped => /\ pc[r] \in {"stored", "sent"} /\ r \notin messages
                            /\ calls[r] = 0

\* Every step of db_dispatch preserves Lifecycle.
LEMMA LifecycleStep == TypeOK /\ Lifecycle /\ [Next]_vars => Lifecycle'
<1> SUFFICES ASSUME TypeOK, Lifecycle, [Next]_vars PROVE Lifecycle'
  OBVIOUS
<1> USE DispatchAssumption DEF TypeOK, Lifecycle
<1>1. ASSUME NEW r \in Requests, ReadNonce(r) PROVE Lifecycle'
  BY <1>1 DEF ReadNonce
<1>2. ASSUME NEW r \in Requests, SetupTimers(r) PROVE Lifecycle'
  BY <1>2 DEF SetupTimers
<1>3. ASSUME NEW r \in Requests, StoreInfo(r) PROVE Lifecycle'
  BY <1>3 DEF StoreInfo, Find
<1>4. ASSUME NEW r \in Requests, SendRequest(r) PROVE Lifecycle'
  BY <1>4 DEF SendRequest
<1>5. ASSUME NEW r \in Requests, ExpireRetry(r) PROVE Lifecycle'
  BY <1>5 DEF ExpireRetry
<1>6. ASSUME NEW r \in Requests, ExpireTimeout(r) PROVE Lifecycle'
  BY <1>6 DEF ExpireTimeout
<1>7. ASSUME NEW r \in Requests, HandleRequestTimeout(r) PROVE Lifecycle'
  BY <1>7 DEF HandleRequestTimeout
<1>8. ASSUME NEW r \in Requests, HandleClientTimeout(r) PROVE Lifecycle'
  BY <1>8 DEF HandleClientTimeout, Find
<1>9. ASSUME NEW q \in Requests, NEW s \in Senders, NEW v \in Values,
             NEW signed \in BOOLEAN, HandleSwarmResponse(q, s, v, signed)
      PROVE  Lifecycle'
  BY <1>9 DEF HandleSwarmResponse, Erase
<1>10. ASSUME NEW q \in Requests, HandleFatalError(q) PROVE Lifecycle'
  BY <1>10 DEF HandleFatalError, Erase
<1>11. ASSUME NEW q \in Requests, HandleDuplicateError(q) PROVE Lifecycle'
  BY <1>11 DEF HandleDuplicateError
<1>12. CASE UNCHANGED vars
  BY <1>12 DEF vars
<1> QED
  BY <1>1, <1>2, <1>3, <1>4, <1>5, <1>6, <1>7, <1>8, <1>9, <1>10, <1>11, <1>12
  DEF Next, Send, Timers, Swarm

\* Lifecycle holds in every reachable state.
THEOREM LifecycleInvariant == Spec => []Lifecycle
<1>1. Init => Lifecycle
  BY DEF Init, Lifecycle
<1> QED
  BY <1>1, LifecycleStep, TypeCorrect, PTL DEF Spec

\* The handler of a request is called at most once: by a response, by its
\* timeout, by the timer of another request with the same nonce, never twice.
THEOREM AtMostOnce == Spec => []HandlerAtMostOnce
<1>1. Lifecycle => HandlerAtMostOnce
  BY DEF Lifecycle, HandlerAtMostOnce
<1> QED
  BY <1>1, LifecycleInvariant, PTL

-----------------------------------------------------------------------------
(* Timeouts and retries.                                                   *)

\* Between arming and insertion the timer of a request is still armed, which
\* is what carries TrackedTimesOut through the insertion.
TimeoutAhead ==
    /\ \A r \in Requests : pc[r] = "armed" => timeout_timer[r] = {"armed"}
    /\ TrackedTimesOut

\* Every step preserves TimeoutAhead if no timer expires before line 54.
LEMMA TimeoutAheadStep ==
    ASSUME EarlyExpiry = FALSE
    PROVE  TypeOK /\ Lifecycle /\ TimeoutAhead /\ [Next]_vars => TimeoutAhead'
<1> SUFFICES ASSUME TypeOK, Lifecycle, TimeoutAhead, [Next]_vars
             PROVE  TimeoutAhead'
  OBVIOUS
<1> USE DispatchAssumption DEF TypeOK, Lifecycle, TimeoutAhead, TrackedTimesOut, Waits
<1>1. ASSUME NEW r \in Requests, ReadNonce(r) PROVE TimeoutAhead'
  BY <1>1 DEF ReadNonce
<1>2. ASSUME NEW r \in Requests, SetupTimers(r) PROVE TimeoutAhead'
  BY <1>2 DEF SetupTimers
<1>3. ASSUME NEW r \in Requests, StoreInfo(r) PROVE TimeoutAhead'
  <2> DEFINE old == Find(nonce[r])
  <2>1. /\ messages' = (messages \ old) \cup {r}
        /\ timeout_timer' = Disarm(timeout_timer, old)
        /\ pc' = [pc EXCEPT ![r] = "stored"]
        /\ pc[r] = "armed"
    BY <1>3 DEF StoreInfo
  <2>2. old \subseteq messages /\ r \notin messages
    BY <2>1 DEF Find
  <2>3. \A q \in Requests : q \notin old => timeout_timer'[q] = timeout_timer[q]
    BY <2>1 DEF Disarm
  <2> HIDE DEF old
  <2>4. ASSUME NEW q \in Requests, pc'[q] = "armed"
        PROVE  timeout_timer'[q] = {"armed"}
    <3>1. pc[q] = "armed"
      BY <2>1, <2>4
    <3>2. q \notin old
      BY <2>2, <3>1
    <3> QED
      BY <2>3, <3>1, <3>2
  <2>5. ASSUME NEW q \in messages' PROVE timeout_timer'[q] # {}
    <3>1. q \in Requests /\ q \notin old
      BY <2>1, <2>2
    <3>2. CASE q = r
      <4>1. timeout_timer[q] = {"armed"}
        BY <2>1, <3>2
      <4> QED
        BY <2>3, <3>1, <4>1
    <3>3. CASE q \in messages
      <4>1. timeout_timer[q] # {}
        BY <3>3
      <4> QED
        BY <2>3, <3>1, <4>1
    <3> QED
      BY <2>1, <3>2, <3>3
  <2> QED
    BY <2>4, <2>5
<1>4. ASSUME NEW r \in Requests, SendRequest(r) PROVE TimeoutAhead'
  BY <1>4 DEF SendRequest
<1>5. ASSUME NEW r \in Requests, ExpireRetry(r) PROVE TimeoutAhead'
  BY <1>5 DEF ExpireRetry
<1>6. ASSUME NEW r \in Requests, ExpireTimeout(r) PROVE TimeoutAhead'
  BY <1>6 DEF ExpireTimeout, MayExpire
<1>7. ASSUME NEW r \in Requests, HandleRequestTimeout(r) PROVE TimeoutAhead'
  BY <1>7 DEF HandleRequestTimeout
<1>8. ASSUME NEW r \in Requests, HandleClientTimeout(r) PROVE TimeoutAhead'
  <2> DEFINE found == Find(nonce[r])
  <2>1. /\ UNCHANGED pc /\ messages' = messages \ found
        /\ \A q \in Requests : timeout_timer'[q] = timeout_timer[q] \
                ((IF q = r THEN {"queued"} ELSE {})
                    \cup (IF q \in found THEN {"armed"} ELSE {}))
    BY <1>8 DEF HandleClientTimeout
  <2>2. found \subseteq messages /\ (r \in messages => r \in found)
    BY DEF Find
  <2> HIDE DEF found
  <2>3. ASSUME NEW q \in Requests, pc'[q] = "armed"
        PROVE  timeout_timer'[q] = {"armed"}
    <3>1. q \notin found /\ timeout_timer[q] = {"armed"}
      BY <2>1, <2>2, <2>3
    <3> QED
      BY <2>1, <3>1
  <2>4. ASSUME NEW q \in messages' PROVE timeout_timer'[q] # {}
    <3>1. q \in messages /\ q \notin found /\ q # r
      BY <2>1, <2>2, <2>4
    <3> QED
      BY <2>1, <3>1
  <2> QED
    BY <2>3, <2>4
<1>9. ASSUME NEW q \in Requests, NEW s \in Senders, NEW v \in Values,
             NEW signed \in BOOLEAN, HandleSwarmResponse(q, s, v, signed)
      PROVE  TimeoutAhead'
  <2>1. /\ UNCHANGED pc /\ q \in messages
        /\ \/ /\ messages' = messages \ {q}
              /\ timeout_timer' = Disarm(timeout_timer, {q})
           \/ UNCHANGED <<messages, timeout_timer>>
    BY <1>9 DEF HandleSwarmResponse, Erase
  <2>2. \A p \in Requests : p # q => timeout_timer'[p] = timeout_timer[p]
    BY <2>1 DEF Disarm
  <2> QED
    BY <2>1, <2>2
<1>10. ASSUME NEW q \in Requests, HandleFatalError(q) PROVE TimeoutAhead'
  BY <1>10 DEF HandleFatalError, Erase, Disarm
<1>11. ASSUME NEW q \in Requests, HandleDuplicateError(q) PROVE TimeoutAhead'
  BY <1>11 DEF HandleDuplicateError
<1>12. CASE UNCHANGED vars
  BY <1>12 DEF vars
<1> HIDE DEF TypeOK, Lifecycle, TimeoutAhead, TrackedTimesOut, Waits
<1> QED
  BY <1>1, <1>2, <1>3, <1>4, <1>5, <1>6, <1>7, <1>8, <1>9, <1>10, <1>11, <1>12
  DEF Next, Send, Timers, Swarm

\* A tracked request always has its client timeout ahead of it, with any
\* number of requests on both threads, provided that no timer expires before
\* its request is stored.
THEOREM TimeoutNeverLost ==
    ASSUME EarlyExpiry = FALSE
    PROVE  Spec => []TrackedTimesOut
<1>1. Init => TimeoutAhead
  BY DEF Init, TimeoutAhead, TrackedTimesOut
<1>2. TypeOK /\ Lifecycle /\ TimeoutAhead /\ [Next]_vars => TimeoutAhead'
  BY TimeoutAheadStep
<1>3. TimeoutAhead => TrackedTimesOut
  BY DEF TimeoutAhead
<1> QED
  BY <1>1, <1>2, <1>3, TypeCorrect, LifecycleInvariant, PTL DEF Spec

-----------------------------------------------------------------------------
(* Quorums.                                                                *)

\* Every stored response that is not a quick_read payload was signed by the
\* node it is filed under.
ResponsesHeard ==
    \A r \in Requests, s \in Senders :
        responses[r][s] \in Values \ QuickValues
            => s \in Nodes /\ <<s, responses[r][s]>> \in replied[r]

\* The responses to q with the response v of sender s filed.
Filed(q, s, v) == [responses[q] EXCEPT ![s] = v]

\* What a handled response leaves behind: unless it is a quick_read payload its
\* sender is a node and a backer of its value, and every stored response is
\* still accounted for.
LEMMA ResponseRecorded ==
    ASSUME TypeOK, ResponsesHeard,
           NEW q \in Requests, NEW s \in Senders, NEW v \in Values,
           NEW signed \in BOOLEAN, HandleSwarmResponse(q, s, v, signed)
    PROVE  /\ \/ v \in QuickValues /\ UNCHANGED replied
              \/ /\ v \notin QuickValues /\ s \in Nodes /\ signed
                 /\ replied' = [replied EXCEPT ![q] = @ \cup {<<s, v>>}]
           /\ Filed(q, s, v) \in [Senders -> Values \cup {NoValue}]
           /\ Filed(q, s, v)[s] = v
           /\ \A t \in Senders : Filed(q, s, v)[t] \in Values \ QuickValues
                    => t \in Nodes /\ <<t, Filed(q, s, v)[t]>> \in replied'[q]
<1> DEFINE resp == Filed(q, s, v)
<1>1. \/ v \in QuickValues /\ UNCHANGED replied
      \/ /\ v \notin QuickValues /\ s \in Nodes /\ signed
         /\ replied' = [replied EXCEPT ![q] = @ \cup {<<s, v>>}]
  <2>1. v \in QuickValues \/ signed
    BY DEF HandleSwarmResponse, SignatureOk
  <2>2. signed => s \in Nodes
    BY DispatchAssumption DEF HandleSwarmResponse, MayReply
  <2>3. replied' = [replied EXCEPT ![q] =
            IF signed /\ v \notin QuickValues THEN @ \cup {<<s, v>>} ELSE @]
    BY DEF HandleSwarmResponse
  <2>4. CASE v \in QuickValues
    BY <2>3, <2>4 DEF TypeOK
  <2>5. CASE v \notin QuickValues
    BY <2>1, <2>2, <2>3, <2>5
  <2> QED
    BY <2>4, <2>5
<1>2. resp \in [Senders -> Values \cup {NoValue}] /\ resp[s] = v
  BY DEF TypeOK, Filed
<1>3. ASSUME NEW t \in Senders, resp[t] \in Values \ QuickValues
      PROVE  t \in Nodes /\ <<t, resp[t]>> \in replied'[q]
  <2>1. CASE t = s
    BY <1>1, <1>2, <1>3, <2>1 DEF TypeOK
  <2>2. CASE t # s
    <3>1. resp[t] = responses[q][t]
      BY <2>2 DEF TypeOK, Filed
    <3>2. t \in Nodes /\ <<t, resp[t]>> \in replied[q]
      BY <1>3, <3>1 DEF ResponsesHeard
    <3> QED
      BY <1>1, <3>2 DEF TypeOK
  <2> QED
    BY <2>1, <2>2
<1> QED
  BY <1>1, <1>2, <1>3

\* A response that qualifies and is not a quick_read payload is backed by the
\* required number of nodes.
LEMMA QualifiedIsBacked ==
    ASSUME TypeOK, ResponsesHeard,
           NEW q \in Requests, NEW s \in Senders, NEW v \in Values \ QuickValues,
           NEW signed \in BOOLEAN, HandleSwarmResponse(q, s, v, signed),
           qualify_response(q, Filed(q, s, v), s)
    PROVE  Cardinality({m \in Nodes : <<m, v>> \in replied'[q]})
                >= responses_required[q]
<1> DEFINE resp == Filed(q, s, v)
           backers == {m \in Nodes : <<m, v>> \in replied'[q]}
<1>1. /\ replied' = [replied EXCEPT ![q] = @ \cup {<<s, v>>}] /\ s \in Nodes
      /\ resp \in [Senders -> Values \cup {NoValue}] /\ resp[s] = v
      /\ \A t \in Senders : resp[t] \in Values \ QuickValues
            => t \in Nodes /\ <<t, resp[t]>> \in replied'[q]
  BY ResponseRecorded
<1>2. qualify_response(q, resp, s)
  OBVIOUS
<1>3. responses_required[q] \in Nat
  BY DEF TypeOK
<1> HIDE DEF resp
<1>4. IsFiniteSet(backers) /\ Cardinality(backers) \in Nat
  BY DispatchAssumption, FS_Subset, FS_CardinalityType
<1>5. CASE responses_required[q] = 1
  <2>1. s \in backers
    BY <1>1 DEF TypeOK
  <2>2. {s} \subseteq backers /\ Cardinality({s}) = 1
    BY <2>1, FS_Singleton
  <2>3. Cardinality({s}) <= Cardinality(backers)
    BY <1>4, <2>2, FS_Subset
  <2> QED
    BY <1>4, <1>5, <2>2, <2>3
<1>6. CASE Cardinality(Matching(resp, s)) >= responses_required[q]
  <2>1. Matching(resp, s) \subseteq backers
    BY <1>1 DEF Matching, Responded
  <2>2. /\ Cardinality(Matching(resp, s)) <= Cardinality(backers)
        /\ Cardinality(Matching(resp, s)) \in Nat
    BY <1>4, <2>1, FS_Subset, FS_CardinalityType
  <2> QED
    BY <1>3, <1>4, <1>6, <2>2
<1> QED
  BY <1>2, <1>5, <1>6 DEF qualify_response

\* Every step preserves ResponsesHeard and QuorumBacked.
LEMMA QuorumStep ==
    TypeOK /\ Lifecycle /\ ResponsesHeard /\ QuorumBacked /\ [Next]_vars
        => ResponsesHeard' /\ QuorumBacked'
<1> DEFINE Goal == ResponsesHeard' /\ QuorumBacked'
<1> SUFFICES ASSUME TypeOK, Lifecycle, ResponsesHeard, QuorumBacked, [Next]_vars
             PROVE  Goal
  OBVIOUS
<1>1. ASSUME UNCHANGED <<replied, answer, responses_required>>,
             \/ UNCHANGED responses
             \/ \E R \in SUBSET Requests : responses' = [r \in Requests |->
                    IF r \in R THEN NoResponses ELSE responses[r]]
      PROVE  Goal
  <2>1. ResponsesHeard'
    BY <1>1, DispatchAssumption DEF ResponsesHeard, NoResponses, TypeOK
  <2>2. QuorumBacked'
    BY <1>1 DEF QuorumBacked, Backers
  <2> QED
    BY <2>1, <2>2
<1>2. ASSUME NEW r \in Requests, SetupTimers(r) PROVE Goal
  <2>1. UNCHANGED <<replied, answer, responses>>
    BY <1>2 DEF SetupTimers
  <2>2. answer[r] \notin Values
    BY <1>2, DispatchAssumption DEF SetupTimers, Lifecycle
  <2>3. \A q \in Requests : q # r
            => responses_required'[q] = responses_required[q]
    BY <1>2 DEF SetupTimers, TypeOK
  <2>4. ResponsesHeard'
    BY <2>1 DEF ResponsesHeard
  <2>5. QuorumBacked'
    BY <2>1, <2>2, <2>3 DEF QuorumBacked, Backers
  <2> QED
    BY <2>4, <2>5
<1>3. ASSUME NEW r \in Requests, HandleClientTimeout(r) PROVE Goal
  <2> DEFINE found == Find(nonce[r])
  <2>1. /\ UNCHANGED <<replied, responses_required>>
        /\ responses' = [q \in Requests |->
                IF q \in found THEN NoResponses ELSE responses[q]]
        /\ answer' = [q \in Requests |->
                IF q \in found THEN Timeout ELSE answer[q]]
    BY <1>3 DEF HandleClientTimeout, Release
  <2> HIDE DEF found
  <2>2. ResponsesHeard'
    BY <2>1, DispatchAssumption DEF ResponsesHeard, NoResponses, TypeOK
  <2>3. QuorumBacked'
    BY <2>1, DispatchAssumption DEF QuorumBacked, Backers
  <2> QED
    BY <2>2, <2>3
<1>4. ASSUME NEW q \in Requests, NEW s \in Senders, NEW v \in Values,
             NEW signed \in BOOLEAN, HandleSwarmResponse(q, s, v, signed)
      PROVE  Goal
  <2> DEFINE resp == Filed(q, s, v)
  <2>1. /\ \A r \in Requests : r # q => replied'[r] = replied[r]
        /\ resp \in [Senders -> Values \cup {NoValue}] /\ resp[s] = v
        /\ \A t \in Senders : resp[t] \in Values \ QuickValues
                => t \in Nodes /\ <<t, resp[t]>> \in replied'[q]
    <3>1. \A r \in Requests : r # q => replied'[r] = replied[r]
      BY <1>4 DEF HandleSwarmResponse, TypeOK
    <3> QED
      BY <1>4, <3>1, ResponseRecorded
  <2>2. /\ UNCHANGED responses_required
        /\ answer[q] \notin Values
    BY <1>4, DispatchAssumption DEF HandleSwarmResponse, Lifecycle
  <2>3. CASE qualify_response(q, resp, s)
    <3>1. /\ answer' = [answer EXCEPT ![q] = v]
          /\ responses' = [r \in Requests |->
                IF r \in {q} THEN NoResponses ELSE responses[r]]
      BY <1>4, <2>3 DEF Filed, HandleSwarmResponse, Erase, Release
    <3>2. v \notin QuickValues =>
            Cardinality({m \in Nodes : <<m, v>> \in replied'[q]})
                >= responses_required[q]
      BY <1>4, <2>3, QualifiedIsBacked
    <3> HIDE DEF resp
    <3>3. ResponsesHeard'
      BY <2>1, <3>1, DispatchAssumption DEF ResponsesHeard, NoResponses, TypeOK
    <3>4. ASSUME NEW r \in Requests, answer'[r] \in Values \ QuickValues
          PROVE  Cardinality({m \in Nodes : <<m, answer'[r]>> \in replied'[r]})
                    >= responses_required'[r]
      <4>1. CASE r = q
        BY <2>2, <3>1, <3>2, <3>4, <4>1 DEF TypeOK
      <4>2. CASE r # q
        BY <2>1, <2>2, <3>1, <3>4, <4>2 DEF QuorumBacked, Backers, TypeOK
      <4> QED
        BY <4>1, <4>2
    <3> QED
      BY <3>3, <3>4 DEF QuorumBacked, Backers
  <2>4. CASE ~qualify_response(q, resp, s)
    <3>1. UNCHANGED answer /\ responses' = [responses EXCEPT ![q] = resp]
      BY <1>4, <2>4 DEF HandleSwarmResponse, Filed
    <3> HIDE DEF resp
    <3>2. ResponsesHeard'
      BY <2>1, <3>1 DEF ResponsesHeard, TypeOK
    <3>3. QuorumBacked'
      BY <2>1, <2>2, <3>1 DEF QuorumBacked, Backers, TypeOK
    <3> QED
      BY <3>2, <3>3
  <2> QED
    BY <2>3, <2>4
<1>5. ASSUME NEW r \in Requests, Send(r), ~SetupTimers(r) PROVE Goal
  <2>1. Find(nonce[r]) \in SUBSET Requests
    BY DEF Find, TypeOK
  <2> QED
    BY <1>1, <1>5, <2>1 DEF Send, ReadNonce, StoreInfo, Release, SendRequest
<1>6. ASSUME NEW r \in Requests,
             ExpireRetry(r) \/ ExpireTimeout(r) \/ HandleRequestTimeout(r)
      PROVE  Goal
  BY <1>1, <1>6 DEF ExpireRetry, ExpireTimeout, HandleRequestTimeout
<1>7. ASSUME NEW q \in Requests, HandleFatalError(q) PROVE Goal
  <2>1. {q} \in SUBSET Requests
    OBVIOUS
  <2> QED
    BY <1>1, <1>7, <2>1 DEF HandleFatalError, Erase, Release
<1>8. ASSUME NEW q \in Requests, HandleDuplicateError(q) PROVE Goal
  BY <1>1, <1>8 DEF HandleDuplicateError
<1>9. CASE UNCHANGED vars
  BY <1>1, <1>9 DEF vars
<1> HIDE DEF Goal
<1> QED
  BY <1>2, <1>3, <1>4, <1>5, <1>6, <1>7, <1>8, <1>9 DEF Next, Timers, Swarm

\* A value other than a quick_read payload that reaches a handler was signed by
\* as many distinct nodes as the request requires: repeated, late, contradictory
\* and unsigned responses never make up its quorum, and neither does a nonce
\* used twice, with any number of faulty nodes.
THEOREM QuorumAlwaysBacked == Spec => []QuorumBacked
<1>1. Init => ResponsesHeard /\ QuorumBacked
  BY DispatchAssumption DEF Init, ResponsesHeard, QuorumBacked, NoResponses
<1> QED
  BY <1>1, QuorumStep, TypeCorrect, LifecycleInvariant, PTL DEF Spec

-----------------------------------------------------------------------------
(* Nonces and the honest answer, when only the client thread issues        *)
(* requests.                                                               *)

\* With one thread the nonces count up: a call in progress is alone, and the
\* nonces that were handed out are below next_nonce and pairwise different.
Nonces ==
    /\ \A r \in Requests :
        /\ pc[r] = "idle" => nonce[r] = 0
        /\ pc[r] # "idle" => nonce[r] > 0
        /\ pc[r] = "numbered" => nonce[r] = next_nonce
        /\ pc[r] \in {"armed", "stored", "sent"} => nonce[r] < next_nonce
    /\ \A r, q \in Requests : InProgress(r) /\ InProgress(q) => r = q
    /\ \A r, q \in Requests :
        pc[r] # "idle" /\ pc[q] # "idle" /\ nonce[r] = nonce[q] => r = q

\* Every step preserves Nonces when no handler issues requests.
LEMMA NoncesStep ==
    ASSUME IoRequests = {}
    PROVE  TypeOK /\ Nonces /\ [Next]_vars => Nonces'
<1> SUFFICES ASSUME TypeOK, Nonces, [Next]_vars PROVE Nonces'
  OBVIOUS
<1>1. ASSUME UNCHANGED <<next_nonce, pc, nonce>> PROVE Nonces'
  BY <1>1 DEF Nonces, InProgress
<1>2. ASSUME NEW r \in Requests, ReadNonce(r) PROVE Nonces'
  <2>1. /\ pc[r] = "idle" /\ pc' = [pc EXCEPT ![r] = "numbered"]
        /\ nonce' = [nonce EXCEPT ![r] = next_nonce]
        /\ UNCHANGED next_nonce
        /\ \A q \in Requests : ~InProgress(q)
    BY <1>2 DEF ReadNonce, ClientIdle
  <2> QED
    BY <2>1 DEF Nonces, InProgress, TypeOK, Phases
<1>3. ASSUME NEW r \in Requests, SetupTimers(r) PROVE Nonces'
  <2>1. /\ pc[r] = "numbered" /\ pc' = [pc EXCEPT ![r] = "armed"]
        /\ next_nonce' = nonce[r] + 1
        /\ UNCHANGED nonce
    BY <1>3 DEF SetupTimers
  <2> QED
    BY <2>1 DEF Nonces, InProgress, TypeOK, Phases
<1>4. ASSUME NEW r \in Requests, StoreInfo(r) \/ SendRequest(r) PROVE Nonces'
  <2>1. /\ pc[r] \in {"armed", "stored"}
        /\ \E p \in {"stored", "sent"} : pc' = [pc EXCEPT ![r] = p]
        /\ UNCHANGED <<next_nonce, nonce>>
    BY <1>4 DEF StoreInfo, SendRequest
  <2> QED
    BY <2>1 DEF Nonces, InProgress, TypeOK, Phases
<1>5. ASSUME NEW r \in Requests, Timers(r) PROVE Nonces'
  BY <1>1, <1>5 DEF Timers, ExpireRetry, ExpireTimeout, HandleRequestTimeout,
                    HandleClientTimeout
<1>6. ASSUME NEW r \in Requests, Swarm(r) PROVE Nonces'
  BY <1>1, <1>6 DEF Swarm, HandleSwarmResponse, HandleFatalError,
                    HandleDuplicateError
<1>7. CASE UNCHANGED vars
  BY <1>1, <1>7 DEF vars
<1> QED
  BY <1>2, <1>3, <1>4, <1>5, <1>6, <1>7 DEF Next, Send

\* Only faulty nodes sign something else than the answer to a request.
HonestReplies ==
    \A r \in Requests : \A n \in Nodes, v \in Values :
        <<n, v>> \in replied[r] => n \in Faulty \/ v = Answer[r]

\* Every step preserves HonestReplies: since nonces are unique, a node that
\* answers the nonce of a request answers this request.
LEMMA HonestRepliesStep ==
    TypeOK /\ Lifecycle /\ Nonces /\ ResponsesHeard /\ HonestReplies
        /\ [Next]_vars => HonestReplies'
<1> SUFFICES ASSUME TypeOK, Lifecycle, Nonces, ResponsesHeard, HonestReplies,
                    [Next]_vars
             PROVE  HonestReplies'
  OBVIOUS
<1>1. ASSUME UNCHANGED replied PROVE HonestReplies'
  BY <1>1 DEF HonestReplies
<1>2. ASSUME NEW q \in Requests, NEW s \in Senders, NEW v \in Values,
             NEW signed \in BOOLEAN, HandleSwarmResponse(q, s, v, signed)
      PROVE  HonestReplies'
  <2>1. CASE UNCHANGED replied
    BY <1>1, <2>1
  <2>2. CASE signed /\ replied' = [replied EXCEPT ![q] = @ \cup {<<s, v>>}]
    <3>1. CASE s \in Faulty
      BY <2>2, <3>1 DEF HonestReplies, TypeOK
    <3>2. CASE s \notin Faulty
      <4>1. PICK p \in Requests : nonce[p] = nonce[q] /\ v = Answer[p]
        BY <1>2, <2>2, <3>2 DEF HandleSwarmResponse, MayReply, Transmitted
      <4>2. pc[q] # "idle"
        BY <1>2 DEF HandleSwarmResponse, Lifecycle
      <4>3. p = q
        BY <4>1, <4>2 DEF Nonces, TypeOK
      <4> QED
        BY <2>2, <4>1, <4>3 DEF HonestReplies, TypeOK
    <3> QED
      BY <3>1, <3>2
  <2> QED
    BY <1>2, <2>1, <2>2, ResponseRecorded
<1>3. ASSUME NEW r \in Requests, Send(r) \/ Timers(r) PROVE HonestReplies'
  BY <1>1, <1>3 DEF Send, ReadNonce, SetupTimers, StoreInfo, SendRequest,
                    Timers, ExpireRetry, ExpireTimeout, HandleRequestTimeout,
                    HandleClientTimeout
<1>4. ASSUME NEW q \in Requests, HandleFatalError(q) \/ HandleDuplicateError(q)
      PROVE  HonestReplies'
  BY <1>1, <1>4 DEF HandleFatalError, HandleDuplicateError
<1>5. CASE UNCHANGED vars
  BY <1>1, <1>5 DEF vars
<1> QED
  BY <1>2, <1>3, <1>4, <1>5 DEF Next, Swarm

\* A quorum larger than the faulty nodes contains an honest node.
LEMMA QuorumAgrees ==
    TypeOK /\ QuorumBacked /\ HonestReplies => AgreedAnswer
<1> SUFFICES ASSUME TypeOK, QuorumBacked, HonestReplies,
                    NEW r \in Requests, answer[r] \in Values \ QuickValues,
                    Cardinality(Faulty) < responses_required[r]
             PROVE  answer[r] = Answer[r]
  BY DEF AgreedAnswer
<1> DEFINE backers == Backers(r, answer[r])
<1>1. IsFiniteSet(Faulty) /\ Cardinality(Faulty) \in Nat
  BY DispatchAssumption, FS_Subset, FS_CardinalityType
<1>2. IsFiniteSet(backers) /\ Cardinality(backers) \in Nat
  BY DispatchAssumption, FS_Subset, FS_CardinalityType DEF Backers
<1>3. Cardinality(backers) >= responses_required[r]
  BY DEF QuorumBacked
<1>4. PICK n \in backers : n \notin Faulty
  <2>1. SUFFICES ASSUME backers \subseteq Faulty PROVE FALSE
    OBVIOUS
  <2>2. Cardinality(backers) <= Cardinality(Faulty)
    BY <1>1, <2>1, FS_Subset
  <2>3. responses_required[r] \in Nat
    BY DEF TypeOK
  <2> QED
    BY <1>1, <1>2, <1>3, <2>2, <2>3
<1> QED
  BY <1>4 DEF Backers, HonestReplies

\* As long as fewer nodes are faulty than must agree, a handler that is given
\* something else than a quick_read payload is given the honest answer to its
\* own request, for any number of requests and nodes and whatever the faulty
\* ones send under any name, provided that every request is issued by the client
\* thread.
THEOREM AnswerIsHonest ==
    ASSUME IoRequests = {}
    PROVE  Spec => []AgreedAnswer
<1>1. Init => Nonces /\ HonestReplies /\ ResponsesHeard
  BY DispatchAssumption
  DEF Init, Nonces, InProgress, HonestReplies, ResponsesHeard, NoResponses
<1>2. TypeOK /\ Nonces /\ [Next]_vars => Nonces'
  BY NoncesStep
<1> QED
  BY <1>1, <1>2, HonestRepliesStep, QuorumAgrees, QuorumStep, TypeCorrect,
     LifecycleInvariant, QuorumAlwaysBacked, PTL DEF Spec

-----------------------------------------------------------------------------
(* Retries.                                                                *)

\* Between arming and insertion the retry timer of a request that has one is
\* still armed; afterwards the request has a retry ahead or a node has it.
RetryAhead ==
    /\ \A r \in Requests \ QuickReads :
            pc[r] = "armed" => retry_timer[r] = {"armed"}
    /\ TrackedRetries

\* Every step preserves RetryAhead if no timer expires before line 54.
LEMMA RetryAheadStep ==
    ASSUME EarlyExpiry = FALSE
    PROVE  TypeOK /\ Lifecycle /\ RetryAhead /\ [Next]_vars => RetryAhead'
<1> SUFFICES ASSUME TypeOK, Lifecycle, RetryAhead, [Next]_vars
             PROVE  RetryAhead'
  OBVIOUS
<1> USE DispatchAssumption DEF TypeOK, Lifecycle, RetryAhead, TrackedRetries, Waits
<1>1. ASSUME NEW r \in Requests, ReadNonce(r) PROVE RetryAhead'
  BY <1>1 DEF ReadNonce
<1>2. ASSUME NEW r \in Requests, SetupTimers(r) PROVE RetryAhead'
  BY <1>2 DEF SetupTimers, HasRetryTimer
<1>3. ASSUME NEW r \in Requests, StoreInfo(r) PROVE RetryAhead'
  <2> DEFINE old == Find(nonce[r])
  <2>1. /\ messages' = (messages \ old) \cup {r}
        /\ retry_timer' = Disarm(retry_timer, old)
        /\ pc' = [pc EXCEPT ![r] = "stored"]
        /\ pc[r] = "armed" /\ UNCHANGED duplicate
    BY <1>3 DEF StoreInfo, Release
  <2>2. old \subseteq messages /\ r \notin messages
    BY <2>1 DEF Find
  <2>3. \A q \in Requests : q \notin old => retry_timer'[q] = retry_timer[q]
    BY <2>1 DEF Disarm
  <2> HIDE DEF old
  <2>4. ASSUME NEW q \in Requests \ QuickReads, pc'[q] = "armed"
        PROVE  retry_timer'[q] = {"armed"}
    <3>1. pc[q] = "armed"
      BY <2>1, <2>4
    <3>2. q \notin old
      BY <2>2, <3>1
    <3> QED
      BY <2>3, <3>1, <3>2
  <2>5. ASSUME NEW q \in messages' \ QuickReads
        PROVE  q \in duplicate' \/ retry_timer'[q] # {}
    <3>1. q \in Requests \ QuickReads /\ q \notin old
      BY <2>1, <2>2
    <3>2. q = r => retry_timer[q] = {"armed"}
      BY <2>1, <3>1
    <3>3. q \in messages => q \in duplicate \/ retry_timer[q] # {}
      BY <3>1
    <3> QED
      BY <2>1, <2>3, <3>1, <3>2, <3>3
  <2> QED
    BY <2>4, <2>5
<1>4. ASSUME NEW r \in Requests, SendRequest(r) PROVE RetryAhead'
  BY <1>4 DEF SendRequest
<1>5. ASSUME NEW r \in Requests, ExpireRetry(r) PROVE RetryAhead'
  BY <1>5 DEF ExpireRetry, MayExpire
<1>6. ASSUME NEW r \in Requests, ExpireTimeout(r) PROVE RetryAhead'
  BY <1>6 DEF ExpireTimeout
<1>7. ASSUME NEW r \in Requests, HandleRequestTimeout(r) PROVE RetryAhead'
  <2>1. /\ UNCHANGED <<pc, messages, duplicate>>
        /\ \A q \in Requests : retry_timer'[q] =
              (retry_timer[q] \ (IF q = r THEN {"queued"} ELSE {}))
                  \cup (IF q \in Find(nonce[r]) THEN {"armed"} ELSE {})
    BY <1>7 DEF HandleRequestTimeout
  <2>2. ASSUME NEW q \in Requests \ QuickReads, pc'[q] = "armed"
        PROVE  retry_timer'[q] = {"armed"}
    BY <2>1, <2>2
  <2>3. ASSUME NEW q \in messages' \ QuickReads
        PROVE  q \in duplicate' \/ retry_timer'[q] # {}
    <3>1. CASE q = r
      <4>1. q \in Requests /\ q \in Find(nonce[r])
        BY <2>1, <2>3, <3>1 DEF Find
      <4>2. "armed" \in retry_timer'[q]
        BY <2>1, <4>1
      <4> QED
        BY <4>2
    <3>2. CASE q # r
      BY <2>1, <2>3, <3>2
    <3> QED
      BY <3>1, <3>2
  <2> QED
    BY <2>2, <2>3
<1>8. ASSUME NEW r \in Requests, HandleClientTimeout(r) PROVE RetryAhead'
  BY <1>8 DEF HandleClientTimeout, Release, Disarm, Find
<1>9. ASSUME NEW q \in Requests, NEW s \in Senders, NEW v \in Values,
             NEW signed \in BOOLEAN, HandleSwarmResponse(q, s, v, signed)
      PROVE  RetryAhead'
  <2>1. /\ UNCHANGED <<pc, duplicate>> /\ q \in messages
        /\ \/ /\ messages' = messages \ {q}
              /\ retry_timer' = Disarm(retry_timer, {q})
           \/ UNCHANGED <<messages, retry_timer>>
    BY <1>9 DEF HandleSwarmResponse, Erase, Release
  <2>2. \A p \in Requests : p # q => retry_timer'[p] = retry_timer[p]
    BY <2>1 DEF Disarm
  <2> QED
    BY <2>1, <2>2
<1>10. ASSUME NEW q \in Requests, HandleFatalError(q) PROVE RetryAhead'
  BY <1>10 DEF HandleFatalError, Erase, Release, Disarm
<1>11. ASSUME NEW q \in Requests, HandleDuplicateError(q) PROVE RetryAhead'
  BY <1>11 DEF HandleDuplicateError
<1>12. CASE UNCHANGED vars
  BY <1>12 DEF vars
<1> HIDE DEF TypeOK, Lifecycle, RetryAhead, TrackedRetries, Waits
<1> QED
  BY <1>1, <1>2, <1>3, <1>4, <1>5, <1>6, <1>7, <1>8, <1>9, <1>10, <1>11, <1>12
  DEF Next, Send, Timers, Swarm

\* A tracked request that needs a majority always has a retry ahead of it or
\* was reported a duplicate by a node, for any number of requests on both
\* threads, provided that no timer expires before its request is stored.
THEOREM RetryNeverLost ==
    ASSUME EarlyExpiry = FALSE
    PROVE  Spec => []TrackedRetries
<1>1. Init => RetryAhead
  BY DEF Init, RetryAhead, TrackedRetries
<1>2. TypeOK /\ Lifecycle /\ RetryAhead /\ [Next]_vars => RetryAhead'
  BY RetryAheadStep
<1>3. RetryAhead => TrackedRetries
  BY DEF RetryAhead
<1> QED
  BY <1>1, <1>2, <1>3, TypeCorrect, LifecycleInvariant, PTL DEF Spec

-----------------------------------------------------------------------------
(* Null retry timers and the assertion of qualify_response.                *)

\* The retry timer of a quick read is never used and a quick read is sent at
\* most once; a request that is not stored, or needs one response, has none.
Unretried ==
    \A r \in Requests :
        /\ pc[r] = "idle" => retry_timer[r] = {}
        /\ r \in QuickReads => /\ retry_timer[r] = {}
                               /\ sends[r] <= 1
                               /\ pc[r] # "sent" => sends[r] = 0
        /\ r \notin messages \/ responses_required[r] = 1
                => responses[r] = NoResponses

\* With one thread a nonce finds no other request than the one it was given to.
LEMMA FindsItself ==
    ASSUME TypeOK, Lifecycle, Nonces, NEW r \in Requests, pc[r] # "idle"
    PROVE  Find(nonce[r]) = messages \cap {r}
  BY DEF TypeOK, Lifecycle, Nonces, Find

\* Every step preserves Unretried and NoCrash.
LEMMA UnretriedStep ==
    TypeOK /\ Lifecycle /\ Nonces /\ Unretried /\ NoCrash /\ [Next]_vars
        => Unretried' /\ NoCrash'
<1> SUFFICES ASSUME TypeOK, Lifecycle, Nonces, Unretried, NoCrash, [Next]_vars
             PROVE  Unretried' /\ NoCrash'
  OBVIOUS
<1>1. ASSUME NEW r \in Requests, ReadNonce(r) PROVE Unretried' /\ NoCrash'
  BY <1>1 DEF ReadNonce, Unretried, NoCrash, TypeOK
<1>2. ASSUME NEW r \in Requests, SetupTimers(r) PROVE Unretried' /\ NoCrash'
  <2>1. r \notin messages
    BY <1>2 DEF SetupTimers, Lifecycle
  <2> QED
    BY <1>2, <2>1 DEF SetupTimers, HasRetryTimer, Unretried, NoCrash, TypeOK
<1>3. ASSUME NEW r \in Requests, StoreInfo(r) PROVE Unretried' /\ NoCrash'
  <2>1. pc[r] = "armed" /\ r \notin messages
    BY <1>3 DEF StoreInfo, Lifecycle
  <2>2. Find(nonce[r]) = {}
    BY <2>1, FindsItself
  <2>3. /\ messages' = messages \cup {r}
        /\ pc' = [pc EXCEPT ![r] = "stored"]
        /\ \A q \in Requests : /\ retry_timer'[q] = retry_timer[q]
                               /\ responses'[q] = responses[q]
        /\ UNCHANGED <<sends, responses_required>> /\ crashed' = "no"
    BY <1>3, <2>2 DEF StoreInfo, Release, Disarm
  <2> QED
    BY <2>1, <2>3 DEF Unretried, NoCrash, TypeOK
<1>4. ASSUME NEW r \in Requests, SendRequest(r) PROVE Unretried' /\ NoCrash'
  BY <1>4, DispatchAssumption DEF SendRequest, Sent, Unretried, NoCrash, TypeOK
<1>5. ASSUME NEW r \in Requests, ExpireRetry(r) PROVE Unretried' /\ NoCrash'
  BY <1>5 DEF ExpireRetry, Unretried, NoCrash, TypeOK
<1>6. ASSUME NEW r \in Requests, ExpireTimeout(r) PROVE Unretried' /\ NoCrash'
  BY <1>6 DEF ExpireTimeout, Unretried, NoCrash
<1>7. ASSUME NEW r \in Requests, HandleRequestTimeout(r)
      PROVE  Unretried' /\ NoCrash'
  <2>1. retry_timer[r] # {}
    BY <1>7 DEF HandleRequestTimeout
  <2>2. pc[r] # "idle" /\ r \notin QuickReads
    BY <2>1 DEF Unretried
  <2>3. Find(nonce[r]) \subseteq {r}
    BY <2>2, FindsItself
  <2>4. /\ UNCHANGED <<pc, messages, responses, responses_required>>
        /\ \A q \in Requests : q # r => /\ retry_timer'[q] = retry_timer[q]
                                        /\ sends'[q] = sends[q]
        /\ crashed' = "no"
    BY <1>7, <2>2, <2>3 DEF HandleRequestTimeout, Dereferenced, HasRetryTimer
  <2> QED
    BY <2>2, <2>4 DEF Unretried, NoCrash
<1>8. ASSUME NEW r \in Requests, HandleClientTimeout(r)
      PROVE  Unretried' /\ NoCrash'
  <2> DEFINE found == Find(nonce[r])
  <2>1. /\ UNCHANGED <<pc, responses_required, sends>> /\ crashed' = "no"
        /\ messages' = messages \ found
        /\ \A q \in Requests :
              /\ retry_timer'[q] \subseteq retry_timer[q]
              /\ responses'[q] = IF q \in found THEN NoResponses
                                 ELSE responses[q]
    BY <1>8 DEF HandleClientTimeout, Release, Disarm
  <2> HIDE DEF found
  <2> QED
    BY <2>1 DEF Unretried, NoCrash
<1>9. ASSUME NEW q \in Requests, NEW s \in Senders, NEW v \in Values,
             NEW signed \in BOOLEAN, HandleSwarmResponse(q, s, v, signed)
      PROVE  Unretried' /\ NoCrash'
  <2> DEFINE resp == Filed(q, s, v)
  <2>1. /\ UNCHANGED <<pc, responses_required, sends>>
        /\ q \in messages
        /\ crashed' = IF AssertSingle(q, resp) THEN "no" ELSE "assert"
    BY <1>9 DEF HandleSwarmResponse, Filed
  <2>2. ASSUME responses_required[q] = 1
        PROVE  Cardinality(Responded(resp)) = 1
    <3>1. responses[q] = NoResponses
      BY <2>2 DEF Unretried
    <3>2. Responded(resp) = {s}
      BY <3>1, DispatchAssumption DEF Responded, Filed, NoResponses
    <3> QED
      BY <3>2, FS_Singleton
  <2>3. NoCrash'
    BY <2>1, <2>2 DEF AssertSingle, NoCrash
  <2>4. CASE qualify_response(q, resp, s)
    <3>1. Erase(q)
      BY <1>9, <2>4 DEF HandleSwarmResponse, Filed
    <3>2. /\ messages' = messages \ {q}
          /\ \A r \in Requests :
                /\ retry_timer'[r] \subseteq retry_timer[r]
                /\ responses'[r] = IF r = q THEN NoResponses ELSE responses[r]
      BY <3>1 DEF Erase, Release, Disarm
    <3> QED
      BY <2>1, <2>3, <3>2 DEF Unretried
  <2>5. CASE ~qualify_response(q, resp, s)
    <3>1. responses_required[q] # 1
      BY <2>2, <2>5 DEF qualify_response
    <3>2. /\ UNCHANGED <<messages, retry_timer>>
          /\ \A r \in Requests : r # q => responses'[r] = responses[r]
      BY <1>9, <2>5 DEF HandleSwarmResponse, Filed, TypeOK
    <3> QED
      BY <2>1, <2>3, <3>1, <3>2 DEF Unretried
  <2> QED
    BY <2>4, <2>5
<1>10. ASSUME NEW q \in Requests, HandleFatalError(q)
       PROVE  Unretried' /\ NoCrash'
  <2>1. /\ UNCHANGED <<pc, responses_required, sends>> /\ crashed' = "no"
        /\ messages' = messages \ {q}
        /\ \A r \in Requests :
              /\ retry_timer'[r] \subseteq retry_timer[r]
              /\ responses'[r] = IF r = q THEN NoResponses ELSE responses[r]
    BY <1>10 DEF HandleFatalError, Erase, Release, Disarm
  <2> QED
    BY <2>1 DEF Unretried, NoCrash
<1>11. ASSUME NEW q \in Requests, HandleDuplicateError(q)
       PROVE  Unretried' /\ NoCrash'
  <2>1. /\ UNCHANGED <<pc, responses_required, responses, messages, sends>>
        /\ \A r \in Requests : retry_timer'[r] \subseteq retry_timer[r]
        /\ q \in duplicate'
        /\ crashed' = IF HasRetryTimer(q) THEN "no" ELSE "null"
    BY <1>11 DEF HandleDuplicateError, Dereferenced, TypeOK
  <2>2. q \in QuickReads => sends'[q] < 2
    BY <2>1 DEF Unretried, TypeOK
  <2> QED
    BY <2>1, <2>2 DEF Unretried, NoCrash, HasRetryTimer
<1>12. CASE UNCHANGED vars
  BY <1>12 DEF vars, Unretried, NoCrash
<1> QED
  BY <1>1, <1>2, <1>3, <1>4, <1>5, <1>6, <1>7, <1>8, <1>9, <1>10, <1>11, <1>12
  DEF Next, Send, Timers, Swarm

\* The nonces of the calls are numbered apart when every request is issued by
\* the client thread.
THEOREM NoncesInvariant ==
    ASSUME IoRequests = {}
    PROVE  Spec => []Nonces
<1>1. Init => Nonces
  BY DEF Init, Nonces, InProgress
<1>2. TypeOK /\ Nonces /\ [Next]_vars => Nonces'
  BY NoncesStep
<1> QED
  BY <1>1, <1>2, TypeCorrect, PTL DEF Spec

\* Unretried and NoCrash hold together in every reachable state.
THEOREM UnretriedInvariant ==
    ASSUME IoRequests = {}
    PROVE  Spec => [](Unretried /\ NoCrash)
<1>1. Init => Unretried /\ NoCrash
  BY DEF Init, Unretried, NoCrash
<1>2. Spec => []Nonces
  BY NoncesInvariant
<1> QED
  BY <1>1, <1>2, UnretriedStep, TypeCorrect, LifecycleInvariant, PTL DEF Spec

\* The assertion of qualify_response never fails, whatever the swarm sends, and
\* the null retry timer of a quick read is dereferenced only by a DUPLICATE
\* report on a quick read that was transmitted once, which no honest node makes,
\* provided that every request is issued by the client thread.
THEOREM NeverCrashes ==
    ASSUME IoRequests = {}
    PROVE  Spec => []NoCrash
<1>1. Spec => [](Unretried /\ NoCrash)
  BY UnretriedInvariant
<1> QED
  BY <1>1, PTL

-----------------------------------------------------------------------------
(* Requests that are not answered.                                         *)

\* From its insertion on, a request whose handler was not called and that no
\* node declared too old or too large is tracked.
StoredTracked ==
    \A r \in Requests \ dropped :
        pc[r] \in {"stored", "sent"} /\ calls[r] = 0 => r \in messages

\* Every step preserves StoredTracked.
LEMMA StoredTrackedStep ==
    TypeOK /\ Lifecycle /\ Nonces /\ StoredTracked /\ [Next]_vars
        => StoredTracked'
<1> SUFFICES ASSUME TypeOK, Lifecycle, Nonces, StoredTracked, [Next]_vars
             PROVE  StoredTracked'
  OBVIOUS
<1>1. ASSUME NEW r \in Requests, ReadNonce(r) \/ SetupTimers(r)
      PROVE  StoredTracked'
  <2>1. /\ UNCHANGED <<messages, calls, dropped>>
        /\ \E p \in {"numbered", "armed"} : pc' = [pc EXCEPT ![r] = p]
    BY <1>1 DEF ReadNonce, SetupTimers
  <2> QED
    BY <2>1 DEF StoredTracked, TypeOK
<1>2. ASSUME NEW r \in Requests, StoreInfo(r) PROVE StoredTracked'
  <2>1. pc[r] = "armed" /\ r \notin messages
    BY <1>2 DEF StoreInfo, Lifecycle
  <2>2. Find(nonce[r]) = {}
    BY <2>1, FindsItself
  <2>3. /\ messages' = messages \cup {r}
        /\ pc' = [pc EXCEPT ![r] = "stored"] /\ UNCHANGED <<calls, dropped>>
    BY <1>2, <2>2 DEF StoreInfo
  <2> QED
    BY <2>3 DEF StoredTracked, TypeOK
<1>3. ASSUME NEW r \in Requests, SendRequest(r) PROVE StoredTracked'
  BY <1>3 DEF SendRequest, StoredTracked, TypeOK
<1>4. ASSUME NEW r \in Requests,
             ExpireRetry(r) \/ ExpireTimeout(r) \/ HandleRequestTimeout(r)
      PROVE  StoredTracked'
  BY <1>4 DEF ExpireRetry, ExpireTimeout, HandleRequestTimeout, StoredTracked
<1>5. ASSUME NEW r \in Requests, HandleClientTimeout(r) PROVE StoredTracked'
  BY <1>5 DEF HandleClientTimeout, StoredTracked, TypeOK
<1>6. ASSUME NEW q \in Requests, NEW s \in Senders, NEW v \in Values,
             NEW signed \in BOOLEAN, HandleSwarmResponse(q, s, v, signed)
      PROVE  StoredTracked'
  <2>1. /\ UNCHANGED <<pc, dropped>>
        /\ \/ UNCHANGED <<messages, calls>>
           \/ /\ calls' = [calls EXCEPT ![q] = @ + 1]
              /\ messages' = messages \ {q}
    BY <1>6 DEF HandleSwarmResponse, Erase
  <2> QED
    BY <2>1 DEF StoredTracked, TypeOK
<1>7. ASSUME NEW q \in Requests, HandleDuplicateError(q) PROVE StoredTracked'
  BY <1>7 DEF HandleDuplicateError, StoredTracked
<1>8. ASSUME NEW q \in Requests, HandleFatalError(q) PROVE StoredTracked'
  BY <1>8 DEF HandleFatalError, Erase, StoredTracked, TypeOK
<1>9. CASE UNCHANGED vars
  BY <1>9 DEF vars, StoredTracked
<1> QED
  BY <1>1, <1>2, <1>3, <1>4, <1>5, <1>6, <1>7, <1>8, <1>9
  DEF Next, Send, Timers, Swarm

\* No sent request is forgotten before its handler is called unless a node
\* declared it too old or too large, provided that every request is issued by
\* the client thread; timers may expire at any time.
THEOREM NeverForgotten ==
    ASSUME IoRequests = {}
    PROVE  Spec => []UnansweredTracked
<1>1. Init => StoredTracked
  BY DEF Init, StoredTracked
<1>2. TypeOK /\ Lifecycle /\ Nonces /\ StoredTracked /\ [Next]_vars
        => StoredTracked'
  BY StoredTrackedStep
<1>3. Spec => []Nonces
  BY NoncesInvariant
<1>4. StoredTracked => UnansweredTracked
  BY DEF StoredTracked, UnansweredTracked
<1> QED
  BY <1>1, <1>2, <1>3, <1>4, TypeCorrect, LifecycleInvariant, PTL DEF Spec

-----------------------------------------------------------------------------
(* Refinement.                                                             *)

\* Every size the node list may have outvotes the faulty nodes.
MajorityHonest ==
    \A n \in SwarmSizes : Cardinality(Faulty) < honest_majority_size(n)

\* A request that gathers a majority requires the majority of some swarm size.
MajorityRequired ==
    \A r \in Requests \ QuickReads :
        pc[r] \in {"armed", "stored", "sent"} =>
            \E n \in SwarmSizes : responses_required[r] = honest_majority_size(n)

\* Every step preserves MajorityRequired.
LEMMA MajorityRequiredStep ==
    TypeOK /\ MajorityRequired /\ [Next]_vars => MajorityRequired'
<1> SUFFICES ASSUME TypeOK, MajorityRequired, [Next]_vars
             PROVE  MajorityRequired'
  OBVIOUS
<1>1. ASSUME UNCHANGED responses_required,
             \/ UNCHANGED pc
             \/ \E r \in Requests, p \in Phases :
                    /\ pc' = [pc EXCEPT ![r] = p]
                    /\ p = "numbered" \/ pc[r] \in {"armed", "stored"}
      PROVE  MajorityRequired'
  BY <1>1 DEF MajorityRequired, TypeOK
<1>2. ASSUME NEW r \in Requests, SetupTimers(r) PROVE MajorityRequired'
  BY <1>2 DEF SetupTimers, HasRetryTimer, MajorityRequired, TypeOK
<1>3. ASSUME NEW r \in Requests, Send(r), ~SetupTimers(r)
      PROVE  MajorityRequired'
  BY <1>1, <1>3 DEF Send, ReadNonce, StoreInfo, SendRequest, Phases
<1>4. ASSUME NEW r \in Requests, Timers(r) PROVE MajorityRequired'
  BY <1>1, <1>4 DEF Timers, ExpireRetry, ExpireTimeout, HandleRequestTimeout,
                    HandleClientTimeout
<1>5. ASSUME NEW r \in Requests, Swarm(r) PROVE MajorityRequired'
  BY <1>1, <1>5 DEF Swarm, HandleSwarmResponse, HandleFatalError,
                    HandleDuplicateError
<1>6. CASE UNCHANGED vars
  BY <1>1, <1>6 DEF vars
<1> QED
  BY <1>2, <1>3, <1>4, <1>5, <1>6 DEF Next

\* A step that leaves the calls and answers alone and only moves pc forward is
\* the issue of a request, or none, of AsyncRequest.
LEMMA IssueOrNothing ==
    ASSUME TypeOK, Lifecycle, UNCHANGED <<calls, answer, dropped, crashed>>,
           \/ UNCHANGED pc
           \/ /\ crashed = "no"
              /\ \E r \in Requests, p \in Phases \ {"idle"} :
                    pc' = [pc EXCEPT ![r] = p]
    PROVE  [Abstract!Next]_(Abstract!vars)
<1>1. UNCHANGED outcomeBar
  BY DEF outcomeBar
<1>2. CASE UNCHANGED pc
  BY <1>1, <1>2 DEF Abstract!vars, phaseBar
<1>3. ASSUME NEW r \in Requests, NEW p \in Phases \ {"idle"},
             pc' = [pc EXCEPT ![r] = p], crashed = "no"
      PROVE  [Abstract!Next]_(Abstract!vars)
  <2>1. CASE pc[r] = "idle"
    <3>1. phaseBar[r] = "idle"
      BY <2>1 DEF phaseBar, Lifecycle
    <3>2. phaseBar' = [phaseBar EXCEPT ![r] = "pending"]
      <4>1. calls[r] = 0 /\ pc'[r] # "idle" /\ r \notin dropped
        BY <1>3, <2>1 DEF Lifecycle, TypeOK
      <4>2. \A q \in Requests : q # r => pc'[q] = pc[q]
        BY <1>3 DEF TypeOK
      <4>3. /\ \A q \in Requests : q # r => phaseBar'[q] = phaseBar[q]
            /\ phaseBar'[r] = "pending"
        BY <1>3, <4>1, <4>2 DEF phaseBar
      <4>4. /\ phaseBar' = [q \in Requests |-> phaseBar'[q]]
            /\ phaseBar = [q \in Requests |-> phaseBar[q]]
        BY DEF phaseBar
      <4> HIDE DEF phaseBar
      <4> QED
        BY <4>3, <4>4
    <3> QED
      BY <1>1, <3>1, <3>2 DEF Abstract!Next, Abstract!Issue
  <2>2. CASE pc[r] # "idle"
    <3>1. \A q \in Requests : pc'[q] = "idle" <=> pc[q] = "idle"
      BY <1>3, <2>2 DEF TypeOK
    <3>2. UNCHANGED phaseBar
      BY <3>1 DEF phaseBar
    <3> QED
      BY <1>1, <3>2 DEF Abstract!vars
  <2> QED
    BY <2>1, <2>2
<1> QED
  BY <1>2, <1>3

\* The call of a handler with a value it may be given completes its request in
\* AsyncRequest.
LEMMA CallCompletes ==
    ASSUME TypeOK, Lifecycle, NEW r \in Requests, r \in messages,
           NEW v \in OutcomesOf[r], v # NoValue, crashed = "no",
           UNCHANGED <<pc, dropped, crashed>>,
           calls' = [calls EXCEPT ![r] = @ + 1],
           answer' = [answer EXCEPT ![r] = v]
    PROVE  Abstract!Next
<1>1. calls[r] = 0 /\ pc[r] # "idle" /\ r \notin dropped
  BY DEF Lifecycle
<1>2. phaseBar[r] = "pending"
  BY <1>1 DEF phaseBar
<1>3. phaseBar' = [phaseBar EXCEPT ![r] = "answered"]
  <2>1. calls'[r] = 1 /\ \A q \in Requests : q # r => calls'[q] = calls[q]
    BY <1>1 DEF TypeOK
  <2>2. /\ \A q \in Requests : q # r => phaseBar'[q] = phaseBar[q]
        /\ phaseBar'[r] = "answered"
    BY <2>1 DEF phaseBar
  <2>3. /\ phaseBar' = [q \in Requests |-> phaseBar'[q]]
        /\ phaseBar = [q \in Requests |-> phaseBar[q]]
    BY DEF phaseBar
  <2> HIDE DEF phaseBar
  <2> QED
    BY <2>2, <2>3
<1>4. outcomeBar' = [outcomeBar EXCEPT ![r] = <<v>>]
  BY DEF outcomeBar, TypeOK
<1>5. Abstract!Complete(r)
  BY <1>2, <1>3, <1>4 DEF Abstract!Complete
<1> QED
  BY <1>5 DEF Abstract!Next, Abstract!Leave

\* A step that leaves the calls alone and drops the request r, or brings the io
\* thread down, abandons the pending requests it concerns.
LEMMA DropAbandons ==
    ASSUME TypeOK, Lifecycle, MayAbandon, crashed = "no",
           UNCHANGED <<calls, answer, pc>>,
           \/ UNCHANGED dropped
           \/ /\ \E r \in messages : dropped' = dropped \cup {r}
              /\ UNCHANGED crashed
    PROVE  [Abstract!Next]_(Abstract!vars)
<1> DEFINE R == {r \in Requests : /\ phaseBar[r] = "pending"
                                  /\ phaseBar'[r] = "abandoned"}
<1>1. UNCHANGED outcomeBar
  BY DEF outcomeBar
<1>2. \A r \in Requests : \/ phaseBar'[r] = phaseBar[r]
                          \/ r \in R
  BY DEF phaseBar
<1>3. /\ phaseBar' = [q \in Requests |-> phaseBar'[q]]
      /\ phaseBar = [q \in Requests |-> phaseBar[q]]
  BY DEF phaseBar
<1> HIDE DEF phaseBar, outcomeBar
<1>4. CASE R = {}
  BY <1>1, <1>2, <1>3, <1>4 DEF Abstract!vars
<1>5. CASE R # {}
  <2>1. PICK r \in R : TRUE
    BY <1>5
  <2>2. phaseBar' = [q \in Requests |->
            IF q \in R THEN "abandoned" ELSE phaseBar[q]]
    BY <1>2, <1>3
  <2>3. \A q \in R : phaseBar[q] = "pending"
    OBVIOUS
  <2>4. R \in SUBSET Requests /\ r \in Requests
    OBVIOUS
  <2> HIDE DEF R
  <2>5. Abstract!Abandon(R)
    BY <1>1, <2>2, <2>3 DEF Abstract!Abandon
  <2> QED
    BY <2>1, <2>4, <2>5 DEF Abstract!Next, Abstract!Leave
<1> QED
  BY <1>4, <1>5

\* Every step of db_dispatch is a step or a stutter of AsyncRequest.
LEMMA AbstractStep ==
    ASSUME MajorityHonest
    PROVE  TypeOK /\ Lifecycle /\ Nonces /\ Unretried /\ MajorityRequired
                /\ AgreedAnswer' /\ NoCrash' /\ [Next]_vars
            => [Abstract!Next]_(Abstract!vars)
<1> SUFFICES ASSUME TypeOK, Lifecycle, Nonces, Unretried, MajorityRequired,
                    AgreedAnswer', NoCrash', [Next]_vars
             PROVE  [Abstract!Next]_(Abstract!vars)
  OBVIOUS
<1>1. ASSUME NEW r \in Requests, Send(r) PROVE [Abstract!Next]_(Abstract!vars)
  <2>1. /\ UNCHANGED <<calls, answer, dropped, crashed>> /\ crashed = "no"
        /\ \E p \in Phases \ {"idle"} : pc' = [pc EXCEPT ![r] = p]
    BY <1>1 DEF Send, ReadNonce, SetupTimers, StoreInfo, SendRequest, Phases
  <2> QED
    BY <2>1, IssueOrNothing
<1>2. ASSUME NEW r \in Requests, ExpireRetry(r) \/ ExpireTimeout(r)
      PROVE  [Abstract!Next]_(Abstract!vars)
  <2>1. UNCHANGED <<calls, answer, dropped, crashed, pc>>
    BY <1>2 DEF ExpireRetry, ExpireTimeout
  <2> QED
    BY <2>1, IssueOrNothing
<1>3. ASSUME NEW r \in Requests, HandleRequestTimeout(r)
      PROVE  [Abstract!Next]_(Abstract!vars)
  <2>1. pc[r] # "idle" /\ r \notin QuickReads
    BY <1>3 DEF HandleRequestTimeout, Unretried
  <2>2. Find(nonce[r]) \subseteq {r}
    BY <2>1, FindsItself
  <2>3. UNCHANGED <<calls, answer, dropped, crashed, pc>>
    BY <1>3, <2>1, <2>2 DEF HandleRequestTimeout, Dereferenced, HasRetryTimer
  <2> QED
    BY <2>3, IssueOrNothing
<1>4. ASSUME NEW r \in Requests, HandleClientTimeout(r)
      PROVE  [Abstract!Next]_(Abstract!vars)
  <2>1. CASE \E q \in messages : nonce[q] = nonce[r]
    <3>1. PICK q \in messages : nonce[q] = nonce[r]
      BY <2>1
    <3>2. q \in Requests /\ pc[q] # "idle"
      BY <3>1 DEF TypeOK, Lifecycle
    <3>3. Find(nonce[r]) = {q}
      BY <3>1, <3>2, FindsItself
    <3>4. /\ calls' = [p \in Requests |->
                IF p \in {q} THEN calls[p] + 1 ELSE calls[p]]
          /\ answer' = [p \in Requests |->
                IF p \in {q} THEN Timeout ELSE answer[p]]
          /\ UNCHANGED <<pc, dropped, crashed>> /\ crashed = "no"
      BY <1>4, <3>3 DEF HandleClientTimeout
    <3>5. /\ calls' = [calls EXCEPT ![q] = @ + 1]
          /\ answer' = [answer EXCEPT ![q] = Timeout]
      BY <3>2, <3>4 DEF TypeOK
    <3>6. Timeout \in OutcomesOf[q] /\ Timeout # NoValue
      BY <3>2, DispatchAssumption DEF OutcomesOf
    <3> QED
      BY <3>1, <3>2, <3>4, <3>5, <3>6, CallCompletes
  <2>2. CASE ~\E q \in messages : nonce[q] = nonce[r]
    <3>1. Find(nonce[r]) = {}
      BY <2>2 DEF Find
    <3>2. UNCHANGED <<calls, answer, dropped, crashed, pc>>
      BY <1>4, <3>1 DEF HandleClientTimeout, TypeOK
    <3> QED
      BY <3>2, IssueOrNothing
  <2> QED
    BY <2>1, <2>2
<1>5. ASSUME NEW q \in Requests, NEW s \in Senders, NEW v \in Values,
             NEW signed \in BOOLEAN, HandleSwarmResponse(q, s, v, signed)
      PROVE  [Abstract!Next]_(Abstract!vars)
  <2>1. /\ UNCHANGED <<pc, dropped, crashed, responses_required>>
        /\ q \in messages /\ crashed = "no"
    BY <1>5 DEF HandleSwarmResponse, NoCrash
  <2>2. CASE UNCHANGED <<calls, answer>>
    BY <2>1, <2>2, IssueOrNothing
  <2>3. CASE /\ calls' = [calls EXCEPT ![q] = @ + 1]
             /\ answer' = [answer EXCEPT ![q] = v]
    <3>1. pc[q] \in {"stored", "sent"}
      BY <2>1 DEF Lifecycle
    <3>2. v # NoValue
      BY DispatchAssumption
    <3>3. v \in OutcomesOf[q]
      <4>1. CASE Faulty # {} /\ (q \in QuickReads \/ v \in QuickValues)
        BY <4>1 DEF OutcomesOf
      <4>2. CASE Faulty = {}
        <5>1. PICK p \in Requests : nonce[p] = nonce[q] /\ v = Answer[p]
          BY <1>5, <4>2 DEF HandleSwarmResponse, MayReply, Transmitted
        <5>2. p = q
          BY <3>1, <5>1 DEF Nonces, TypeOK
        <5> QED
          BY <5>1, <5>2 DEF OutcomesOf
      <4>3. CASE q \notin QuickReads /\ v \notin QuickValues
        <5>1. Cardinality(Faulty) < responses_required'[q]
          BY <2>1, <3>1, <4>3 DEF MajorityRequired, MajorityHonest
        <5>2. answer'[q] = v
          BY <2>3 DEF TypeOK
        <5>3. v = Answer[q]
          BY <4>3, <5>1, <5>2 DEF AgreedAnswer
        <5> QED
          BY <5>3 DEF OutcomesOf
      <4> QED
        BY <4>1, <4>2, <4>3
    <3> QED
      BY <2>1, <2>3, <3>2, <3>3, CallCompletes
  <2> QED
    BY <1>5, <2>2, <2>3 DEF HandleSwarmResponse
<1>6. ASSUME NEW q \in Requests, HandleFatalError(q)
      PROVE  [Abstract!Next]_(Abstract!vars)
  <2>1. /\ UNCHANGED <<calls, answer, pc, crashed>> /\ crashed = "no"
        /\ q \in messages /\ dropped' = dropped \cup {q}
        /\ MayAbandon
    BY <1>6 DEF HandleFatalError, MayAbandon
  <2> QED
    BY <2>1, DropAbandons
<1>7. ASSUME NEW q \in Requests, HandleDuplicateError(q)
      PROVE  [Abstract!Next]_(Abstract!vars)
  <2>1. /\ UNCHANGED <<calls, answer, pc, dropped>> /\ crashed = "no"
        /\ q \in messages /\ "duplicate" \in ErrorKinds /\ MayReport(q, 2)
        /\ crashed' = IF HasRetryTimer(q) THEN "no" ELSE "null"
    BY <1>7 DEF HandleDuplicateError, Dereferenced
  <2>2. CASE q \notin QuickReads
    BY <2>1, <2>2, IssueOrNothing DEF HasRetryTimer
  <2>3. CASE q \in QuickReads
    <3>1. Faulty # {}
      <4> SUFFICES ASSUME Faulty = {} PROVE FALSE
        OBVIOUS
      <4>1. PICK p \in Requests : nonce[p] = nonce[q] /\ sends[p] >= 2
        BY <2>1 DEF MayReport, Transmitted
      <4>2. p = q
        <5>1. pc[q] # "idle"
          BY <2>1 DEF Lifecycle
        <5>2. nonce[q] # 0
          BY <5>1 DEF Nonces
        <5>3. pc[p] # "idle"
          BY <4>1, <5>2 DEF Nonces
        <5> QED
          BY <4>1, <5>1, <5>3 DEF Nonces
      <4> QED
        BY <2>3, <4>1, <4>2 DEF Unretried, TypeOK
    <3>2. MayAbandon
      BY <2>1, <2>3, <3>1 DEF MayAbandon
    <3> QED
      BY <2>1, <3>2, DropAbandons
  <2> QED
    BY <2>2, <2>3
<1>8. CASE UNCHANGED vars
  <2>1. UNCHANGED <<calls, answer, dropped, crashed, pc>>
    BY <1>8 DEF vars
  <2> QED
    BY <2>1, IssueOrNothing
<1> QED
  BY <1>1, <1>2, <1>3, <1>4, <1>5, <1>6, <1>7, <1>8 DEF Next, Timers, Swarm

\* The safety part of ImplementsAsyncRequest: db_dispatch is a correct
\* implementation of AsyncRequest for any number of requests and nodes, with
\* every fault of the nodes and every error they report, provided that every
\* request is issued by the client thread and that fewer nodes are faulty than
\* honest_majority_size asks to agree.  In particular no request is abandoned
\* where no node reports TIMESTAMP or TOO_LARGE and no faulty one DUPLICATE, and
\* without faulty nodes every value handed over is the honest answer.  The
\* liveness of ImplementsAsyncRequest is checked by TLC.
THEOREM Refinement ==
    ASSUME IoRequests = {}, MajorityHonest
    PROVE  Spec => Abstract!Init /\ [][Abstract!Next]_(Abstract!vars)
<1>1. Init => Abstract!Init
  BY DEF Init, Abstract!Init, phaseBar, outcomeBar
<1>2. Init => MajorityRequired
  BY DEF Init, MajorityRequired
<1>3. TypeOK /\ Lifecycle /\ Nonces /\ Unretried /\ MajorityRequired
        /\ AgreedAnswer' /\ NoCrash' /\ [Next]_vars
            => [Abstract!Next]_(Abstract!vars)
  BY AbstractStep
<1>4. Spec => []Nonces
  BY NoncesInvariant
<1>5. Spec => []AgreedAnswer
  BY AnswerIsHonest
<1>6. Spec => [](Unretried /\ NoCrash)
  BY UnretriedInvariant
<1> QED
  BY <1>1, <1>2, <1>3, <1>4, <1>5, <1>6, MajorityRequiredStep, TypeCorrect,
     LifecycleInvariant, PTL DEF Spec

-----------------------------------------------------------------------------
(* No request is left without an answer ahead of it.                       *)

\* A request that was issued is being sent, was answered, was declared too old
\* or too large by a node, or is tracked with its client timeout ahead of it.
AnswerAhead ==
    \A r \in Requests :
        \/ pc[r] = "idle" \/ InProgress(r) \/ calls[r] > 0 \/ r \in dropped
        \/ r \in messages /\ timeout_timer[r] # {}

\* The safety core of the liveness of ImplementsAsyncRequest: no interleaving of
\* the two threads, the timers and the swarm leaves a request in a state nothing
\* will answer, for any number of requests and nodes, unless a node declares it
\* too old or too large, provided that every request is issued by the client
\* thread and that no timer expires before its request is stored.  Liveness then
\* only needs that calls return and that timers expire.
THEOREM NothingUnanswered ==
    ASSUME IoRequests = {}, EarlyExpiry = FALSE
    PROVE  Spec => []AnswerAhead
<1>1. Spec => []UnansweredTracked
  BY NeverForgotten
<1>2. Spec => []TrackedTimesOut
  BY TimeoutNeverLost
<1>3. TypeOK /\ UnansweredTracked /\ TrackedTimesOut => AnswerAhead
  <2> SUFFICES ASSUME TypeOK, UnansweredTracked, TrackedTimesOut,
                      NEW r \in Requests, r \notin dropped,
                      pc[r] # "idle", ~InProgress(r), ~(calls[r] > 0)
               PROVE  r \in messages /\ timeout_timer[r] # {}
    BY DEF AnswerAhead
  <2>1. pc[r] = "sent"
    BY DEF TypeOK, Phases, InProgress
  <2>2. calls[r] = 0
    BY DEF TypeOK
  <2> QED
    BY <2>1, <2>2 DEF UnansweredTracked, TrackedTimesOut
<1> QED
  BY <1>1, <1>2, <1>3, TypeCorrect, PTL

=============================================================================
