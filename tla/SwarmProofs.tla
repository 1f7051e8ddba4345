----------------------------- MODULE SwarmProofs ----------------------------
(***************************************************************************)
(* Proofs about swarm for every set of nodes and of calls of initialize,   *)
(* every fault and every bound.                                            *)
(***************************************************************************)
EXTENDS Swarm, FiniteSetTheorems, TLAPS

-----------------------------------------------------------------------------
(* The inductive invariant *)

\* The list the client's thread holds is a list of nodes.
ClientType ==
    client \in [busy : BOOLEAN, keys : SUBSET Uuids, null : SUBSET Uuids,
                target : Uuids \cup {NoNode}, current : BOOLEAN]

\* A node that is not listed has no entry: no duration, and no status request that
\* an entry would hear of.  (The handler of an expired timer, and that of a write
\* of its former node, may still come.)
Unlisted ==
    \A n \in Uuids \ nodes :
        /\ duration[n] = 0
        /\ polls[n]["fresh"] = 0 /\ polls[n]["stale"] = 0 /\ polls[n]["sent"] = 0

\* The call of initialize to complete was told nothing yet.
HandlerWaits == \A i \in init_handler : told[i] = <<>>

Core == TypeOK /\ ClientType /\ Unlisted

IInv ==
    /\ Core
    /\ HandlerWaits /\ InitHandlerOnce
    /\ ListedNodesPolled /\ FastestIsFastest

\* The swarm starts with its initial list, and nothing asked or told.
LEMMA InitIInv == Init => IInv
<1> SUFFICES ASSUME Init PROVE IInv
  OBVIOUS
<1>1. /\ nodes \in (SUBSET Uuids) \ {{}} /\ primary_node \in Uuids
      /\ fastest_node \in Uuids
  <2>1. nodes = Initial /\ primary_node \in Initial /\ fastest_node = primary_node
    BY DEF Init
  <2>2. Initial \subseteq Uuids /\ Initial # {}
    BY SwarmAssumption
  <2>3. nodes \in SUBSET Uuids /\ nodes \notin {{}}
    BY <2>1, <2>2, Zenon
  <2> QED
    BY <2>1, <2>2, <2>3, Zenon
<1>2. duration \in [Uuids -> 0 .. MaxDuration] /\ statuses \in 0 .. MaxStatus
      /\ sends \in 0 .. MaxSends
  <2>1. 0 \in 0 .. MaxDuration /\ 0 \in 0 .. MaxStatus /\ 0 \in 0 .. MaxSends
    BY SwarmAssumption
  <2> QED
    BY <2>1 DEF Init
<1>3. polls \in [Uuids -> [Phases -> Nat]] /\ \A n \in Uuids : polls[n] = NoPolls
  BY DEF Init, NoPolls, Phases
<1>4. /\ told \in [Inits -> Seq({"success", "operation_in_progress"})]
      /\ \A i \in Inits : told[i] = <<>> /\ Len(told[i]) = 0
  BY DEF Init
<1>5. init_handler \subseteq Inits /\ Cardinality(init_handler) <= 1
  BY FS_EmptySet DEF Init
<1>6. ClientType /\ client.null = {}
  BY DEF Init, ClientType, Idle
<1>7. TypeOK
  BY <1>1, <1>2, <1>3, <1>4, <1>5, <1>6 DEF Init, TypeOK
<1>8. Unlisted
  BY <1>3 DEF Init, Unlisted, NoPolls, Phases
<1>9. HandlerWaits /\ InitHandlerOnce
  BY <1>4 DEF Init, HandlerWaits, InitHandlerOnce
<1>10. ListedNodesPolled
  BY DEF Init, ListedNodesPolled
<1>11. FastestIsFastest
  BY <1>1 DEF Init, FastestIsFastest
<1> QED
  BY <1>6, <1>7, <1>8, <1>9, <1>10, <1>11 DEF IInv, Core

-----------------------------------------------------------------------------
(* Types, and what is known of nodes that are not listed *)

\* What a step does to the counts of the polls of one node.
LEMMA PollMoves ==
    ASSUME TypeOK, NEW n \in Uuids, NEW from \in Phases, polls[n][from] > 0,
           NEW to \in Phases \ {from}, NEW more \in {0, 1},
           polls' = [polls EXCEPT ![n][from] = @ - 1, ![n][to] = @ + more]
    PROVE  /\ polls' \in [Uuids -> [Phases -> Nat]]
           /\ \A m \in Uuids \ {n} : polls'[m] = polls[m]
           /\ \A ph \in Phases \ {from, to} : polls'[n][ph] = polls[n][ph]
           /\ polls'[n][to] = polls[n][to] + more
           /\ polls'[n][from] = polls[n][from] - 1
<1> DEFINE less == [polls[n] EXCEPT ![from] = polls[n][from] - 1]
           moved == [less EXCEPT ![to] = less[to] + more]
<1>1. polls \in [Uuids -> [Phases -> Nat]]
  BY DEF TypeOK
<1>2. polls[n] \in [Phases -> Nat]
  BY <1>1
<1>3. less \in [Phases -> Nat]
  BY <1>2
<1>4. moved \in [Phases -> Nat]
  <2> HIDE DEF less
  <2> QED
    BY <1>3
<1>5. /\ moved[to] = polls[n][to] + more /\ moved[from] = polls[n][from] - 1
      /\ \A ph \in Phases \ {from, to} : moved[ph] = polls[n][ph]
  BY <1>2
<1>6. polls' = [polls EXCEPT ![n] = moved]
  BY <1>1
<1> HIDE DEF moved
<1> QED
  BY <1>1, <1>4, <1>5, <1>6

\* The same for a step that only takes one away.
LEMMA PollEnds ==
    ASSUME TypeOK, NEW n \in Uuids, NEW from \in Phases, polls[n][from] > 0,
           polls' = [polls EXCEPT ![n][from] = @ - 1]
    PROVE  /\ polls' \in [Uuids -> [Phases -> Nat]]
           /\ \A m \in Uuids \ {n} : polls'[m] = polls[m]
           /\ \A ph \in Phases \ {from} : polls'[n][ph] = polls[n][ph]
           /\ polls'[n][from] = polls[n][from] - 1
<1> DEFINE less == [polls[n] EXCEPT ![from] = polls[n][from] - 1]
<1>1. polls \in [Uuids -> [Phases -> Nat]]
  BY DEF TypeOK
<1>2. polls[n] \in [Phases -> Nat]
  BY <1>1
<1>3. less \in [Phases -> Nat]
  BY <1>2
<1>4. /\ less[from] = polls[n][from] - 1
      /\ \A ph \in Phases \ {from} : less[ph] = polls[n][ph]
  BY <1>2
<1>5. polls' = [polls EXCEPT ![n] = less]
  OBVIOUS
<1> HIDE DEF less
<1> QED
  BY <1>1, <1>3, <1>4, <1>5

\* A node with a request under way is listed.
LEMMA RequestedIsListed ==
    ASSUME Core, NEW n \in Uuids, NEW ph \in {"fresh", "stale", "sent"},
           polls[n][ph] > 0
    PROVE  n \in nodes
  BY DEF Core, Unlisted

\* The steps of initialize, and of the polls, keep the types.
LEMMA InitializeCore ==
    ASSUME Core, NEW i \in Inits, Initialize(i) \/ InitializeAgain(i)
    PROVE  Core'
<1>1. CASE Initialize(i)
  <2>1. polls' \in [Uuids -> [Phases -> Nat]]
        /\ \A n \in Uuids \ nodes : polls'[n] = polls[n]
    <3>1. \A n \in Uuids : [polls[n] EXCEPT !["fresh"] = @ + 1] \in [Phases -> Nat]
      <4> TAKE n \in Uuids
      <4>1. polls[n] \in [Phases -> Nat]
        BY DEF Core, TypeOK
      <4> QED
        BY <4>1 DEF Phases
    <3> QED
      BY <1>1, <3>1 DEF Initialize, Core, TypeOK
  <2>2. init_handler' \subseteq Inits /\ Cardinality(init_handler') <= 1
    BY <1>1, FS_Singleton DEF Initialize
  <2>3. TypeOK'
    BY <1>1, <2>1, <2>2 DEF Initialize, Core, TypeOK
  <2>4. ClientType' /\ Unlisted'
    BY <1>1, <2>1 DEF Initialize, Core, ClientType, Unlisted
  <2> QED
    BY <2>3, <2>4 DEF Core
<1>2. CASE InitializeAgain(i)
  <2>1. told' \in [Inits -> Seq({"success", "operation_in_progress"})]
    <3>1. Append(told[i], "operation_in_progress")
                \in Seq({"success", "operation_in_progress"})
      BY DEF Core, TypeOK
    <3>2. told' = [told EXCEPT ![i] = Append(told[i], "operation_in_progress")]
      BY <1>2 DEF InitializeAgain, Tell
    <3> QED
      BY <3>1, <3>2 DEF Core, TypeOK
  <2>2. TypeOK'
    BY <1>2, <2>1 DEF InitializeAgain, Core, TypeOK
  <2>3. ClientType' /\ Unlisted'
    BY <1>2 DEF InitializeAgain, Core, ClientType, Unlisted
  <2> QED
    BY <2>2, <2>3 DEF Core
<1> QED
  BY <1>1, <1>2

LEMMA PollCore ==
    ASSUME Core, NEW n \in Uuids, Poll(n)
    PROVE  Core'
<1>1. TypeOK /\ polls \in [Uuids -> [Phases -> Nat]]
  BY DEF Core, TypeOK
<1>2. ASSUME NEW age \in {"fresh", "stale"}, StatusSent(n, age) PROVE Core'
  <2>1. n \in nodes
    BY <1>2, RequestedIsListed DEF StatusSent
  <2>2. polls' \in [Uuids -> [Phases -> Nat]]
        /\ \A m \in Uuids \ {n} : polls'[m] = polls[m]
    <3>1. age \in Phases /\ "sent" \in Phases \ {age} /\ 1 \in {0, 1}
      BY DEF Phases
    <3>2. polls[n][age] > 0
          /\ polls' = [polls EXCEPT ![n][age] = @ - 1, ![n]["sent"] = @ + 1]
      BY <1>2 DEF StatusSent
    <3> QED
      BY <1>1, <3>1, <3>2, PollMoves
  <2>3. TypeOK'
    BY <1>2, <2>2 DEF StatusSent, Core, TypeOK
  <2>4. ClientType' /\ Unlisted'
    BY <1>2, <2>1, <2>2 DEF StatusSent, Core, ClientType, Unlisted
  <2> QED
    BY <2>3, <2>4 DEF Core
<1>3. CASE StatusSendFailed(n)
  <2>1. n \in nodes
    BY <1>3, RequestedIsListed DEF StatusSendFailed
  <2>2. polls' \in [Uuids -> [Phases -> Nat]]
        /\ \A m \in Uuids \ {n} : polls'[m] = polls[m]
    BY <1>1, <1>3, PollEnds DEF StatusSendFailed, Phases
  <2>3. duration' \in [Uuids -> 0 .. MaxDuration]
        /\ \A m \in Uuids \ {n} : duration'[m] = duration[m]
    <3>1. 0 \in 0 .. MaxDuration
      BY SwarmAssumption
    <3> QED
      BY <1>3, <3>1 DEF StatusSendFailed, Core, TypeOK
  <2>4. armed' \subseteq nodes
    BY <1>3, <2>1 DEF StatusSendFailed, Core, TypeOK
  <2>5. TypeOK'
    BY <1>3, <2>2, <2>3, <2>4 DEF StatusSendFailed, Core, TypeOK
  <2>6. ClientType' /\ Unlisted'
    BY <1>3, <2>1, <2>2, <2>3 DEF StatusSendFailed, Core, ClientType, Unlisted
  <2> QED
    BY <2>5, <2>6 DEF Core
<1>4. CASE StatusSendFailedStale(n)
  <2>1. n \in nodes
    BY <1>4, RequestedIsListed DEF StatusSendFailedStale
  <2>2. polls' \in [Uuids -> [Phases -> Nat]]
        /\ \A m \in Uuids \ {n} : polls'[m] = polls[m]
    BY <1>1, <1>4, PollEnds DEF StatusSendFailedStale, Phases
  <2>3. armed' \subseteq nodes /\ failed' \in BOOLEAN
    BY <1>4, <2>1 DEF StatusSendFailedStale, Core, TypeOK
  <2>4. TypeOK'
    BY <1>4, <2>2, <2>3 DEF StatusSendFailedStale, Core, TypeOK
  <2>5. ClientType' /\ Unlisted'
    BY <1>4, <2>1, <2>2 DEF StatusSendFailedStale, Core, ClientType, Unlisted
  <2> QED
    BY <2>4, <2>5 DEF Core
<1>5. CASE TimerExpires(n)
  <2>1. n \in nodes
    BY <1>5 DEF TimerExpires, Core, TypeOK
  <2>2. polls' \in [Uuids -> [Phases -> Nat]]
        /\ \A m \in Uuids \ {n} : polls'[m] = polls[m]
    <3>1. [polls[n] EXCEPT !["queued"] = @ + 1] \in [Phases -> Nat]
      BY <1>1 DEF Phases
    <3> QED
      BY <1>1, <1>5, <3>1 DEF TimerExpires
  <2>3. TypeOK'
    BY <1>5, <2>2 DEF TimerExpires, Core, TypeOK
  <2>4. ClientType' /\ Unlisted'
    BY <1>5, <2>1, <2>2 DEF TimerExpires, Core, ClientType, Unlisted
  <2> QED
    BY <2>3, <2>4 DEF Core
<1>6. CASE TimerHandled(n)
  <2>1. PICK more \in {0, 1} :
            /\ more = 1 <=> n \in nodes
            /\ polls' = [polls EXCEPT ![n]["queued"] = @ - 1, ![n]["fresh"] = @ + more]
    <3>1. polls[n]["fresh"] \in Nat
      BY <1>1 DEF Phases
    <3>2. CASE n \in nodes
      BY <1>6, <3>2 DEF TimerHandled
    <3>3. CASE n \notin nodes
      <4>1. [polls[n] EXCEPT !["queued"] = @ - 1]["fresh"] + 0
                = [polls[n] EXCEPT !["queued"] = @ - 1]["fresh"]
        BY <1>1, <3>1 DEF Phases
      <4>2. polls' = [polls EXCEPT ![n]["queued"] = @ - 1, ![n]["fresh"] = @ + 0]
        BY <1>1, <1>6, <3>3, <4>1 DEF TimerHandled
      <4> QED
        BY <3>3, <4>2
    <3> QED
      BY <3>2, <3>3
  <2>2. /\ polls' \in [Uuids -> [Phases -> Nat]]
        /\ \A m \in Uuids \ {n} : polls'[m] = polls[m]
        /\ polls'[n]["fresh"] = polls[n]["fresh"] + more
        /\ \A ph \in {"stale", "sent"} : polls'[n][ph] = polls[n][ph]
    <3>1. "queued" \in Phases /\ "fresh" \in Phases \ {"queued"}
          /\ {"stale", "sent"} \subseteq Phases \ {"queued", "fresh"}
      BY DEF Phases
    <3>2. polls[n]["queued"] > 0
      BY <1>6 DEF TimerHandled
    <3> QED
      BY <1>1, <2>1, <3>1, <3>2, PollMoves
  <2>3. TypeOK'
    <3>1. failed' \in BOOLEAN
      BY <1>6 DEF TimerHandled
    <3> QED
      BY <1>6, <2>2, <3>1 DEF TimerHandled, Core, TypeOK
  <2>4. ClientType' /\ Unlisted'
    BY <1>6, <2>1, <2>2 DEF TimerHandled, Core, ClientType, Unlisted
  <2> QED
    BY <2>3, <2>4 DEF Core
<1>7. CASE GoneWriteEnds(n)
  <2>1. PICK waits \in {0, 1} :
            polls' = [polls EXCEPT ![n]["gone"] = @ - 1, ![n]["queued"] = @ + waits]
    BY <1>7 DEF GoneWriteEnds
  <2>2. /\ polls' \in [Uuids -> [Phases -> Nat]]
        /\ \A m \in Uuids \ {n} : polls'[m] = polls[m]
        /\ \A ph \in {"fresh", "stale", "sent"} : polls'[n][ph] = polls[n][ph]
    <3>1. "gone" \in Phases /\ "queued" \in Phases \ {"gone"}
          /\ {"fresh", "stale", "sent"} \subseteq Phases \ {"gone", "queued"}
      BY DEF Phases
    <3>2. polls[n]["gone"] > 0
      BY <1>7 DEF GoneWriteEnds
    <3> QED
      BY <1>1, <2>1, <3>1, <3>2, PollMoves
  <2>3. TypeOK'
    BY <1>7, <2>2 DEF GoneWriteEnds, Core, TypeOK
  <2>4. ClientType'
    BY <1>7 DEF GoneWriteEnds, Core, ClientType
  <2>5. Unlisted'
    <3> SUFFICES ASSUME NEW m \in Uuids \ nodes
                 PROVE  /\ duration[m] = 0 /\ polls'[m]["fresh"] = 0
                        /\ polls'[m]["stale"] = 0 /\ polls'[m]["sent"] = 0
      BY <1>7 DEF GoneWriteEnds, Unlisted
    <3>1. /\ duration[m] = 0 /\ polls[m]["fresh"] = 0
          /\ polls[m]["stale"] = 0 /\ polls[m]["sent"] = 0
      BY DEF Core, Unlisted
    <3>2. CASE m = n
      BY <2>2, <3>1, <3>2
    <3>3. CASE m # n
      BY <2>2, <3>1, <3>3
    <3> QED
      BY <3>2, <3>3
  <2> QED
    BY <2>3, <2>4, <2>5 DEF Core
<1> QED
  BY <1>2, <1>3, <1>4, <1>5, <1>6, <1>7 DEF Poll

\* The polls after a status answer: what is known of each node.
LEMMA NewPollsFacts ==
    ASSUME Core, NEW u \in Uuids, polls[u]["sent"] > 0, NEW L \in SUBSET Uuids
    PROVE  /\ NewPolls(u, L) \in [Uuids -> [Phases -> Nat]]
           /\ \A n \in Uuids \ L : /\ NewPolls(u, L)[n]["fresh"] = 0
                                   /\ NewPolls(u, L)[n]["stale"] = 0
                                   /\ NewPolls(u, L)[n]["sent"] = 0
           /\ \A n \in L \ nodes : NewPolls(u, L)[n]["fresh"] = 1
           /\ \A n \in (L \cap nodes) \ {u} :
                /\ NewPolls(u, L)[n]["stale"] = polls[n]["fresh"] + polls[n]["stale"]
                /\ NewPolls(u, L)[n]["sent"] = polls[n]["sent"]
                /\ NewPolls(u, L)[n]["queued"] = polls[n]["queued"]
<1> DEFINE P == NewPolls(u, L)
<1>1. /\ \A n \in Uuids : polls[n] \in [Phases -> Nat]
      /\ \A n \in Uuids, ph \in Phases : polls[n][ph] \in Nat
      /\ nodes \subseteq Uuids
  BY DEF Core, TypeOK
<1>2. polls[u]["sent"] - 1 \in Nat
  BY <1>1 DEF Phases
<1>3. ASSUME NEW n \in L \cap nodes
      PROVE  /\ P[n] \in [Phases -> Nat]
             /\ P[n]["stale"] = polls[n]["fresh"] + polls[n]["stale"]
             /\ P[n]["sent"] = IF n = u THEN polls[n]["sent"] - 1 ELSE polls[n]["sent"]
             /\ P[n]["queued"] = polls[n]["queued"]
  <2>1. P[n] = KeptPolls(u, n)
    BY <1>1, <1>3 DEF NewPolls
  <2>2. /\ {"fresh", "stale", "sent", "queued"} \subseteq Phases
        /\ polls[n] \in [Phases -> Nat]
        /\ polls[n]["fresh"] \in Nat /\ polls[n]["stale"] \in Nat
    BY <1>1, <1>3 DEF Phases
  <2> QED
    BY <1>2, <1>3, <2>1, <2>2 DEF KeptPolls
<1>4. ASSUME NEW n \in nodes \ L
      PROVE  /\ P[n] \in [Phases -> Nat]
             /\ P[n]["fresh"] = 0 /\ P[n]["stale"] = 0 /\ P[n]["sent"] = 0
  <2>1. P[n] = DroppedPolls(n)
    BY <1>1, <1>4 DEF NewPolls
  <2> QED
    BY <1>1, <1>4, <2>1 DEF DroppedPolls, Phases
<1>5. ASSUME NEW n \in Uuids \ nodes
      PROVE  /\ P[n] \in [Phases -> Nat]
             /\ P[n]["fresh"] = IF n \in L THEN 1 ELSE 0
             /\ P[n]["stale"] = 0 /\ P[n]["sent"] = 0
  <2>1. P[n] = [polls[n] EXCEPT !["fresh"] = IF n \in L THEN 1 ELSE 0]
    BY <1>1, <1>5 DEF NewPolls
  <2>2. {"fresh", "stale", "sent"} \subseteq Phases /\ polls[n] \in [Phases -> Nat]
    BY <1>1, <1>5 DEF Phases
  <2>3. polls[n]["stale"] = 0 /\ polls[n]["sent"] = 0
    BY <1>5 DEF Core, Unlisted
  <2> QED
    BY <2>1, <2>2, <2>3
<1>6. P = [n \in Uuids |-> P[n]]
  BY DEF NewPolls
<1> HIDE DEF P
<1>7. P \in [Uuids -> [Phases -> Nat]]
  BY <1>3, <1>4, <1>5, <1>6
<1>8. \A n \in Uuids \ L : P[n]["fresh"] = 0 /\ P[n]["stale"] = 0 /\ P[n]["sent"] = 0
  BY <1>4, <1>5
<1>9. \A n \in L \ nodes : P[n]["fresh"] = 1
  BY <1>5
<1> QED
  BY <1>3, <1>7, <1>8, <1>9 DEF P

\* The first usable status, and one that is not, complete initialize.
LEMMA CompleteInitType ==
    ASSUME TypeOK, CompleteInit
    PROVE  /\ told' \in [Inits -> Seq({"success", "operation_in_progress"})]
           /\ init_handler' = {} /\ Cardinality(init_handler') <= 1
<1>1. \A i \in Inits : Append(told[i], "success")
                            \in Seq({"success", "operation_in_progress"})
  <2> TAKE i \in Inits
  <2>1. told[i] \in Seq({"success", "operation_in_progress"})
    BY DEF TypeOK
  <2> QED
    BY <2>1
<1>2. told' \in [Inits -> Seq({"success", "operation_in_progress"})]
  BY <1>1 DEF CompleteInit, TypeOK
<1> QED
  BY <1>2, FS_EmptySet DEF CompleteInit

\* A status answer keeps the types: every duration, poll and timer that is left
\* belongs to a node of the new list.
LEMMA StatusCore ==
    ASSUME Core, NEW u \in Uuids, StatusAnswer(u)
    PROVE  Core'
<1>1. /\ u \in nodes /\ blank = {} /\ polls[u]["sent"] > 0
      /\ statuses' \in 0 .. MaxStatus
  <2>1. Answered(u)
    BY DEF StatusAnswer, HandleStatusResponse, HandleGarbledStatus, HandleStatusThrows
  <2> QED
    BY <2>1, SwarmAssumption DEF Answered, Core, TypeOK
<1>2. ASSUME NEW L \in (SUBSET Uuids) \ {{}}, NEW p \in Uuids \cup {NoNode},
             NEW d \in 1 .. MaxDuration, HandleStatusResponse(u, L, p, d)
      PROVE  Core'
  <2>1. /\ nodes' = L /\ blank' = {} /\ primary_node' = p
        /\ duration' = NewDuration(u, L, d)
        /\ fastest_node' \in Fastest(u, L, d, duration')
        /\ polls' = NewPolls(u, L)
        /\ armed' = (armed \cap L) \cup ({u} \cap L)
        /\ client' = BlanksIn(L \ nodes)
        /\ CompleteInit
        /\ silent' = (silent \cap L \cap nodes) \ {u}
        /\ UNCHANGED <<init_called, sends, failed>>
    BY <1>2 DEF HandleStatusResponse, schedule_status_request
  <2>2. /\ duration' \in [Uuids -> 0 .. MaxDuration]
        /\ \A n \in Uuids \ L : duration'[n] = 0
    <3>1. 0 \in 0 .. MaxDuration /\ d \in 0 .. MaxDuration
      BY SwarmAssumption
    <3> QED
      BY <2>1, <3>1 DEF NewDuration, Core, TypeOK
  <2>3. fastest_node' \in Uuids
    BY <2>1 DEF Fastest
  <2>4. polls' \in [Uuids -> [Phases -> Nat]]
        /\ \A n \in Uuids \ L : /\ polls'[n]["fresh"] = 0 /\ polls'[n]["stale"] = 0
                                /\ polls'[n]["sent"] = 0
    BY <1>1, <2>1, NewPollsFacts DEF Core
  <2>5. ClientType' /\ client'.null \subseteq client'.keys
    BY <2>1 DEF Core, TypeOK, ClientType, BlanksIn
  <2>6. /\ told' \in [Inits -> Seq({"success", "operation_in_progress"})]
        /\ init_handler' = {} /\ Cardinality(init_handler') <= 1
    BY <2>1, CompleteInitType DEF Core
  <2>7. armed' \subseteq L /\ silent' \subseteq L
    BY <2>1
  <2>8. TypeOK'
    BY <1>1, <2>1, <2>2, <2>3, <2>4, <2>5, <2>6, <2>7 DEF Core, TypeOK
  <2>9. Unlisted'
    BY <2>1, <2>2, <2>4 DEF Unlisted
  <2> QED
    BY <2>5, <2>8, <2>9 DEF Core
<1>3. ASSUME polls' = [polls EXCEPT ![u]["sent"] = @ - 1]
      PROVE  polls' \in [Uuids -> [Phases -> Nat]]
             /\ \A m \in Uuids \ {u} : polls'[m] = polls[m]
  BY <1>1, <1>3, PollEnds DEF Core, Phases
<1>4. CASE HandleGarbledStatus(u)
  <2>1. polls' \in [Uuids -> [Phases -> Nat]]
        /\ \A m \in Uuids \ {u} : polls'[m] = polls[m]
    BY <1>3, <1>4 DEF HandleGarbledStatus
  <2>2. /\ told' \in [Inits -> Seq({"success", "operation_in_progress"})]
        /\ init_handler' = {} /\ Cardinality(init_handler') <= 1
    BY <1>4, CompleteInitType DEF HandleGarbledStatus, Core
  <2>3. TypeOK'
    BY <1>1, <1>4, <2>1, <2>2 DEF HandleGarbledStatus, Core, TypeOK
  <2>4. ClientType' /\ Unlisted'
    BY <1>1, <1>4, <2>1 DEF HandleGarbledStatus, Core, ClientType, Unlisted
  <2> QED
    BY <2>3, <2>4 DEF Core
<1>5. ASSUME NEW L \in SUBSET Uuids, NEW again \in BOOLEAN,
             HandleStatusThrows(u, L, again)
      PROVE  Core'
  <2>1. polls' \in [Uuids -> [Phases -> Nat]]
        /\ \A m \in Uuids \ {u} : polls'[m] = polls[m]
    BY <1>3, <1>5 DEF HandleStatusThrows
  <2>2. /\ nodes' = nodes \cup L /\ blank' = L
        /\ armed' \subseteq armed \cup {u} /\ silent' \subseteq silent \cup {u}
        /\ UNCHANGED <<duration, primary_node, fastest_node, init_called,
                       init_handler, told, sends, failed>>
    BY <1>5 DEF HandleStatusThrows
  <2>3. ClientType' /\ client'.null \subseteq client'.keys
    <3>1. CASE client.current
      <4>1. client' = [client EXCEPT !.keys = @ \cup L, !.null = @ \cup L]
        BY <1>5, <3>1 DEF HandleStatusThrows
      <4> QED
        BY <4>1 DEF Core, TypeOK, ClientType
    <3>2. CASE ~client.current
      BY <1>5, <3>2 DEF HandleStatusThrows, Core, TypeOK, ClientType
    <3> QED
      BY <3>1, <3>2
  <2>4. nodes' \in (SUBSET Uuids) \ {{}}
    BY <1>1, <2>2 DEF Core, TypeOK
  <2>5. TypeOK'
    BY <1>1, <2>1, <2>2, <2>3, <2>4 DEF Core, TypeOK
  <2>6. Unlisted'
    BY <1>1, <2>1, <2>2 DEF Core, Unlisted
  <2> QED
    BY <2>3, <2>5, <2>6 DEF Core
<1> QED
  BY <1>2, <1>4, <1>5 DEF StatusAnswer

\* So do the steps of the client's thread, and a use of all nodes.
LEMMA ClientCore ==
    ASSUME Core, ClientStep \/ UseAllNodes
    PROVE  Core'
<1>1. ASSUME NEW target \in Uuids \cup {NoNode}, BeginSend(target) PROVE Core'
  <2>1. ClientType' /\ client'.null \subseteq client'.keys
    BY <1>1 DEF BeginSend, ClientType, Core, TypeOK
  <2>2. sends' \in 0 .. MaxSends
    BY <1>1, SwarmAssumption DEF BeginSend, Core, TypeOK
  <2>3. TypeOK' /\ Unlisted'
    BY <1>1, <2>1, <2>2 DEF BeginSend, Core, TypeOK, Unlisted
  <2> QED
    BY <2>1, <2>3 DEF Core
<1>2. ASSUME NEW n \in Uuids, EndSend(n) PROVE Core'
  <2>1. ClientType' /\ client'.null \subseteq client'.keys /\ failed' \in BOOLEAN
    BY <1>2 DEF EndSend, ClientType, Idle
  <2>2. TypeOK' /\ Unlisted'
    BY <1>2, <2>1 DEF EndSend, Core, TypeOK, Unlisted
  <2> QED
    BY <2>1, <2>2 DEF Core
<1>3. CASE UseAllNodes
  BY <1>3 DEF UseAllNodes, Core, TypeOK, ClientType, Unlisted
<1> QED
  BY <1>1, <1>2, <1>3 DEF ClientStep

\* Every step keeps the types.
LEMMA CoreStep == Core /\ [Next]_vars => Core'
<1> SUFFICES ASSUME Core, [Next]_vars PROVE Core'
  OBVIOUS
<1>1. CASE UNCHANGED vars
  BY <1>1 DEF vars, Core, TypeOK, ClientType, Unlisted
<1> QED
  BY <1>1, InitializeCore, PollCore, StatusCore, ClientCore DEF Next

-----------------------------------------------------------------------------
(* The handler of initialize *)

\* A history that was empty has one entry after the first.
LEMMA AppendToEmpty == \A e : Len(Append(<<>>, e)) = 1 /\ Len(<<>>) = 0
  OBVIOUS

\* The handler is taken when it is called, and the calls it is not the handler of
\* are told that one is in progress.
LEMMA HandlerStep ==
    ASSUME Core, HandlerWaits, InitHandlerOnce, [Next]_vars
    PROVE  HandlerWaits' /\ InitHandlerOnce'
<1> USE DEF HandlerWaits, InitHandlerOnce
<1>1. told \in [Inits -> Seq({"success", "operation_in_progress"})]
      /\ init_handler \subseteq Inits
  BY DEF Core, TypeOK
<1>2. CASE UNCHANGED <<init_handler, told>>
  BY <1>2
<1>3. ASSUME NEW i \in Inits, Initialize(i)
      PROVE  HandlerWaits' /\ InitHandlerOnce'
  BY <1>3 DEF Initialize
<1>4. ASSUME NEW i \in Inits, InitializeAgain(i)
      PROVE  HandlerWaits' /\ InitHandlerOnce'
  <2>1. /\ told[i] = <<>> /\ i \notin init_handler /\ init_handler' = init_handler
        /\ told' = [told EXCEPT ![i] = Append(told[i], "operation_in_progress")]
    BY <1>4 DEF InitializeAgain, Tell
  <2>2. told'[i] = Append(<<>>, "operation_in_progress")
    BY <1>1, <2>1, Zenon
  <2>3. Len(told'[i]) = 1
    BY <2>2, AppendToEmpty, Zenon
  <2>4. \A j \in Inits \ {i} : told'[j] = told[j]
    BY <1>1, <2>1
  <2> QED
    BY <1>1, <2>1, <2>3, <2>4
<1>5. CASE CompleteInit
  <2>1. init_handler' = {}
    BY <1>5 DEF CompleteInit
  <2> SUFFICES ASSUME NEW i \in Inits PROVE Len(told'[i]) <= 1
    BY <2>1
  <2>2. CASE i \in init_handler
    <3>1. told'[i] = Append(<<>>, "success")
      <4>1. told'[i] = Append(told[i], "success") /\ told[i] = <<>>
        BY <1>5, <2>2 DEF CompleteInit
      <4> QED
        BY <4>1, Zenon
    <3>2. Len(told'[i]) = 1
      BY <3>1, AppendToEmpty, Zenon
    <3> QED
      BY <3>2
  <2>3. CASE i \notin init_handler
    BY <1>5, <2>3 DEF CompleteInit
  <2> QED
    BY <2>2, <2>3
<1>6. ASSUME NEW n \in Uuids, Poll(n) PROVE UNCHANGED <<init_handler, told>>
  BY <1>6 DEF Poll, StatusSent, StatusSendFailed, StatusSendFailedStale,
     GoneWriteEnds, TimerExpires, TimerHandled
<1>7. ASSUME NEW n \in Uuids, StatusAnswer(n)
      PROVE  CompleteInit \/ UNCHANGED <<init_handler, told>>
  BY <1>7 DEF StatusAnswer, HandleStatusResponse, HandleGarbledStatus,
     HandleStatusThrows
<1>8. ClientStep \/ UseAllNodes => UNCHANGED <<init_handler, told>>
  BY DEF ClientStep, BeginSend, EndSend, UseAllNodes
<1>9. UNCHANGED vars => UNCHANGED <<init_handler, told>>
  BY DEF vars
<1> QED
  BY <1>2, <1>3, <1>4, <1>5, <1>6, <1>7, <1>8, <1>9 DEF Next

-----------------------------------------------------------------------------
(* Every listed node is polled *)

\* A step passes the poll of a node on from one phase to the next.
LEMMA PolledStep ==
    ASSUME Core, ListedNodesPolled, [Next]_vars
    PROVE  ListedNodesPolled'
<1>1. TypeOK /\ polls \in [Uuids -> [Phases -> Nat]]
      /\ \A n \in Uuids, ph \in Phases : polls[n][ph] \in Nat
  BY DEF Core, TypeOK
<1>2. nodes \subseteq Uuids
  BY DEF Core, TypeOK
<1> SUFFICES ASSUME init_called', ~failed',
                    NEW n \in nodes' \ (silent' \cup blank')
             PROVE  Polled(n)'
  BY DEF ListedNodesPolled
<1>3. n \in Uuids
  BY CoreStep DEF Core, TypeOK
<1>4. CASE UNCHANGED vars
  BY <1>4 DEF vars, ListedNodesPolled, Polled
<1>5. ASSUME NEW i \in Inits, Initialize(i) PROVE Polled(n)'
  <2>1. n \in nodes
    BY <1>5 DEF Initialize
  <2>2. polls[n] \in [Phases -> Nat] /\ "fresh" \in Phases \ {"gone"}
    BY <1>1, <1>3 DEF Phases
  <2>3. polls'[n]["fresh"] = polls[n]["fresh"] + 1
    BY <1>1, <1>3, <1>5, <2>1, <2>2 DEF Initialize
  <2>4. polls'[n]["fresh"] > 0
    BY <2>2, <2>3
  <2> QED
    BY <2>2, <2>4 DEF Polled
<1>6. ASSUME NEW i \in Inits, InitializeAgain(i) PROVE Polled(n)'
  BY <1>6 DEF InitializeAgain, ListedNodesPolled, Polled
<1>7. CASE ClientStep \/ UseAllNodes
  <2>1. ~failed /\ UNCHANGED <<init_called, nodes, silent, blank, polls, armed>>
    BY <1>7 DEF ClientStep, BeginSend, EndSend, UseAllNodes
  <2> QED
    BY <2>1 DEF ListedNodesPolled, Polled
<1>8. ASSUME NEW m \in Uuids, Poll(m) PROVE Polled(n)'
  <2>1. /\ ~failed /\ UNCHANGED <<init_called, nodes, silent, blank>>
        /\ armed \ {m} \subseteq armed'
    BY <1>8 DEF Poll, StatusSent, StatusSendFailed, StatusSendFailedStale,
       GoneWriteEnds, TimerExpires, TimerHandled
  <2>2. Polled(n)
    BY <2>1 DEF ListedNodesPolled
  <2>3. ASSUME NEW ph \in Phases \ {"gone"}, polls'[m][ph] > 0, n = m
        PROVE  Polled(n)'
    BY <2>3 DEF Polled
  <2>4. CASE n # m
    <3>1. polls'[n] = polls[n]
      BY <1>1, <1>3, <1>8, <2>4 DEF Poll, StatusSent, StatusSendFailed,
         StatusSendFailedStale, GoneWriteEnds, TimerExpires, TimerHandled
    <3> QED
      BY <2>1, <2>2, <2>4, <3>1 DEF Polled
  <2>5. CASE n = m
    <3>1. ASSUME NEW age \in {"fresh", "stale"}, StatusSent(m, age) PROVE Polled(n)'
      <4>1. age \in Phases /\ "sent" \in Phases \ {age} /\ 1 \in {0, 1}
        BY DEF Phases
      <4>2. polls'[m]["sent"] = polls[m]["sent"] + 1
        BY <1>1, <3>1, <4>1, PollMoves DEF StatusSent
      <4>3. polls'[m]["sent"] > 0
        BY <1>1, <4>1, <4>2
      <4> QED
        BY <2>3, <2>5, <4>1, <4>3 DEF Phases
    <3>2. CASE StatusSendFailed(m)
      BY <2>5, <3>2 DEF StatusSendFailed, Polled
    <3>3. CASE StatusSendFailedStale(m)
      BY <2>5, <3>3 DEF StatusSendFailedStale, Polled
    <3>4. CASE TimerExpires(m)
      <4>1. polls'[m]["queued"] = polls[m]["queued"] + 1 /\ "queued" \in Phases
        BY <1>1, <3>4 DEF TimerExpires, Phases
      <4>2. polls'[m]["queued"] > 0
        BY <1>1, <4>1
      <4> QED
        BY <2>3, <2>5, <4>1, <4>2 DEF Phases
    <3>5. CASE TimerHandled(m)
      <4>1. m \in nodes
        BY <2>1, <2>5
      <4>2. polls[m]["queued"] > 0 /\
            polls' = [polls EXCEPT ![m]["queued"] = @ - 1, ![m]["fresh"] = @ + 1]
        BY <3>5, <4>1 DEF TimerHandled
      <4>3. "queued" \in Phases /\ "fresh" \in Phases \ {"queued"} /\ 1 \in {0, 1}
        BY DEF Phases
      <4>4. polls'[m]["fresh"] = polls[m]["fresh"] + 1
        BY <1>1, <4>2, <4>3, PollMoves
      <4>5. polls'[m]["fresh"] > 0
        BY <1>1, <4>3, <4>4
      <4> QED
        BY <2>3, <2>5, <4>3, <4>5 DEF Phases
    <3>6. CASE GoneWriteEnds(m)
      <4>1. PICK waits \in {0, 1} :
                polls' = [polls EXCEPT ![m]["gone"] = @ - 1, ![m]["queued"] = @ + waits]
        BY <3>6 DEF GoneWriteEnds
      <4>2. /\ polls[m]["gone"] > 0 /\ armed' = armed
            /\ "gone" \in Phases /\ "queued" \in Phases \ {"gone"}
        BY <3>6 DEF GoneWriteEnds, Phases
      <4>3. /\ polls'[m]["queued"] = polls[m]["queued"] + waits
            /\ \A ph \in Phases \ {"gone", "queued"} : polls'[m][ph] = polls[m][ph]
        BY <1>1, <4>1, <4>2, PollMoves
      <4>4. polls[m]["queued"] > 0 => polls'[m]["queued"] > 0
        BY <1>1, <4>2, <4>3
      <4> QED
        BY <2>2, <2>5, <4>2, <4>3, <4>4 DEF Polled
    <3> QED
      BY <1>8, <3>1, <3>2, <3>3, <3>4, <3>5, <3>6 DEF Poll
  <2> QED
    BY <2>4, <2>5
<1>9. ASSUME NEW u \in Uuids, StatusAnswer(u) PROVE Polled(n)'
  <2>1. Answered(u)
    BY <1>9 DEF StatusAnswer, HandleStatusResponse, HandleGarbledStatus,
       HandleStatusThrows
  <2>2. ~failed /\ blank = {} /\ u \in nodes /\ polls[u]["sent"] > 0
    BY <2>1 DEF Answered
  <2>3. init_called' = init_called
    BY <1>9 DEF StatusAnswer, HandleStatusResponse, HandleGarbledStatus,
       HandleStatusThrows
  <2>4. n \in nodes /\ n \notin silent => Polled(n)
    BY <2>2, <2>3 DEF ListedNodesPolled
  <2>5. ASSUME NEW L \in (SUBSET Uuids) \ {{}}, NEW p \in Uuids \cup {NoNode},
               NEW d \in 1 .. MaxDuration, HandleStatusResponse(u, L, p, d)
        PROVE  Polled(n)'
    <3>1. /\ nodes' = L /\ polls' = NewPolls(u, L)
          /\ armed' = (armed \cap L) \cup ({u} \cap L)
          /\ silent' = (silent \cap L \cap nodes) \ {u}
      BY <2>5 DEF HandleStatusResponse, schedule_status_request
    <3>2. n \in L /\ {"fresh", "stale", "sent", "queued"} = Phases \ {"gone"}
      BY <3>1 DEF Phases
    <3>3. CASE n = u
      BY <3>1, <3>2, <3>3 DEF Polled
    <3>4. CASE n \notin nodes
      <4>1. polls'[n]["fresh"] = 1
        BY <1>1, <2>2, <3>1, <3>2, <3>4, NewPollsFacts
      <4>2. polls'[n]["fresh"] > 0
        BY <4>1
      <4> QED
        BY <3>2, <4>2 DEF Polled
    <3>5. CASE n \in nodes /\ n # u
      <4>1. Polled(n)
        BY <2>4, <3>1, <3>2, <3>5
      <4>2. n \in (L \cap nodes) \ {u}
        BY <3>2, <3>5
      <4>3. /\ polls'[n]["stale"] = polls[n]["fresh"] + polls[n]["stale"]
            /\ polls'[n]["sent"] = polls[n]["sent"]
            /\ polls'[n]["queued"] = polls[n]["queued"]
        BY <1>1, <2>2, <3>1, <4>2, NewPollsFacts
      <4>4. CASE n \in armed
        BY <3>1, <3>2, <4>4 DEF Polled
      <4>5. ASSUME NEW ph \in Phases \ {"gone"}, polls[n][ph] > 0 PROVE Polled(n)'
        <5>1. \E q \in Phases \ {"gone"} : polls'[n][q] > 0
          <6>1. /\ polls[n]["fresh"] \in Nat /\ polls[n]["stale"] \in Nat
                /\ polls[n]["sent"] \in Nat /\ polls[n]["queued"] \in Nat
            BY <1>1, <1>3, <3>2
          <6>2. CASE ph = "fresh" \/ ph = "stale"
            <7>1. polls'[n]["stale"] > 0
              BY <4>3, <4>5, <6>1, <6>2
            <7> QED
              BY <3>2, <7>1
          <6>3. CASE ph = "sent"
            BY <3>2, <4>3, <4>5, <6>3
          <6>4. CASE ph = "queued"
            BY <3>2, <4>3, <4>5, <6>4
          <6> QED
            BY <3>2, <6>2, <6>3, <6>4
        <5> QED
          BY <5>1 DEF Polled
      <4> QED
        BY <4>1, <4>4, <4>5 DEF Polled
    <3> QED
      BY <3>3, <3>4, <3>5
  <2>6. ASSUME polls' = [polls EXCEPT ![u]["sent"] = @ - 1], armed \subseteq armed',
               n # u, n \in nodes, n \notin silent
        PROVE  Polled(n)'
    <3>1. polls'[n] = polls[n]
      BY <1>1, <1>3, <2>6
    <3> QED
      BY <2>4, <2>6, <3>1 DEF Polled
  <2>7. CASE HandleGarbledStatus(u)
    BY <2>6, <2>7 DEF HandleGarbledStatus
  <2>8. ASSUME NEW L \in SUBSET Uuids, NEW again \in BOOLEAN,
               HandleStatusThrows(u, L, again)
        PROVE  Polled(n)'
    <3>1. CASE n = u
      BY <2>8, <3>1 DEF HandleStatusThrows, Polled
    <3>2. CASE n # u
      <4>1. n \in nodes /\ n \notin silent /\ armed \subseteq armed'
        BY <2>8 DEF HandleStatusThrows
      <4> QED
        BY <2>6, <2>8, <3>2, <4>1 DEF HandleStatusThrows
    <3> QED
      BY <3>1, <3>2
  <2> QED
    BY <1>9, <2>5, <2>7, <2>8 DEF StatusAnswer
<1> QED
  BY <1>4, <1>5, <1>6, <1>7, <1>8, <1>9 DEF Next

-----------------------------------------------------------------------------
(* The fastest node *)

\* The search of a status answer ends with the fastest node of the new list.
LEMMA FastestFound ==
    ASSUME Core, NEW u \in Uuids, NEW L \in SUBSET Uuids, NEW d \in 1 .. MaxDuration,
           NEW f \in Fastest(u, L, d, NewDuration(u, L, d)),
           f \in L, NewDuration(u, L, d)[f] > 0,
           NEW n \in L, NewDuration(u, L, d)[n] > 0
    PROVE  NewDuration(u, L, d)[f] <= NewDuration(u, L, d)[n]
<1> DEFINE dur == NewDuration(u, L, d)
           faster == {m \in L : dur[m] > 0 /\ dur[m] < d}
<1>1. d \in Nat /\ 0 .. MaxDuration \subseteq Nat /\ MaxDuration \in Nat
  BY SwarmAssumption
<1>2. \A m \in L : dur[m] \in Nat
  <2>1. \A m \in Uuids : duration[m] \in Nat
    BY <1>1 DEF Core, TypeOK
  <2> QED
    BY <1>1, <2>1 DEF NewDuration
<1>3. u \in L => dur[u] = d
  BY DEF NewDuration
<1>4. f \in IF faster = {} THEN {u} ELSE {x \in faster : \A m \in faster : dur[x] <= dur[m]}
  BY DEF Fastest
<1> HIDE DEF dur
<1>5. CASE faster = {}
  BY <1>1, <1>2, <1>3, <1>4, <1>5 DEF dur
<1>6. CASE faster # {}
  <2>1. f \in faster /\ \A m \in faster : dur[f] <= dur[m]
    BY <1>4, <1>6
  <2> QED
    BY <1>1, <1>2, <2>1 DEF dur
<1> QED
  BY <1>5, <1>6

\* A failed request and an entry without a node only make durations unknown.
LEMMA FastestStep ==
    ASSUME Core, FastestIsFastest, [Next]_vars
    PROVE  FastestIsFastest'
<1> USE DEF FastestIsFastest
<1>1. CASE UNCHANGED <<nodes, duration, fastest_node>>
  BY <1>1
<1>2. ASSUME NEW n \in Uuids, StatusSendFailed(n) PROVE FastestIsFastest'
  <2>1. \A m \in Uuids : duration'[m] = IF m = n THEN 0 ELSE duration[m]
    BY <1>2 DEF StatusSendFailed, Core, TypeOK
  <2>2. nodes' = nodes /\ fastest_node' = fastest_node /\ nodes \subseteq Uuids
    BY <1>2 DEF StatusSendFailed, Core, TypeOK
  <2> QED
    BY <2>1, <2>2
<1>3. ASSUME NEW u \in Uuids, NEW L \in (SUBSET Uuids) \ {{}},
             NEW p \in Uuids \cup {NoNode}, NEW d \in 1 .. MaxDuration,
             HandleStatusResponse(u, L, p, d)
      PROVE  FastestIsFastest'
  <2>1. /\ nodes' = L /\ duration' = NewDuration(u, L, d)
        /\ fastest_node' \in Fastest(u, L, d, NewDuration(u, L, d))
    BY <1>3 DEF HandleStatusResponse
  <2> QED
    BY <2>1, FastestFound
<1>4. ASSUME NEW u \in Uuids, NEW L \in SUBSET Uuids, NEW again \in BOOLEAN,
             HandleStatusThrows(u, L, again)
      PROVE  FastestIsFastest'
  <2>1. /\ nodes' = nodes \cup L /\ L \cap nodes = {}
        /\ UNCHANGED <<duration, fastest_node>>
    BY <1>4 DEF HandleStatusThrows
  <2>2. \A n \in L : duration[n] = 0
    BY <2>1 DEF Core, Unlisted
  <2> QED
    BY <2>1, <2>2
<1>5. ASSUME NEW n \in Uuids,
             \/ \E age \in {"fresh", "stale"} : StatusSent(n, age)
             \/ StatusSendFailedStale(n) \/ GoneWriteEnds(n) \/ TimerExpires(n) \/ TimerHandled(n)
             \/ HandleGarbledStatus(n)
      PROVE  UNCHANGED <<nodes, duration, fastest_node>>
  BY <1>5 DEF StatusSent, StatusSendFailedStale, GoneWriteEnds, TimerExpires, TimerHandled,
     HandleGarbledStatus
<1>6. ASSUME NEW i \in Inits, Initialize(i) \/ InitializeAgain(i)
      PROVE  UNCHANGED <<nodes, duration, fastest_node>>
  BY <1>6 DEF Initialize, InitializeAgain
<1>7. ClientStep \/ UseAllNodes => UNCHANGED <<nodes, duration, fastest_node>>
  BY DEF ClientStep, BeginSend, EndSend, UseAllNodes
<1>8. UNCHANGED vars => UNCHANGED <<nodes, duration, fastest_node>>
  BY DEF vars
<1> HIDE DEF FastestIsFastest
<1>9. ASSUME NEW n \in Uuids, Poll(n) \/ StatusAnswer(n) PROVE FastestIsFastest'
  BY <1>1, <1>2, <1>3, <1>4, <1>5, <1>9 DEF Poll, StatusAnswer
<1> QED
  BY <1>1, <1>6, <1>7, <1>8, <1>9 DEF Next

-----------------------------------------------------------------------------
(* What swarm guarantees *)

\* The conjuncts hold together in every reachable state.
LEMMA Invariance == Spec => []IInv
<1>1. IInv /\ [Next]_vars => IInv'
  BY CoreStep, HandlerStep, PolledStep, FastestStep DEF IInv
<1> QED
  BY <1>1, InitIInv, PTL DEF Spec

\* The members of swarm keep their types: the list is never empty, and every timer
\* that is armed belongs to a node of the list.
THEOREM TypeCorrect == Spec => []TypeOK
<1>1. IInv => TypeOK
  BY DEF IInv, Core
<1> QED
  BY <1>1, Invariance, PTL

\* The handler of each call of initialize is called at most once.
THEOREM InitHandlerAtMostOnce == Spec => []InitHandlerOnce
<1>1. IInv => InitHandlerOnce
  BY DEF IInv
<1> QED
  BY <1>1, Invariance, PTL

\* Whatever nodes join, leave and come back, and whatever requests and answers are
\* lost: a listed node stays polled unless its status could not be used.
THEOREM NodesStayPolled == Spec => []ListedNodesPolled
<1>1. IInv => ListedNodesPolled
  BY DEF IInv
<1> QED
  BY <1>1, Invariance, PTL

\* The node requests are sent to first is the fastest of those that are known.
THEOREM FastestAlways == Spec => []FastestIsFastest
<1>1. IInv => FastestIsFastest
  BY DEF IInv
<1> QED
  BY <1>1, Invariance, PTL
=============================================================================
