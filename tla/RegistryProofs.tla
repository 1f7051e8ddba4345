--------------------------- MODULE RegistryProofs ---------------------------
(***************************************************************************)
(* Proofs about the reading of the registry for contracts of any size and  *)
(* any number of changes, given that the parsers understand the replies of *)
(* the contract as far as they can (Decoded).                              *)
(***************************************************************************)
EXTENDS Registry, SequenceTheorems, TLAPS

-----------------------------------------------------------------------------
(* The inductive invariant *)

\* The history is complete.
History ==
    Entries(contract) \subseteq listed /\ listed \subseteq Entries(contract) \cup removed

Lists ==
    /\ swarm_list \in Seq(Texts) /\ node_list \in Seq(Texts)
    /\ phase = "info" => swarm_list # <<>> /\ node_list # <<>>

\* The nodes still to read were listed on the current swarm.
NamesListed ==
    phase = "info" =>
        \A n \in ToSet(node_list) :
            \E e \in listed : e.swarm = Head(swarm_list) /\ e.node = n

\* The registry under construction invents nothing,
SoundSoFar ==
    /\ \A e \in Held(sw_reg) : Justified(e)
    /\ \A s \in DOMAIN sw_reg : DOMAIN sw_reg[s] # {}

\* has the right address of a node that was there all the time, if it is readable,
Stable == {e \in Entries(contract) : e.node \notin {n.id : n \in Newcomers}}

RightSoFar ==
    \A e \in Stable : \A d \in Held(sw_reg) :
        SameNode(d, e) /\ Readable(e.address) => d = e

\* and holds those of them that are not still to be read.
CompleteSoFar ==
    \A e \in Stable :
        /\ phase = "peers" => e.swarm \in ToSet(swarm_list) \/ Entered(e, sw_reg)
        /\ phase = "info" =>
            \/ e.swarm \in ToSet(Tail(swarm_list))
            \/ e.swarm = Head(swarm_list) /\ e.node \in ToSet(node_list)
            \/ Entered(e, sw_reg)

Begun == phase \in {"idle", "swarms"} => sw_reg = NoSwarms

IInv ==
    /\ WellFormed(contract) /\ History /\ Lists /\ NamesListed /\ Begun
    /\ SoundSoFar /\ RightSoFar /\ CompleteSoFar
    /\ RegisteredWasListed /\ StableNodesRegistered

-----------------------------------------------------------------------------
(* Lemmas about the operators of the model *)

Entry(s, n, a) == [swarm |-> s, node |-> n, address |-> a]

\* The members of Held.
LEMMA HeldMember ==
    ASSUME NEW reg, NEW e
    PROVE  e \in Held(reg) <=>
            \E s \in DOMAIN reg : \E n \in DOMAIN reg[s] : e = Entry(s, n, reg[s][n])
  BY DEF Held, Entry

\* The members of Entries.
LEMMA EntriesMember ==
    ASSUME NEW content, NEW e
    PROVE  e \in Entries(content) <=>
            \E i \in DOMAIN content : \E j \in DOMAIN content[i].nodes :
                /\ content[i].id # NoId /\ content[i].nodes[j].id # NoId
                /\ e = Entry(content[i].id, content[i].nodes[j].id,
                             content[i].nodes[j].address)
  BY DEF Entries, ToSet, Entry

\* add_node keeps what is there, and enters the node if it is not.
LEMMA AddNodeHeld ==
    ASSUME NEW reg, NEW s, NEW n, NEW a,
           \A t \in DOMAIN reg : DOMAIN reg[t] # {}
    PROVE  /\ Held(reg) \subseteq Held(add_node(reg, s, n, a))
           /\ Held(add_node(reg, s, n, a)) \subseteq Held(reg) \cup {Entry(s, n, a)}
           /\ \E d \in Held(add_node(reg, s, n, a)) : d.swarm = s /\ d.node = n
           /\ \A t \in DOMAIN add_node(reg, s, n, a) :
                DOMAIN add_node(reg, s, n, a)[t] # {}
<1> DEFINE known == IF s \in DOMAIN reg THEN reg[s] ELSE NoSwarms
           nodes == [m \in DOMAIN known \cup {n} |->
                        IF m \in DOMAIN known THEN known[m] ELSE a]
           new == add_node(reg, s, n, a)
<1>1. new = [t \in DOMAIN reg \cup {s} |-> IF t = s THEN nodes ELSE reg[t]]
  BY DEF add_node
<1>2. DOMAIN NoSwarms = {}
  BY DEF NoSwarms
<1> HIDE DEF known, nodes, new
<1>3. /\ DOMAIN new = DOMAIN reg \cup {s}
      /\ new[s] = nodes
      /\ \A t \in DOMAIN reg : t # s => new[t] = reg[t]
  BY <1>1
<1>4. /\ DOMAIN nodes = DOMAIN known \cup {n}
      /\ \A m \in DOMAIN known : nodes[m] = known[m]
      /\ n \notin DOMAIN known => nodes[n] = a
  BY DEF nodes
<1>5. /\ s \in DOMAIN reg => known = reg[s]
      /\ s \notin DOMAIN reg => DOMAIN known = {}
  BY <1>2 DEF known
<1>6. ASSUME NEW e \in Held(reg) PROVE e \in Held(new)
  <2>0. PICK t \in DOMAIN reg : \E m \in DOMAIN reg[t] : e = Entry(t, m, reg[t][m])
    BY HeldMember
  <2>1. PICK m \in DOMAIN reg[t] : e = Entry(t, m, reg[t][m])
    BY <2>0
  <2>2. t \in DOMAIN new /\ m \in DOMAIN new[t] /\ new[t][m] = reg[t][m]
    BY <1>3, <1>4, <1>5
  <2> QED
    BY <2>1, <2>2, HeldMember
<1>7. ASSUME NEW e \in Held(new) PROVE e \in Held(reg) \cup {Entry(s, n, a)}
  <2>0. PICK t \in DOMAIN new : \E m \in DOMAIN new[t] : e = Entry(t, m, new[t][m])
    BY HeldMember
  <2>1. PICK m \in DOMAIN new[t] : e = Entry(t, m, new[t][m])
    BY <2>0
  <2>2. CASE t # s
    BY <2>1, <2>2, <1>3, HeldMember
  <2>3. CASE t = s /\ m \in DOMAIN known
    <3>1. s \in DOMAIN reg /\ m \in DOMAIN reg[s] /\ new[s][m] = reg[s][m]
      BY <2>3, <1>3, <1>4, <1>5
    <3> QED
      BY <2>1, <2>3, <3>1, HeldMember
  <2>4. CASE t = s /\ m \notin DOMAIN known
    BY <2>1, <2>4, <1>3, <1>4
  <2> QED
    BY <2>2, <2>3, <2>4
<1>8. \E d \in Held(new) : d.swarm = s /\ d.node = n
  <2>1. Entry(s, n, new[s][n]) \in Held(new)
    BY <1>3, <1>4, HeldMember
  <2> QED
    BY <2>1 DEF Entry
<1>9. \A t \in DOMAIN new : DOMAIN new[t] # {}
  BY <1>3, <1>4
<1> QED
  BY <1>6, <1>7, <1>8, <1>9 DEF new

\* An empty registry holds nothing.
LEMMA NothingHeld == Held(NoSwarms) = {} /\ DOMAIN NoSwarms = {}
<1>1. DOMAIN NoSwarms = {}
  BY DEF NoSwarms
<1> QED
  BY <1>1 DEF Held

-----------------------------------------------------------------------------
(* Changes of the contract *)

\* What one swarm lists.
EntriesOf(sw) ==
    {Entry(sw.id, sw.nodes[j].id, sw.nodes[j].address) :
        j \in {j \in DOMAIN sw.nodes : sw.id # NoId /\ sw.nodes[j].id # NoId}}

\* A changed swarm keeps the contract well formed, and lists what it holds itself.
LEMMA SwarmChanged ==
    ASSUME WellFormed(contract), NEW i \in DOMAIN contract, NEW sw \in Swarms,
           sw.id \in {contract[i].id, NoId}, Distinct(sw.nodes),
           NEW content, content = [contract EXCEPT ![i] = sw]
    PROVE  /\ WellFormed(content)
           /\ Entries(content) \subseteq Entries(contract) \cup EntriesOf(sw)
<1>1. /\ contract \in Seq(Swarms) /\ Distinct(contract)
      /\ \A k \in DOMAIN contract : Distinct(contract[k].nodes)
  BY DEF WellFormed
<1>2. i \in 1 .. Len(contract)
  BY <1>1
<1>3. content \in Seq(Swarms)
  BY <1>1, <1>2, ExceptSeq
<1>4. /\ DOMAIN content = DOMAIN contract
      /\ content[i] = sw
      /\ \A k \in DOMAIN contract \ {i} : content[k] = contract[k]
  BY <1>1
<1>5. Distinct(content)
  BY <1>1, <1>4 DEF Distinct
<1>6. \A k \in DOMAIN content : Distinct(content[k].nodes)
  BY <1>1, <1>4
<1>7. ASSUME NEW e \in Entries(content), e \notin Entries(contract)
      PROVE  e \in EntriesOf(sw)
  <2>1. PICK k \in DOMAIN content :
            \E j \in DOMAIN content[k].nodes :
                /\ content[k].id # NoId /\ content[k].nodes[j].id # NoId
                /\ e = Entry(content[k].id, content[k].nodes[j].id,
                             content[k].nodes[j].address)
    BY <1>7 DEF Entries, ToSet, Entry
  <2>2. k = i
    <3> SUFFICES ASSUME k # i PROVE FALSE
      OBVIOUS
    <3>1. content[k] = contract[k] /\ k \in DOMAIN contract
      BY <1>4
    <3> QED
      BY <1>7, <2>1, <3>1, EntriesMember
  <2> QED
    BY <1>4, <2>1, <2>2 DEF EntriesOf
<1> QED
  BY <1>3, <1>5, <1>6, <1>7 DEF WellFormed

\* A node that is added is a newcomer.
LEMMA AddNodeEffect ==
    ASSUME WellFormed(contract), NEW i \in DOMAIN contract, NEW node \in Newcomers,
           AddNode(i, node)
    PROVE  /\ WellFormed(contract')
           /\ \A e \in Entries(contract') :
                e \in Entries(contract) \/ e.node \in {n.id : n \in Newcomers}
<1> DEFINE old == contract[i].nodes
           sw == [contract[i] EXCEPT !.nodes = Append(old, node)]
<1>1. contract \in Seq(Swarms) /\ contract[i] \in Swarms /\ Distinct(old)
  BY DEF WellFormed
<1>2. node \in Nodes /\ node.id # NoId
  BY RegistryAssumption
<1>3. old \in Seq(Nodes) /\ contract[i].id \in Texts
  BY <1>1 DEF Swarms
<1>4. /\ Append(old, node) \in Seq(Nodes)
      /\ DOMAIN Append(old, node) = DOMAIN old \cup {Len(old) + 1}
      /\ Append(old, node)[Len(old) + 1] = node
      /\ \A j \in DOMAIN old : Append(old, node)[j] = old[j]
  BY <1>2, <1>3
<1>5. \A j \in DOMAIN old : old[j].id # node.id
  BY <1>2 DEF AddNode, Find
<1>6. Distinct(Append(old, node))
  BY <1>1, <1>4, <1>5 DEF Distinct
<1>7. sw \in Swarms /\ sw.id = contract[i].id /\ sw.nodes = Append(old, node)
  BY <1>1, <1>4 DEF Swarms
<1>8. contract' = [contract EXCEPT ![i] = sw]
  BY DEF AddNode, Change
<1> HIDE DEF sw
<1>9. /\ WellFormed(contract')
      /\ Entries(contract') \subseteq Entries(contract) \cup EntriesOf(sw)
  BY <1>6, <1>7, <1>8, SwarmChanged
<1>10. ASSUME NEW e \in Entries(contract'), e \notin Entries(contract)
       PROVE  e.node \in {n.id : n \in Newcomers}
  <2>1. PICK j \in DOMAIN sw.nodes :
            /\ sw.id # NoId /\ sw.nodes[j].id # NoId
            /\ e = Entry(sw.id, sw.nodes[j].id, sw.nodes[j].address)
    BY <1>9, <1>10 DEF EntriesOf
  <2>2. CASE j = Len(old) + 1
    BY <1>4, <1>7, <2>1, <2>2 DEF Entry
  <2>3. CASE j \in DOMAIN old
    <3>1. sw.nodes[j] = old[j]
      BY <1>4, <1>7, <2>3
    <3>2. e \in Entries(contract)
      BY <1>7, <2>1, <2>3, <3>1, EntriesMember
    <3> QED
      BY <1>10, <3>2
  <2> QED
    BY <1>4, <1>7, <2>2, <2>3
<1> QED
  BY <1>9, <1>10

\* Nothing is listed by the removal of a node.
LEMMA RemoveNodeEffect ==
    ASSUME WellFormed(contract), NEW i \in DOMAIN contract,
           NEW j \in DOMAIN contract[i].nodes, RemoveNode(i, j)
    PROVE  WellFormed(contract') /\ Entries(contract') \subseteq Entries(contract)
<1> DEFINE old == contract[i].nodes
           gone == [id |-> NoId, address |-> NoAddress]
           new == [old EXCEPT ![j] = gone]
           sw == [contract[i] EXCEPT !.nodes = new]
<1>1. contract \in Seq(Swarms) /\ contract[i] \in Swarms /\ Distinct(old)
  BY DEF WellFormed
<1>2. gone \in Nodes
  BY DEF Nodes, NoAddress, Address, NoId, Texts
<1>3. old \in Seq(Nodes) /\ contract[i].id \in Texts
  BY <1>1 DEF Swarms
<1>4. /\ new \in Seq(Nodes) /\ DOMAIN new = DOMAIN old /\ new[j] = gone
      /\ \A k \in DOMAIN old \ {j} : new[k] = old[k]
  <2>1. j \in 1 .. Len(old)
    BY <1>3
  <2>2. new \in Seq(Nodes)
    BY <1>2, <1>3, <2>1, ExceptSeq
  <2> QED
    BY <1>3, <2>2
<1>5. Distinct(new)
  BY <1>1, <1>4 DEF Distinct
<1>6. sw \in Swarms /\ sw.id = contract[i].id /\ sw.nodes = new
  BY <1>1, <1>4 DEF Swarms
<1>7. contract' = [contract EXCEPT ![i] = sw]
  BY DEF RemoveNode, Change
<1> HIDE DEF sw, new
<1>8. /\ WellFormed(contract')
      /\ Entries(contract') \subseteq Entries(contract) \cup EntriesOf(sw)
  BY <1>5, <1>6, <1>7, SwarmChanged
<1>9. ASSUME NEW e \in Entries(contract') PROVE e \in Entries(contract)
  <2> SUFFICES ASSUME e \notin Entries(contract) PROVE FALSE
    OBVIOUS
  <2>1. PICK k \in DOMAIN sw.nodes :
            /\ sw.id # NoId /\ sw.nodes[k].id # NoId
            /\ e = Entry(sw.id, sw.nodes[k].id, sw.nodes[k].address)
    BY <1>8 DEF EntriesOf
  <2>2. k \in DOMAIN old /\ sw.nodes[k] = old[k]
    BY <1>4, <1>6, <2>1
  <2> QED
    BY <1>6, <2>1, <2>2, EntriesMember
<1> QED
  BY <1>8, <1>9

\* The same of the removal of a swarm.
LEMMA RemoveSwarmEffect ==
    ASSUME WellFormed(contract), NEW i \in DOMAIN contract, RemoveSwarm(i)
    PROVE  WellFormed(contract') /\ Entries(contract') \subseteq Entries(contract)
<1> DEFINE sw == [id |-> NoId, nodes |-> <<>>]
<1>1. sw \in Swarms /\ sw.id = NoId /\ Distinct(sw.nodes)
  BY DEF Swarms, NoId, Texts, Distinct
<1>2. contract' = [contract EXCEPT ![i] = sw]
  BY DEF RemoveSwarm, Change
<1>3. EntriesOf(sw) = {}
  BY <1>1 DEF EntriesOf
<1> HIDE DEF sw
<1> QED
  BY <1>1, <1>2, <1>3, SwarmChanged

\* A change keeps the invariant: the stable nodes become fewer, the histories grow.
LEMMA ChangeStep ==
    ASSUME IInv, NEW content, Change(content), WellFormed(content),
           \A e \in Entries(content) :
                e \in Entries(contract) \/ e.node \in {n.id : n \in Newcomers}
    PROVE  IInv'
<1>1. /\ phase \in {"swarms", "peers", "info"} /\ contract' = content
      /\ listed' = listed \cup Entries(content)
      /\ removed' = removed \cup (Entries(contract) \ Entries(content))
      /\ UNCHANGED <<http, phase, swarm_list, node_list, sw_reg, swarm_reg>>
  BY DEF Change, reading
<1>2. Stable' \subseteq Stable
  BY <1>1 DEF Stable
<1>3. WellFormed(contract)' /\ Lists' /\ Begun'
  BY <1>1 DEF IInv, Lists, Begun
<1>4. History'
  BY <1>1 DEF IInv, History
<1>5. NamesListed'
  BY <1>1 DEF IInv, NamesListed
<1>6. SoundSoFar'
  BY <1>1 DEF IInv, SoundSoFar, Justified, Readable
<1>7. RightSoFar'
  BY <1>1, <1>2 DEF IInv, RightSoFar, Readable
<1>8. CompleteSoFar'
  BY <1>1, <1>2 DEF IInv, CompleteSoFar, Entered, Readable
<1>9. RegisteredWasListed'
  BY <1>1 DEF IInv, RegisteredWasListed, Justified, Readable
<1>10. StableNodesRegistered'
  BY <1>1 DEF StableNodesRegistered
<1> QED
  BY <1>3, <1>4, <1>5, <1>6, <1>7, <1>8, <1>9, <1>10 DEF IInv

-----------------------------------------------------------------------------
(* Reading *)

\* The contract and the histories stay while a request is made.
LEMMA ExternalKept ==
    ASSUME IInv, UNCHANGED external
    PROVE  /\ WellFormed(contract)' /\ History' /\ Stable' = Stable
           /\ contract' = contract /\ listed' = listed /\ removed' = removed
           /\ \A a : Readable(a)' = Readable(a)
           /\ \A e : Justified(e)' = Justified(e)
           /\ \A e : Entered(e, sw_reg)' = Entered(e, sw_reg')
           /\ \A e : Entered(e, swarm_reg)' = Entered(e, swarm_reg')
<1>1. contract' = contract /\ listed' = listed /\ removed' = removed /\ http' = http
  BY DEF external
<1>2. \A a : Readable(a)' = Readable(a)
  BY <1>1 DEF Readable
<1>3. \A e : Justified(e)' = Justified(e)
  BY <1>1, <1>2 DEF Justified
<1>4. /\ \A e : Entered(e, sw_reg)' = Entered(e, sw_reg')
      /\ \A e : Entered(e, swarm_reg)' = Entered(e, swarm_reg')
  BY <1>2 DEF Entered
<1> QED
  BY <1>1, <1>2, <1>3, <1>4 DEF IInv, History, Stable

\* initialize empties the registry.
LEMMA InitializeStep ==
    ASSUME IInv, NEW given \in BOOLEAN, Initialize(given)
    PROVE  IInv'
<1>1. /\ UNCHANGED <<swarm_list, node_list>> /\ UNCHANGED external
      /\ phase' \in {"swarms", "skipped"}
      /\ sw_reg' = NoSwarms /\ swarm_reg' = NoSwarms
  BY DEF Initialize
<1>2. WellFormed(contract)' /\ History'
  BY <1>1, ExternalKept
<1>3. Lists' /\ NamesListed' /\ Begun' /\ CompleteSoFar' /\ StableNodesRegistered'
  BY <1>1 DEF IInv, Lists, NamesListed, Begun, CompleteSoFar, StableNodesRegistered
<1>4. SoundSoFar' /\ RightSoFar' /\ RegisteredWasListed'
  BY <1>1, NothingHeld DEF SoundSoFar, RightSoFar, RegisteredWasListed
<1> QED
  BY <1>2, <1>3, <1>4 DEF IInv

\* The ids of the swarms are read: every stable node is still to be read.
LEMMA GetSwarmIdsStep ==
    ASSUME IInv, Decoded, GetSwarmIds
    PROVE  IInv'
<1>1. /\ UNCHANGED <<node_list, sw_reg, swarm_reg>> /\ UNCHANGED external
      /\ phase = "swarms" /\ phase' = "peers"
  BY DEF GetSwarmIds
<1>2. /\ WellFormed(contract)' /\ History' /\ Stable' = Stable
      /\ contract' = contract /\ listed' = listed /\ removed' = removed
      /\ \A b : Readable(b)' = Readable(b)
      /\ \A e : Justified(e)' = Justified(e)
      /\ \A e : Entered(e, sw_reg)' = Entered(e, sw_reg')
      /\ \A e : Entered(e, swarm_reg)' = Entered(e, swarm_reg')
  BY <1>1, ExternalKept
<1>3. /\ swarm_list' \in Seq(Texts)
      /\ ToSet(swarm_list') = {sw.id : sw \in ToSet(contract)} \ {NoId}
  BY <1>1 DEF Decoded, GetSwarmIds
<1>4. Lists' /\ NamesListed' /\ Begun' /\ StableNodesRegistered'
  BY <1>1, <1>3 DEF IInv, Lists, NamesListed, Begun, StableNodesRegistered
<1>5. SoundSoFar' /\ RightSoFar'
  BY <1>1, <1>2 DEF IInv, SoundSoFar, RightSoFar
<1>6. RegisteredWasListed'
  BY <1>1, <1>2 DEF IInv, RegisteredWasListed
<1>7. \A e \in Entries(contract) : e.swarm \in ToSet(swarm_list')
  BY <1>3 DEF Entries
<1>8. CompleteSoFar'
  BY <1>1, <1>2, <1>7 DEF CompleteSoFar, Stable
<1> QED
  BY <1>2, <1>4, <1>5, <1>6, <1>8 DEF IInv

\* The elements of a sequence are its head and those of its tail.
LEMMA HeadAndTail ==
    ASSUME NEW S, NEW seq \in Seq(S), seq # <<>>
    PROVE  /\ Tail(seq) \in Seq(S) /\ Head(seq) \in ToSet(seq)
           /\ ToSet(seq) = {Head(seq)} \cup ToSet(Tail(seq))
<1>1. /\ Tail(seq) \in Seq(S) /\ Len(seq) \in Nat \ {0}
      /\ DOMAIN seq = 1 .. Len(seq) /\ DOMAIN Tail(seq) = 1 .. Len(seq) - 1
      /\ Head(seq) = seq[1] /\ \A i \in 1 .. Len(seq) - 1 : Tail(seq)[i] = seq[i + 1]
  OBVIOUS
<1>2. \A i \in 1 .. Len(seq) : i = 1 \/ i - 1 \in 1 .. Len(seq) - 1
  BY <1>1
<1>3. ToSet(seq) \subseteq {Head(seq)} \cup ToSet(Tail(seq))
  <2> SUFFICES ASSUME NEW i \in 1 .. Len(seq), i # 1
               PROVE  seq[i] \in ToSet(Tail(seq))
    BY <1>1 DEF ToSet
  <2>1. i - 1 \in 1 .. Len(seq) - 1 /\ Tail(seq)[i - 1] = seq[i]
    BY <1>1
  <2> QED
    BY <1>1, <2>1 DEF ToSet
<1>4. ToSet(Tail(seq)) \subseteq ToSet(seq)
  <2> SUFFICES ASSUME NEW i \in 1 .. Len(seq) - 1 PROVE Tail(seq)[i] \in ToSet(seq)
    BY <1>1 DEF ToSet
  <2>1. i + 1 \in 1 .. Len(seq) /\ Tail(seq)[i] = seq[i + 1]
    BY <1>1
  <2> QED
    BY <1>1, <2>1 DEF ToSet
<1>5. Head(seq) \in ToSet(seq)
  BY <1>1 DEF ToSet
<1> QED
  BY <1>1, <1>3, <1>4, <1>5

\* The loops go on with the nodes of the current swarm, or with the next swarm.
LEMMA NextNodeStep ==
    ASSUME IInv, swarm_list # <<>>, NEW nodes \in Seq(Texts),
           NextNode(swarm_list, nodes), UNCHANGED external,
           \A n \in ToSet(nodes) :
                \E e \in listed : e.swarm = Head(swarm_list) /\ e.node = n,
           \A e \in Stable :
                \/ e.swarm \in ToSet(Tail(swarm_list))
                \/ e.swarm = Head(swarm_list) /\ e.node \in ToSet(nodes)
                \/ Entered(e, sw_reg')
    PROVE  /\ Lists' /\ NamesListed' /\ CompleteSoFar'
           /\ phase' \in {"peers", "info"}
<1>1. /\ Stable' = Stable /\ listed' = listed
      /\ \A e : Entered(e, sw_reg)' = Entered(e, sw_reg')
  BY ExternalKept
<1>2. swarm_list \in Seq(Texts) /\ Tail(swarm_list) \in Seq(Texts)
  BY HeadAndTail DEF IInv, Lists
<1>3. node_list' = nodes
  BY DEF NextNode
<1>4. CASE nodes = <<>>
  <2>1. swarm_list' = Tail(swarm_list) /\ phase' = "peers"
    BY <1>4 DEF NextNode
  <2>2. Lists' /\ NamesListed'
    BY <1>2, <1>3, <2>1 DEF Lists, NamesListed
  <2>3. ToSet(nodes) = {}
    BY <1>4 DEF ToSet
  <2>4. CompleteSoFar'
    BY <1>1, <2>1, <2>3 DEF CompleteSoFar
  <2> QED
    BY <2>1, <2>2, <2>4
<1>5. CASE nodes # <<>>
  <2>1. swarm_list' = swarm_list /\ phase' = "info"
    BY <1>5 DEF NextNode
  <2>2. Lists'
    BY <1>2, <1>3, <1>5, <2>1 DEF Lists
  <2>3. NamesListed'
    BY <1>1, <1>3, <2>1 DEF NamesListed
  <2>4. CompleteSoFar'
    BY <1>1, <1>3, <2>1 DEF CompleteSoFar
  <2> QED
    BY <2>1, <2>2, <2>3, <2>4
<1> QED
  BY <1>4, <1>5

\* The ids of the nodes of a swarm are read: its stable nodes are among them.
LEMMA GetPeerIdsStep ==
    ASSUME IInv, Decoded, GetPeerIds
    PROVE  IInv'
<1> DEFINE nodes == parse_get_peers_result_to_vector(
                        sync_req(data_string_for_get_peers(Head(swarm_list))))
<1>1. /\ UNCHANGED <<sw_reg, swarm_reg>> /\ UNCHANGED external
      /\ phase = "peers" /\ swarm_list # <<>> /\ NextNode(swarm_list, nodes)
  BY DEF GetPeerIds
<1>2. /\ WellFormed(contract)' /\ History' /\ Stable' = Stable
      /\ contract' = contract /\ listed' = listed /\ removed' = removed
      /\ \A b : Readable(b)' = Readable(b)
      /\ \A e : Justified(e)' = Justified(e)
      /\ \A e : Entered(e, sw_reg)' = Entered(e, sw_reg')
      /\ \A e : Entered(e, swarm_reg)' = Entered(e, swarm_reg')
  BY <1>1, ExternalKept
<1>3. /\ nodes \in Seq(Texts)
      /\ ToSet(nodes) = {e.node : e \in {e \in Entries(contract) :
                                            e.swarm = Head(swarm_list)}}
  BY <1>1 DEF Decoded
<1> HIDE DEF nodes
<1>4. \A n \in ToSet(nodes) :
        \E e \in listed : e.swarm = Head(swarm_list) /\ e.node = n
  BY <1>3 DEF IInv, History
<1>5. \A e \in Stable :
        \/ e.swarm \in ToSet(Tail(swarm_list))
        \/ e.swarm = Head(swarm_list) /\ e.node \in ToSet(nodes)
        \/ Entered(e, sw_reg')
  <2> SUFFICES ASSUME NEW e \in Stable
               PROVE  \/ e.swarm \in ToSet(Tail(swarm_list))
                      \/ e.swarm = Head(swarm_list) /\ e.node \in ToSet(nodes)
                      \/ Entered(e, sw_reg')
    OBVIOUS
  <2>1. e.swarm \in ToSet(swarm_list) \/ Entered(e, sw_reg')
    BY <1>1 DEF IInv, CompleteSoFar
  <2>2. ToSet(swarm_list) = {Head(swarm_list)} \cup ToSet(Tail(swarm_list))
    BY <1>1, HeadAndTail DEF IInv, Lists
  <2>3. e.swarm = Head(swarm_list) => e.node \in ToSet(nodes)
    BY <1>3 DEF Stable
  <2> QED
    BY <2>1, <2>2, <2>3
<1>6. Lists' /\ NamesListed' /\ CompleteSoFar' /\ phase' \in {"peers", "info"}
  BY <1>1, <1>3, <1>4, <1>5, NextNodeStep
<1>7. Begun' /\ StableNodesRegistered'
  BY <1>6 DEF Begun, StableNodesRegistered
<1>8. SoundSoFar' /\ RightSoFar'
  BY <1>1, <1>2 DEF IInv, SoundSoFar, RightSoFar
<1>9. RegisteredWasListed'
  BY <1>1, <1>2 DEF IInv, RegisteredWasListed
<1> QED
  BY <1>2, <1>6, <1>7, <1>8, <1>9 DEF IInv

\* The address of a node is read and entered.
LEMMA GetPeerInfoStep ==
    ASSUME IInv, Decoded, GetPeerInfo
    PROVE  IInv'
<1> DEFINE s == Head(swarm_list)
           n == Head(node_list)
           a == parse_get_peer_info_result_to_peer_address(
                    sync_req(data_string_for_get_peer_info(s, n)))
           entries == {e \in Entries(contract) : e.swarm = s /\ e.node = n}
<1>1. /\ UNCHANGED swarm_reg /\ UNCHANGED external
      /\ phase = "info" /\ NextNode(swarm_list, Tail(node_list))
      /\ sw_reg' = add_node(sw_reg, s, n, a)
  BY DEF GetPeerInfo
<1>2. /\ WellFormed(contract)' /\ History' /\ Stable' = Stable
      /\ contract' = contract /\ listed' = listed /\ removed' = removed
      /\ \A b : Readable(b)' = Readable(b)
      /\ \A e : Justified(e)' = Justified(e)
      /\ \A e : Entered(e, sw_reg)' = Entered(e, sw_reg')
      /\ \A e : Entered(e, swarm_reg)' = Entered(e, swarm_reg')
  BY <1>1, ExternalKept
<1>3. /\ \A e \in entries : Readable(e.address) => a = e.address
      /\ entries = {} /\ ~http => a = NoAddress
  BY <1>1 DEF Decoded
<1>4. /\ swarm_list \in Seq(Texts) /\ swarm_list # <<>>
      /\ node_list \in Seq(Texts) /\ node_list # <<>>
  BY <1>1 DEF IInv, Lists
<1>5. /\ Tail(node_list) \in Seq(Texts) /\ n \in ToSet(node_list)
      /\ ToSet(node_list) = {n} \cup ToSet(Tail(node_list))
  BY <1>4, HeadAndTail
<1> HIDE DEF a, s, n
<1>6. /\ Held(sw_reg) \subseteq Held(sw_reg')
      /\ Held(sw_reg') \subseteq Held(sw_reg) \cup {Entry(s, n, a)}
      /\ \E d \in Held(sw_reg') : d.swarm = s /\ d.node = n
      /\ \A t \in DOMAIN sw_reg' : DOMAIN sw_reg'[t] # {}
  BY <1>1, AddNodeHeld DEF IInv, SoundSoFar
<1>7. \A e \in entries : Readable(e.address) => Entry(s, n, a) = e
  <2> SUFFICES ASSUME NEW e \in entries, Readable(e.address) PROVE Entry(s, n, a) = e
    OBVIOUS
  <2>1. e = Entry(e.swarm, e.node, e.address)
    BY EntriesMember DEF Entry
  <2> QED
    BY <1>3, <2>1
<1>8. PICK old \in listed : old.swarm = s /\ old.node = n
  BY <1>1, <1>5 DEF IInv, NamesListed, s
<1>9. Justified(Entry(s, n, a))
  <2>1. ASSUME NEW e \in entries PROVE Justified(Entry(s, n, a))
    <3>1. e \in listed /\ SameNode(e, Entry(s, n, a))
      BY <2>1 DEF IInv, History, SameNode, Entry
    <3> QED
      BY <1>7, <2>1, <3>1 DEF Justified
  <2>2. CASE entries = {}
    <3>1. old \in removed /\ SameNode(old, Entry(s, n, a))
      BY <1>8, <2>2 DEF IInv, History, SameNode, Entry
    <3>2. CASE http
      BY <1>8, <3>1, <3>2 DEF Justified, Readable
    <3>3. CASE ~http
      BY <1>3, <2>2, <3>1, <3>3 DEF Justified, Entry
    <3> QED
      BY <3>2, <3>3
  <2> QED
    BY <2>1, <2>2
<1>10. SoundSoFar'
  BY <1>2, <1>6, <1>9 DEF IInv, SoundSoFar
<1>11. RightSoFar'
  <2> SUFFICES ASSUME NEW e \in Stable, NEW d \in Held(sw_reg'), SameNode(d, e),
                      Readable(e.address)
               PROVE  d = e
    BY <1>2 DEF RightSoFar
  <2>1. CASE d \in Held(sw_reg)
    BY <2>1 DEF IInv, RightSoFar
  <2>2. CASE d = Entry(s, n, a)
    <3>1. e.swarm = s /\ e.node = n
      BY <2>2 DEF SameNode, Entry
    <3>2. e \in entries
      BY <3>1 DEF Stable
    <3> QED
      BY <1>7, <2>2, <3>2
  <2> QED
    BY <1>6, <2>1, <2>2
<1>12. \A e \in Stable :
        \/ e.swarm \in ToSet(Tail(swarm_list))
        \/ e.swarm = Head(swarm_list) /\ e.node \in ToSet(Tail(node_list))
        \/ Entered(e, sw_reg')
  <2> SUFFICES ASSUME NEW e \in Stable
               PROVE  \/ e.swarm \in ToSet(Tail(swarm_list))
                      \/ e.swarm = s /\ e.node \in ToSet(Tail(node_list))
                      \/ Entered(e, sw_reg')
    BY DEF s
  <2>1. \/ e.swarm \in ToSet(Tail(swarm_list))
        \/ e.swarm = s /\ e.node \in ToSet(node_list)
        \/ Entered(e, sw_reg)
    BY <1>1 DEF IInv, CompleteSoFar, s
  <2>2. CASE e.swarm = s /\ e.node = n
    <3>1. PICK d \in Held(sw_reg') : d.swarm = s /\ d.node = n
      BY <1>6
    <3>2. SameNode(d, e) /\ (Readable(e.address) => d = e)
      BY <1>2, <1>11, <2>2, <3>1 DEF RightSoFar, SameNode
    <3> QED
      BY <3>2 DEF Entered
  <2>3. Entered(e, sw_reg) => Entered(e, sw_reg')
    BY <1>6 DEF Entered
  <2> QED
    BY <1>5, <2>1, <2>2, <2>3
<1>13. \A m \in ToSet(Tail(node_list)) :
        \E e \in listed : e.swarm = Head(swarm_list) /\ e.node = m
  BY <1>1, <1>5 DEF IInv, NamesListed
<1>14. Lists' /\ NamesListed' /\ CompleteSoFar' /\ phase' \in {"peers", "info"}
  BY <1>1, <1>4, <1>5, <1>12, <1>13, NextNodeStep
<1>15. Begun' /\ StableNodesRegistered'
  BY <1>14 DEF Begun, StableNodesRegistered
<1>16. RegisteredWasListed'
  BY <1>1, <1>2 DEF IInv, RegisteredWasListed
<1> QED
  BY <1>2, <1>10, <1>11, <1>14, <1>15, <1>16 DEF IInv

\* The last swarm was read: every stable node is entered.
LEMMA FinishStep ==
    ASSUME IInv, Finish
    PROVE  IInv'
<1>1. /\ UNCHANGED <<swarm_list, node_list, sw_reg>> /\ UNCHANGED external
      /\ phase = "peers" /\ phase' = "done" /\ swarm_list = <<>>
      /\ swarm_reg' = sw_reg
  BY DEF Finish
<1>2. /\ WellFormed(contract)' /\ History' /\ Stable' = Stable
      /\ contract' = contract /\ listed' = listed /\ removed' = removed
      /\ \A b : Readable(b)' = Readable(b)
      /\ \A e : Justified(e)' = Justified(e)
      /\ \A e : Entered(e, sw_reg)' = Entered(e, sw_reg')
      /\ \A e : Entered(e, swarm_reg)' = Entered(e, swarm_reg')
  BY <1>1, ExternalKept
<1>3. Lists' /\ NamesListed' /\ Begun' /\ CompleteSoFar'
  BY <1>1 DEF IInv, Lists, NamesListed, Begun, CompleteSoFar
<1>4. SoundSoFar' /\ RightSoFar'
  BY <1>1, <1>2 DEF IInv, SoundSoFar, RightSoFar
<1>5. RegisteredWasListed'
  BY <1>1, <1>2 DEF IInv, SoundSoFar, RegisteredWasListed
<1>6. ToSet(swarm_list) = {}
  BY <1>1 DEF ToSet
<1>7. \A e \in Stable : Entered(e, swarm_reg')
  BY <1>1, <1>6 DEF IInv, CompleteSoFar
<1>8. StableNodesRegistered'
  BY <1>1, <1>2, <1>7 DEF StableNodesRegistered, Stable
<1> QED
  BY <1>2, <1>3, <1>4, <1>5, <1>8 DEF IInv

\* A failure leaves the registry empty.
LEMMA RequestThrowsStep ==
    ASSUME IInv, RequestThrows
    PROVE  IInv'
<1>1. /\ UNCHANGED <<swarm_list, node_list, swarm_reg>> /\ UNCHANGED external
      /\ phase # "done" /\ phase' = "failed" /\ sw_reg' = NoSwarms
  BY DEF RequestThrows
<1>2. /\ WellFormed(contract)' /\ History'
      /\ listed' = listed /\ removed' = removed
      /\ \A e : Justified(e)' = Justified(e)
  BY <1>1, ExternalKept
<1>3. /\ Lists' /\ NamesListed' /\ Begun' /\ CompleteSoFar'
      /\ StableNodesRegistered'
  BY <1>1 DEF IInv, Lists, NamesListed, Begun, CompleteSoFar, StableNodesRegistered
<1>4. SoundSoFar' /\ RightSoFar'
  BY <1>1, NothingHeld DEF SoundSoFar, RightSoFar
<1>5. RegisteredWasListed'
  BY <1>1, <1>2 DEF IInv, RegisteredWasListed
<1> QED
  BY <1>2, <1>3, <1>4, <1>5 DEF IInv

-----------------------------------------------------------------------------
(* The theorems *)

\* Before anything is read the invariant holds.
LEMMA InitIInv == Init => IInv
<1> SUFFICES ASSUME Init PROVE IInv
  OBVIOUS
<1>1. WellFormed(contract) /\ History
  BY RegistryAssumption DEF Init, History
<1>2. Lists /\ NamesListed /\ Begun /\ CompleteSoFar /\ StableNodesRegistered
  BY DEF Init, Lists, NamesListed, Begun, CompleteSoFar, StableNodesRegistered
<1>3. SoundSoFar /\ RightSoFar /\ RegisteredWasListed
  BY NothingHeld DEF Init, SoundSoFar, RightSoFar, RegisteredWasListed
<1> QED
  BY <1>1, <1>2, <1>3 DEF IInv

\* Every step preserves the invariant, given that replies are decoded.
LEMMA IInvStep == IInv /\ Decoded /\ [Next]_vars => IInv'
<1> SUFFICES ASSUME IInv, Decoded, [Next]_vars PROVE IInv'
  OBVIOUS
<1>1. ASSUME NEW given \in BOOLEAN, Initialize(given) PROVE IInv'
  BY <1>1, InitializeStep
<1>2. CASE GetSwarmIds \/ GetPeerIds \/ GetPeerInfo
  BY <1>2, GetSwarmIdsStep, GetPeerIdsStep, GetPeerInfoStep
<1>3. CASE Finish \/ RequestThrows
  BY <1>3, FinishStep, RequestThrowsStep
<1>4. ASSUME NEW i \in DOMAIN contract, NEW node \in Newcomers, AddNode(i, node)
      PROVE  IInv'
  <2>1. Change(contract') /\ WellFormed(contract)
    BY <1>4 DEF AddNode, Change, IInv
  <2> QED
    BY <1>4, <2>1, AddNodeEffect, ChangeStep
<1>5. ASSUME NEW i \in DOMAIN contract, NEW j \in DOMAIN contract[i].nodes,
             RemoveNode(i, j)
      PROVE  IInv'
  <2>1. Change(contract') /\ WellFormed(contract)
    BY <1>5 DEF RemoveNode, Change, IInv
  <2> QED
    BY <1>5, <2>1, RemoveNodeEffect, ChangeStep
<1>6. ASSUME NEW i \in DOMAIN contract, RemoveSwarm(i) PROVE IInv'
  <2>1. Change(contract') /\ WellFormed(contract)
    BY <1>6 DEF RemoveSwarm, Change, IInv
  <2> QED
    BY <1>6, <2>1, RemoveSwarmEffect, ChangeStep
<1>7. CASE UNCHANGED vars
  <2>1. UNCHANGED external /\ UNCHANGED <<phase, swarm_list, node_list, sw_reg, swarm_reg>>
    BY <1>7 DEF vars, reading
  <2>2. /\ WellFormed(contract)' /\ History' /\ Stable' = Stable
        /\ contract' = contract /\ listed' = listed /\ removed' = removed
        /\ \A b : Readable(b)' = Readable(b)
        /\ \A e : Justified(e)' = Justified(e)
        /\ \A e : Entered(e, sw_reg)' = Entered(e, sw_reg')
        /\ \A e : Entered(e, swarm_reg)' = Entered(e, swarm_reg')
    BY <2>1, ExternalKept
  <2>3. Lists' /\ NamesListed' /\ Begun' /\ CompleteSoFar'
    BY <2>1, <2>2 DEF IInv, Lists, NamesListed, Begun, CompleteSoFar
  <2>4. SoundSoFar' /\ RightSoFar'
    BY <2>1, <2>2 DEF IInv, SoundSoFar, RightSoFar
  <2>5. RegisteredWasListed' /\ StableNodesRegistered'
    BY <2>1, <2>2 DEF IInv, RegisteredWasListed, StableNodesRegistered
  <2> QED
    BY <2>2, <2>3, <2>4, <2>5 DEF IInv
<1> QED
  BY <1>1, <1>2, <1>3, <1>4, <1>5, <1>6, <1>7 DEF Next

\* If its replies are decoded, then whatever swarms and nodes the contract has
\* and however it changes while it is read, the registry holds only nodes the
\* contract listed, with their addresses where those are readable, and nothing if
\* a request failed.
THEOREM NothingInvented == Spec /\ []Decoded => []RegisteredWasListed
<1>1. IInv => RegisteredWasListed
  BY DEF IInv
<1> QED
  BY <1>1, InitIInv, IInvStep, PTL DEF Spec

\* Under the same hypothesis a registry that was read to its end holds every node
\* the contract had all the time, with its address if that is readable.
THEOREM NothingLost == Spec /\ []Decoded => []StableNodesRegistered
<1>1. IInv => StableNodesRegistered
  BY DEF IInv
<1> QED
  BY <1>1, InitIInv, IInvStep, PTL DEF Spec
=============================================================================
