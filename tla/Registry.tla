------------------------------ MODULE Registry ------------------------------
(***************************************************************************)
(* The registry of swarm_factory: initialize reads the swarms, their nodes *)
(* and the addresses of these from a contract, one request after the       *)
(* other, while the contract may change and every request may fail.        *)
(*                                                                         *)
(* It composes the requests and the parsers of Esr with the contract they  *)
(* are meant for.  The contract is external: it decodes the requests and   *)
(* encodes its replies by the rules of the ABI.                            *)
(***************************************************************************)
EXTENDS Esr, FiniteSets

CONSTANTS
    Contracts,      \* contents of the contract: sequences of swarms
    Newcomers,      \* nodes that may be added
    MaxChanges      \* bound on the changes of the contract

\* A swarm or a node that was removed leaves an element with an empty id.
NoId == <<>>

\* No two elements have the same id.
Distinct(elements) ==
    \A i, j \in DOMAIN elements :
        elements[i].id = elements[j].id /\ elements[i].id # NoId => i = j

Texts == Seq(0 .. 255)
Nodes == [id : Texts, address : [host : Texts, port : Nat, name : Texts]]
Swarms == [id : Texts, nodes : Seq(Nodes)]

WellFormed(content) ==
    /\ content \in Seq(Swarms) /\ Distinct(content)
    /\ \A i \in DOMAIN content : Distinct(content[i].nodes)

ASSUME RegistryAssumption ==
    /\ MaxChanges \in Nat
    /\ \A content \in Contracts : WellFormed(content)
    /\ \A node \in Newcomers : node \in Nodes /\ node.id # NoId

VARIABLES
    contract,       \* external: <<[id, nodes : <<[id, address], ...>>], ...>>
    http,           \* has getNodeInfo the nodeHttpPort of GET_PEER_INFO_ABI?
    changes,        \* changes of it so far
    listed,         \* history: [swarm, node, address] ever in the contract,
    removed,        \* and those that were removed from it
    phase,          \* "idle", "swarms", "peers", "info", or how it
                    \* ended: "done", "skipped" or "failed"
    swarm_list,     \* swarms still to read, the current one first
    node_list,      \* nodes of the current swarm still to read
    sw_reg,         \* the registry under construction,
    swarm_reg       \* and the one in use: swarm id -> node id -> address

reading == <<phase, swarm_list, node_list, sw_reg, swarm_reg>>
external == <<contract, http, changes, listed, removed>>
vars == <<external, reading>>

-----------------------------------------------------------------------------
(* The contract *)

NoAddress == Address(<<>>, 0, <<>>)

Ids(elements) == [i \in DOMAIN elements |-> elements[i].id]
Find(elements, id) == {i \in DOMAIN elements : elements[i].id = id /\ id # NoId}

Entries(content) ==
    UNION {{[swarm |-> sw.id, node |-> n.id, address |-> n.address]
                : n \in {n \in ToSet(sw.nodes) : n.id # NoId}}
                    : sw \in {sw \in ToSet(content) : sw.id # NoId}}

Text(s) == size_type_to_hex(Len(s), LineBytes) \o pad_str_to_mod_64(s)
Word(n) == size_type_to_hex(n, LineBytes)

\* string[]: the offset of the list, its length, the offset of each element
\* from there, the elements.
EncodeList(ids) ==
    LET texts == [i \in DOMAIN ids |-> Text(ids[i])]
        Offset(i) == Len(ids) * LineBytes + Len(FlattenSeq(SubSeq(texts, 1, i - 1)))
    IN  Word(LineBytes) \o Word(Len(ids))
        \o FlattenSeq([i \in DOMAIN ids |-> Word(Offset(i))])
        \o FlattenSeq(texts)

\* The number of nodes, the offset of the host, the HTTP port if there is one, the
\* offset of the name, the port, the texts.  The ABI in the source lists the HTTP
\* port, the parser has no line for it.
EncodeInfo(count, a) ==
    LET head == LineBytes * IF http THEN 5 ELSE 4 IN
    Word(count) \o Word(head) \o (IF http THEN Word(0) ELSE <<>>)
    \o Word(head + Len(Text(a.host))) \o Word(a.port) \o Text(a.host) \o Text(a.name)

\* n bytes of data after the first ones, nothing beyond its end.
Bytes(data, first, n) ==
    IF first + n <= Len(data) THEN SubSeq(data, first + 1, first + n) ELSE <<>>

\* The i-th argument of a call: a text at an offset from the signature.
Argument(data, i) ==
    LET offset == SigBytes + strtoul(Bytes(data, SigBytes + (i - 1) * LineBytes, LineBytes))
    IN  Bytes(data, offset + LineBytes, strtoul(Bytes(data, offset, LineBytes)))

\* What the contract answers: nothing is known of a swarm or a node it has not.
Reply(data) ==
    LET call == SubSeq(data, 1, SigBytes)
        found == Find(contract, Argument(data, 1))
        nodes == UNION {Find(contract[i].nodes, Argument(data, 2)) : i \in found}
    IN  CASE call = Signature("getSwarmList") -> EncodeList(Ids(contract))
          [] call = Signature("getNodeList") ->
                EncodeList(IF found = {} THEN <<>>
                           ELSE Ids(contract[Min(found)].nodes))
          [] call = Signature("getNodeInfo") ->
                IF nodes = {} THEN EncodeInfo(0, NoAddress)
                ELSE EncodeInfo(Len(contract[Min(found)].nodes),
                                contract[Min(found)].nodes[Min(nodes)].address)

\* The contract changes between two requests.
Change(content) ==
    /\ changes < MaxChanges
    /\ phase \in {"swarms", "peers", "info"}
    /\ changes' = changes + 1
    /\ contract' = content
    /\ listed' = listed \cup Entries(content)
    /\ removed' = removed \cup (Entries(contract) \ Entries(content))
    /\ UNCHANGED <<http, reading>>

AddNode(i, node) ==
    /\ Find(contract[i].nodes, node.id) = {} /\ contract[i].id # NoId
    /\ Change([contract EXCEPT ![i].nodes = Append(@, node)])

RemoveNode(i, j) ==
    /\ contract[i].nodes[j].id # NoId
    /\ Change([contract EXCEPT ![i].nodes[j] = [id |-> NoId, address |-> NoAddress]])

RemoveSwarm(i) ==
    /\ contract[i].id # NoId
    /\ Change([contract EXCEPT ![i] = [id |-> NoId, nodes |-> <<>>]])

-----------------------------------------------------------------------------
(* The registry *)

NoSwarms == [s \in {} |-> NoAddress]

Init ==
    /\ contract \in Contracts
    /\ http \in BOOLEAN
    /\ changes = 0
    /\ listed = Entries(contract)
    /\ removed = {}
    /\ phase = "idle"
    /\ swarm_list = <<>>
    /\ node_list = <<>>
    /\ sw_reg = NoSwarms
    /\ swarm_reg = NoSwarms

\* add_node: the swarm is entered with its first node; emplace keeps a node
\* that is there.
add_node(reg, swarm_id, node_id, endpoint) ==
    LET known == IF swarm_id \in DOMAIN reg THEN reg[swarm_id] ELSE NoSwarms
        nodes == [n \in DOMAIN known \cup {node_id} |->
                    IF n \in DOMAIN known THEN known[n] ELSE endpoint]
    IN  [s \in DOMAIN reg \cup {swarm_id} |-> IF s = swarm_id THEN nodes ELSE reg[s]]

\* initialize, with an address and a url, or with one of them empty, for which
\* nothing is read.
Initialize(given) ==
    /\ phase = "idle"
    /\ phase' = IF given THEN "swarms" ELSE "skipped"
    /\ swarm_reg' = NoSwarms
    /\ sw_reg' = NoSwarms
    /\ UNCHANGED <<external, swarm_list, node_list>>

\* sync_req gives the body of the reply.  It throws if the url cannot be parsed,
\* and when resolving, connecting, the handshake, writing or reading fails;
\* str_to_json throws for a body that is not JSON and asCString for one without
\* a result.
sync_req(data) == Reply(data)

GetSwarmIds ==
    /\ phase = "swarms"
    /\ swarm_list' = parse_get_peers_result_to_vector(
                        sync_req(data_string_for_get_swarms))
    /\ phase' = "peers"
    /\ UNCHANGED <<external, node_list, sw_reg, swarm_reg>>

\* Mutant: the outer loop ends with the nodes of its first swarm.
NextNode_Ends(swarms, nodes) ==
    /\ node_list' = nodes
    /\ swarm_list' = IF nodes = <<>> THEN <<>> ELSE swarms
    /\ phase' = IF nodes = <<>> THEN "peers" ELSE "info"

\* The inner loop ends with the last node, the outer one goes on.
NextNode(swarms, nodes) ==
    /\ node_list' = nodes
    /\ swarm_list' = IF nodes = <<>> THEN Tail(swarms) ELSE swarms
    /\ phase' = IF nodes = <<>> THEN "peers" ELSE "info"

GetPeerIds ==
    /\ phase = "peers"
    /\ swarm_list # <<>>
    /\ NextNode(swarm_list, parse_get_peers_result_to_vector(
                    sync_req(data_string_for_get_peers(Head(swarm_list)))))
    /\ UNCHANGED <<external, sw_reg, swarm_reg>>

\* swarm_reg is empty while it is read, so that there is no swarm object to
\* take over from it.
GetPeerInfo ==
    LET sw_id == Head(swarm_list)
        node == Head(node_list)
        data == data_string_for_get_peer_info(sw_id, node)
    IN  /\ phase = "info"
        /\ sw_reg' = add_node(sw_reg, sw_id, node,
                        parse_get_peer_info_result_to_peer_address(sync_req(data)))
        /\ NextNode(swarm_list, Tail(node_list))
        /\ UNCHANGED <<external, swarm_reg>>

Finish ==
    /\ phase = "peers"
    /\ swarm_list = <<>>
    /\ swarm_reg' = sw_reg
    /\ phase' = "done"
    /\ UNCHANGED <<external, swarm_list, node_list, sw_reg>>

\* Mutant: what was read before the failure is used.
RequestThrows_Partial ==
    /\ phase \in {"swarms", "peers", "info"}
    /\ phase # "peers" \/ swarm_list # <<>>
    /\ phase' = "failed"
    /\ swarm_reg' = sw_reg
    /\ UNCHANGED <<external, swarm_list, node_list, sw_reg>>

\* An exception leaves initialize, and the registry under construction goes.
RequestThrows ==
    /\ phase \in {"swarms", "peers", "info"}
    /\ phase # "peers" \/ swarm_list # <<>>
    /\ phase' = "failed"
    /\ sw_reg' = NoSwarms
    /\ UNCHANGED <<external, swarm_list, node_list, swarm_reg>>

-----------------------------------------------------------------------------
Next ==
    \/ \E given \in BOOLEAN : Initialize(given)
    \/ GetSwarmIds \/ GetPeerIds \/ GetPeerInfo \/ Finish \/ RequestThrows
    \/ \E i \in DOMAIN contract :
        \/ \E node \in Newcomers : AddNode(i, node)
        \/ \E j \in DOMAIN contract[i].nodes : RemoveNode(i, j)
        \/ RemoveSwarm(i)

Spec == Init /\ [][Next]_vars

-----------------------------------------------------------------------------
(* Properties *)

\* What a registry holds, as entries.
Held(reg) ==
    UNION {{[swarm |-> s, node |-> n, address |-> reg[s][n]]
                : n \in DOMAIN reg[s]} : s \in DOMAIN reg}

\* Two entries for the same node.
SameNode(d, e) == d.swarm = e.swarm /\ d.node = e.node

\* What the parser of addresses can read: getNodeInfo has no HTTP port among its
\* outputs, and the host is not empty and fits one line.
Readable(a) == ~http /\ Len(a.host) \in 1 .. LineBytes

\* What the parsers make of the replies to the next request is what the contract
\* meant: the ids of the swarms and of the nodes of the current swarm in any case,
\* and the address of the current node if it is readable; without an HTTP port the
\* one of a node that is gone is empty.
Decoded ==
    /\ phase = "swarms" =>
        LET ids == parse_get_peers_result_to_vector(
                        sync_req(data_string_for_get_swarms))
        IN  /\ ids \in Seq(Texts)
            /\ ToSet(ids) = {sw.id : sw \in ToSet(contract)} \ {NoId}
    /\ phase = "peers" /\ swarm_list # <<>> =>
        LET ids == parse_get_peers_result_to_vector(
                        sync_req(data_string_for_get_peers(Head(swarm_list))))
        IN  /\ ids \in Seq(Texts)
            /\ ToSet(ids) = {e.node : e \in {e \in Entries(contract) :
                                                e.swarm = Head(swarm_list)}}
    /\ phase = "info" =>
        LET address == parse_get_peer_info_result_to_peer_address(
                        sync_req(data_string_for_get_peer_info(
                            Head(swarm_list), Head(node_list))))
            entries == {e \in Entries(contract) :
                            e.swarm = Head(swarm_list) /\ e.node = Head(node_list)}
        IN  /\ \A e \in entries : Readable(e.address) => address = e.address
            /\ entries = {} /\ ~http => address = NoAddress

\* Where an entry of a registry comes from: the contract has listed the node on that
\* swarm, with that address or with one that cannot be read, or had removed it by
\* the time its address was asked for, and then it has no host and no port.
Justified(e) ==
    \/ e \in listed
    \/ \E old \in listed : SameNode(old, e) /\ ~Readable(old.address)
    \/ e.address = NoAddress /\ \E old \in removed : SameNode(old, e)

\* Nothing invented: every node in the registry was listed, and an address that is
\* misread is that of its own node only.  Nothing is used of a registry that could
\* not be read to its end, and a swarm that is used has a node (the assertion of
\* get_or_create_swarm).
RegisteredWasListed ==
    /\ \A e \in Held(swarm_reg) : Justified(e)
    /\ \A s \in DOMAIN swarm_reg : DOMAIN swarm_reg[s] # {}
    /\ phase # "done" => swarm_reg = NoSwarms

\* The registry has an entry for the node of e, with its address if it is readable.
Entered(e, reg) ==
    \E d \in Held(reg) : SameNode(d, e) /\ (Readable(e.address) => d = e)

\* Nothing lost: a registry that was read holds every node the contract had from
\* the beginning to the end, with its address if it is readable, whatever was added
\* and removed around it; so every swarm with such a node is asked for databases.
StableNodesRegistered ==
    phase = "done" =>
        \A e \in Entries(contract) :
            e.node \notin {n.id : n \in Newcomers} => Entered(e, swarm_reg)
=============================================================================
