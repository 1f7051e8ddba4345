-------------------------------- MODULE Esr ---------------------------------
(***************************************************************************)
(* esr_peer_info: the calls of the Ethereum contract that lists the swarms *)
(* and their nodes, and the two hand written parsers of its replies.       *)
(*                                                                         *)
(* Requests and replies are sequences of bytes in place of their hex       *)
(* digits, and a text is a sequence of bytes other than 0.  The contract   *)
(* speaks the ABI encoding: lines of LineBytes bytes, 32 in the code.      *)
(***************************************************************************)
EXTENDS Integers, Sequences, SequencesExt

CONSTANTS
    LineBytes,      \* ESR_RESPONSE_LINE_LENGTH, REQUIRED_SIZE_MULTIPLE
    SigBytes        \* bytes of a signature, and of the sizes of get_peers

ASSUME EsrAssumption == SigBytes \in 2 .. LineBytes

\* GET_SWARMS_ADDRESS, GET_PEERS_ADDRESS and GET_PEER_INFO_SIGNATURE.
Signature(call) ==
    [i \in 1 .. SigBytes |->
        CASE call = "getSwarmList" -> 1
          [] call = "getNodeList" -> 2
          [] call = "getNodeInfo" -> 3]

\* size_type_to_hex: big endian, with leading zeros.
size_type_to_hex(n, width) ==
    [i \in 1 .. width |-> (n \div 256 ^ (width - i)) % 256]

Zeros(n) == [i \in 1 .. n |-> 0]

pad_str_to_mod_64(s) ==
    LET remainder == Len(s) % LineBytes IN
    IF remainder = 0 THEN s ELSE s \o Zeros(LineBytes - remainder)

\* strtoul of a line.
strtoul(line) == FoldLeft(LAMBDA n, byte : 256 * n + byte, 0, line)

trim_right_nulls(s) ==
    SubSeq(s, 1, Max({0} \cup {i \in DOMAIN s : s[i] # 0}))

-----------------------------------------------------------------------------
(* Requests *)

data_string_for_get_swarms == pad_str_to_mod_64(Signature("getSwarmList"))

\* The padding after the signature begins the line of the offset, and the
\* padding after the offset begins the line of the size.
data_string_for_get_peers(swarm_id) ==
    pad_str_to_mod_64(Signature("getNodeList"))
    \o pad_str_to_mod_64(size_type_to_hex(LineBytes, SigBytes))
    \o size_type_to_hex(Len(swarm_id), SigBytes)
    \o pad_str_to_mod_64(swarm_id)

data_string_for_get_peer_info(swarm_id, peer_id) ==
    LET Parameter(id) == size_type_to_hex(Len(id), LineBytes) \o pad_str_to_mod_64(id)
        offset == 2 * LineBytes
    IN  Signature("getNodeInfo")
        \o size_type_to_hex(offset, LineBytes)
        \o size_type_to_hex(offset + Len(Parameter(swarm_id)), LineBytes)
        \o Parameter(swarm_id)
        \o Parameter(peer_id)

-----------------------------------------------------------------------------
(* Parsing *)

\* stream.read: whole lines; what is left over is not read.
Lines(result) ==
    [i \in 1 .. Len(result) \div LineBytes |->
        SubSeq(result, (i - 1) * LineBytes + 1, i * LineBytes)]

\* The lists of swarms and of nodes: two lines, a line per element, and the
\* elements, each its size and the lines of its text.  p holds the variables of
\* the loop.
ListStart ==
    [state |-> "HEADER", index |-> 0, node_count |-> 0, length |-> 0,
     peer_id |-> <<>>, results |-> <<>>]

HeaderSize(p, line) ==
    [p EXCEPT !.node_count = strtoul(line),
              !.state = IF strtoul(line) = 0 THEN "RETURN" ELSE "HEADER_INFO"]

HeaderInfo(p) ==
    IF p.index = p.node_count + 1 THEN [p EXCEPT !.state = "PEER_ID_SIZE"] ELSE p

\* Mutant: an empty element is expected to have a line of text.
PeerIdSize_KeepsEmpty(p, line) ==
    [p EXCEPT !.length = strtoul(line), !.state = "PEER_ID"]

\* An empty element has no text, and is not one.
PeerIdSize(p, line) ==
    IF strtoul(line) # 0
    THEN [p EXCEPT !.length = strtoul(line), !.state = "PEER_ID"]
    ELSE [p EXCEPT !.length = 0, !.node_count = @ - 1]

PeerId(p, line) ==
    LET peer_id == p.peer_id \o line IN
    IF Len(peer_id) >= p.length
    THEN [p EXCEPT !.results = Append(@, trim_right_nulls(peer_id)),
                   !.peer_id = <<>>, !.state = "PEER_ID_SIZE"]
    ELSE [p EXCEPT !.peer_id = peer_id]

ListLine(p, line) ==
    LET next == CASE p.state = "HEADER" -> [p EXCEPT !.state = "HEADER_SWARM_SIZE"]
                  [] p.state = "HEADER_SWARM_SIZE" -> HeaderSize(p, line)
                  [] p.state = "HEADER_INFO" -> HeaderInfo(p)
                  [] p.state = "PEER_ID_SIZE" -> PeerIdSize(p, line)
                  [] p.state = "PEER_ID" -> PeerId(p, line)
                  [] p.state = "RETURN" -> p
    IN  [next EXCEPT !.index = @ + 1]

parse_get_peers_result_to_vector(result) ==
    FoldLeft(ListLine, ListStart, Lines(result)).results

\* The address of a node: four lines of which the last is the port, the size
\* and one line of the host, the size and the lines of the name.
Address(host, port, name) == [host |-> host, port |-> port, name |-> name]

InfoStart ==
    [state |-> "NODE_COUNT", text_size |-> 0, address |-> Address(<<>>, 0, <<>>)]

NodeHost(p, line) ==
    [p EXCEPT !.address.host = trim_right_nulls(line), !.state = "NODE_NAME_SIZE"]

NodeName(p, line) ==
    LET name == trim_right_nulls(p.address.name \o line) IN
    [p EXCEPT !.address.name = name,
              !.state = IF Len(name) = p.text_size THEN "FINISHED" ELSE @]

\* The port is a uint16_t.  A port or a size of 0, a host of another size, and
\* lines after the name are only logged.
InfoLine(p, line) ==
    CASE p.state = "NODE_COUNT" -> [p EXCEPT !.state = "NA_0"]
      [] p.state = "NA_0" -> [p EXCEPT !.state = "NA_1"]
      [] p.state = "NA_1" -> [p EXCEPT !.state = "NODE_PORT"]
      [] p.state = "NODE_PORT" ->
            [p EXCEPT !.address.port = strtoul(line) % 2 ^ 16,
                      !.state = "NODE_HOST_SIZE"]
      [] p.state = "NODE_HOST_SIZE" ->
            [p EXCEPT !.text_size = strtoul(line), !.state = "NODE_HOST"]
      [] p.state = "NODE_HOST" -> NodeHost(p, line)
      [] p.state = "NODE_NAME_SIZE" ->
            [p EXCEPT !.text_size = strtoul(line), !.state = "NODE_NAME",
                      !.address.name = <<>>]
      [] p.state = "NODE_NAME" -> NodeName(p, line)
      [] p.state = "FINISHED" -> p

parse_get_peer_info_result_to_peer_address(result) ==
    FoldLeft(InfoLine, InfoStart, Lines(result)).address
=============================================================================
