----------------------------- MODULE MCRegistry -----------------------------
(***************************************************************************)
(* Instances of Registry for TLC.  Lines have three bytes, so that texts   *)
(* of one to four bytes are shorter than a line, fill it, or take two; a   *)
(* port of two bytes is larger than one of them.  Hosts may be empty or    *)
(* longer than a line.                                                     *)
(***************************************************************************)
EXTENDS Registry

A == 65
B == 66

Node(id, address) == [id |-> id, address |-> address]
Removed == Node(NoId, NoAddress)
Swarm(id, nodes) == [id |-> id, nodes |-> nodes]

Plain == Address(<<A, B>>, 300, <<A>>)
Long == Address(<<A, B, A>>, 65535, <<B, A, A, B>>)
Unnamed == Address(<<B>>, 7, <<>>)
Hostless == Address(<<>>, 8, <<A, B>>)
Crossing == Address(<<A, B, A, B>>, 9, <<B, A>>)

MCNodes ==
    {<<>>, <<Removed>>}
    \cup {<<Node(<<A>>, a)>> : a \in {Plain, Long, Unnamed, Hostless, Crossing}}
    \cup {<<Node(<<A, B, A, B>>, a), Node(<<B, B, B>>, b)>>
            : a, b \in {Plain, Unnamed, Crossing}}
    \cup {<<Node(<<A>>, a), Removed, Node(<<B, A, A, A>>, Plain)>>
            : a \in {Long, Hostless}}

MCContracts ==
    {<<>>}
    \cup {<<Swarm(<<A, A>>, n)>> : n \in MCNodes}
    \cup {<<Swarm(NoId, <<>>), Swarm(<<B, A, A, A>>, n), Swarm(<<B, A, A>>, m)>>
            : n \in MCNodes, m \in {<<>>, <<Node(<<A>>, Crossing)>>,
                                    <<Node(<<A>>, Plain), Node(<<B>>, Long)>>}}

MCNewcomers == {Node(<<B, A>>, Long)}
=============================================================================
