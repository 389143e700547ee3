------------------------------- MODULE MCWire -------------------------------
(* Stacks, envelopes, codecs and carriers that differ where the pipeline   *)
(* can go wrong. *)
EXTENDS Wire

Default == [p \in Part |-> <<>>]

Server(envelope, transport, frame) ==
  [kex |-> "", envelope |-> envelope, tag |-> <<7, 7>>,
   names |-> [Default EXCEPT !.transport = transport, !.frame = frame]]

Scene(server, layers, carrier) ==
  [server |-> server, layers |-> layers, carrier |-> carrier, buckets |-> {48, 80},
   padding_max |-> 72,
   client |-> [Default EXCEPT !.transport = <<"tagged", "plain">>, !.frame = <<"v1-fixed", "v2-tlv">>]]

Stacks ==
  {<<>>, <<"header_xor">>, <<"padding">>, <<"padding", "header_xor">>,
   <<"header_xor", "shuffle", "timing", "padding">>}

Servers ==
  {Server("plain", <<"plain">>, <<"v1-fixed">>),
   Server("plain", <<"plain">>, <<"v2-tlv">>),
   Server("plain", <<"tagged">>, <<"v2-tlv">>),
   [Server("plain", <<"tagged">>, <<"v1-fixed">>) EXCEPT !.tag = DEFAULT_TAG],
   Server("tagged", <<SAME, "plain">>, <<"v1-fixed">>),
   Server("tagged", <<SAME>>, <<"v2-tlv">>)}

Scenes ==
  {Scene(v, l, "udp") : v \in Servers, l \in Stacks}
    \cup {Scene(v, l, "tcp") : v \in {Server("plain", <<"tagged">>, <<"v2-tlv">>)},
                              l \in {<<>>, <<"padding", "header_xor">>}}

(* A sparse header and a full one. *)
Ping ==
  [packet_type |-> 6, ack_seq |-> 0, ack_bitmap |-> 0, fec_group |-> 0, fec_index |-> 0,
   fec_k |-> 0, fec_m |-> 0]

Data ==
  [packet_type |-> 3, ack_seq |-> 70000, ack_bitmap |-> 5, fec_group |-> 300, fec_index |-> 1,
   fec_k |-> 4, fec_m |-> 2]

Headers == {Ping, Data}

TwoSessions == {66051, 258}

=============================================================================
