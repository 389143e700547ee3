------------------------------ MODULE FecLink ------------------------------
(***************************************************************************)
(* Forward error correction end to end (tunnel/mod.rs): the sender's group *)
(* of source packets and its parities, a network that loses, duplicates    *)
(* and reorders them, and the receiver's groups, which recover lost        *)
(* sources and suppress packets already written to the TUN device.         *)
(*                                                                         *)
(* Symbols are sequences of bytes.  The erasure code is a parameter, as    *)
(* the trait FecScheme is in the code; ReedSolomon is the one that exists. *)
(* The parity count is moved by AdaptiveFec.                               *)
(***************************************************************************)
EXTENDS AdaptiveFec

CONSTANTS Encode(_, _),       \* the i-th parity of a group of sources
          DecodeSymbols(_, _) \* the k sources from symbols, or <<>>

CONSTANTS Shapes,     \* configurations: the [fec] settings, and three bounds: "data"
                      \* packets from the TUN device, of lengths "lens", and
                      \* "samples" of the loss
          GROUP_MOD,  \* 2^16: group ids are u16 and wrap
          Lens,       \* lengths of IP packets
          Samples     \* loss ratios, in thousandths

ASSUME FecLinkAssumption ==
  /\ \A c \in Shapes : /\ {c.k, c.min_m, c.max_m, c.initial_m} \subseteq 0 .. 255
                       /\ {c.data, c.samples} \subseteq Nat
                       /\ c.active \in BOOLEAN /\ c.lens \subseteq Lens
  /\ \E b \in Shapes : \A c \in Shapes : c.data <= b.data
  /\ GROUP_MOD \in Nat \ {0}
  /\ Lens \subseteq 1 .. 15
  /\ Samples \subseteq 0 .. 1000

VARIABLES
  shape,        \* the configuration
  fec,          \* the controller; fec_params are its Params
  observed,     \* loss samples so far
  group_id,
  group_buffer, \* the sources of the group being filled
  rx_groups,    \* the receiver's groups, by id
  panicked,     \* the receiver's task died on an index out of bounds
  net,          \* datagrams on the wire
  len,          \* ghost: lengths of the packets taken from the TUN device
  protected,    \* ghost: those sent with fec_m > 0
  writes,       \* ghost: times each was written to the far TUN device (2: more)
  garbage,      \* ghost: something that is no packet was written
  suppressed    \* ghost: those withheld as duplicates

txVars == <<shape, fec, observed, group_id, group_buffer, len, protected>>
rxVars == <<rx_groups, panicked, writes, garbage, suppressed>>
vars == <<txVars, rxVars, net>>

K == Params(fec).k

m == Params(fec).m

Source == 1 .. Max({c.data : c \in Shapes})

(* The bytes of the n-th IP packet, of length l. *)
Packet(n, l) == SubSeq([b \in 1 .. l |-> 16 * n + b], 1, l)

Packets == {Packet(n, l) : n \in Source, l \in Lens}

Offered == 1 .. Len(len)

Missing == <<>>

NoGroup == [m |-> 0, symbols |-> <<>>, delivered |-> {}, decoded |-> FALSE]

Slots(n) == 0 .. n - 1

(* The sources of a group, padded to the longest. *)
Padded(buf) ==
  LET top == Max({Len(buf[j]) : j \in DOMAIN buf})
  IN  [j \in DOMAIN buf |-> buf[j] \o [b \in 1 .. top - Len(buf[j]) |-> 0]]

(* The symbol in slot i of the group with these sources, and what of its n *)
(* slots a receiver holds that has seen only those of S. *)
Symbol(buf, i) ==
  IF i < Len(buf) THEN buf[i + 1] ELSE Encode(Padded(buf), i - Len(buf) + 1)

Held(buf, n, S) ==
  [i \in 1 .. n |-> IF i - 1 \in S THEN Symbol(buf, i - 1) ELSE Missing]

MaxParity(f) == Max({f.min_m, f.max_m, f.current_m})

(* What the tunnel relies on of a FecScheme: k symbols of a group decode   *)
(* to its padded sources or to an error, and to an error only if the       *)
(* symbols at hand differ in length. *)
ASSUME CodeAssumption ==
  \A c \in Shapes :
    LET k == Params(ConfigureFec(c)).k
    IN  \A mm \in 0 .. MaxParity(ConfigureFec(c)), buf \in [1 .. k -> Packets] :
          \A S \in SUBSET Slots(k + mm) :
            Cardinality(S) >= k =>
              LET d == DecodeSymbols(k, Held(buf, k + mm, S))
              IN  \/ d = Padded(buf)
                  \/ d = <<>> /\ \E i, j \in S : Len(Symbol(buf, i)) # Len(Symbol(buf, j))

Init ==
  /\ shape \in Shapes
  /\ fec = ConfigureFec(shape)
  /\ observed = 0
  /\ group_id = 0
  /\ group_buffer = <<>>
  /\ rx_groups = [g \in Slots(GROUP_MOD) |-> NoGroup]
  /\ panicked = FALSE
  /\ net = {}
  /\ len = <<>>
  /\ protected = {}
  /\ writes = [n \in Source |-> 0]
  /\ garbage = FALSE
  /\ suppressed = {}

-----------------------------------------------------------------------------
(* Sender *)

Datagram(type, index, sym) ==
  [type |-> type, group |-> group_id, index |-> index, m |-> m, sym |-> sym]

(* A bug: the group id is not advanced. *)
NextGroupStays == group_id

NextGroup == (group_id + 1) % GROUP_MOD

(* A bug: the parities are numbered in reverse. *)
ParitiesReversed(buf) ==
  LET padded == Padded(buf)
  IN  {Datagram("Fec", K + m - i, Encode(padded, i)) : i \in 1 .. m}

(* The parities of a full group. *)
Parities(buf) ==
  LET padded == Padded(buf)
  IN  {Datagram("Fec", K + i - 1, Encode(padded, i)) : i \in 1 .. m}

(* handle_tun_packet from the header on, with flush_fec_group once the     *)
(* group is full.  A parity the window refuses is one the network loses. *)
SendData(l) ==
  LET n   == Len(len) + 1
      buf == Append(group_buffer, Packet(n, l))
      pkt == Datagram("Data", Len(group_buffer), Packet(n, l))
  IN  /\ Len(len) < shape.data /\ l \in shape.lens
      /\ len' = Append(len, l)
      /\ protected' = IF m > 0 THEN protected \cup {n} ELSE protected
      /\ IF Len(buf) >= K
           THEN /\ net' = net \cup {pkt} \cup Parities(buf)
                /\ group_buffer' = <<>>
                /\ group_id' = NextGroup
           ELSE /\ net' = net \cup {pkt}
                /\ group_buffer' = buf
                /\ UNCHANGED group_id
      /\ UNCHANGED <<shape, fec, observed, rxVars>>

(* flush_fec_group_if_stale: a partial group forfeits its parity. *)
FlushStale ==
  /\ group_buffer # <<>>
  /\ group_buffer' = <<>>
  /\ group_id' = NextGroup
  /\ UNCHANGED <<shape, fec, observed, len, protected, rxVars, net>>

(* A full window of outcomes in reconcile_peer_acks, between any two       *)
(* packets: observe_unrecoverable, then apply_fec_params. *)
ApplyFecParams(loss) ==
  /\ observed < shape.samples
  /\ observed' = observed + 1
  /\ fec' = Observe(fec, loss)
  /\ UNCHANGED <<shape, group_id, group_buffer, len, protected, rxVars, net>>

-----------------------------------------------------------------------------
(* Receiver *)

NewRxGroup(mm) ==
  [m |-> mm, symbols |-> [i \in Slots(K + mm) |-> Missing],
   delivered |-> {}, decoded |-> FALSE]

Present(g) == {i \in DOMAIN g.symbols : g.symbols[i] # Missing}

(* ReedSolomon::decode on the slots of g. *)
Decoded(g) == DecodeSymbols(K, [i \in 1 .. K + g.m |-> g.symbols[i - 1]])

(* The packet that starts with these bytes, padding behind it (its IP      *)
(* header tells its length), or 0 for bytes that nobody sent. *)
PacketOf(bytes) ==
  LET is(n) == /\ Len(bytes) >= len[n]
               /\ bytes = Packet(n, len[n]) \o [b \in 1 .. Len(bytes) - len[n] |-> 0]
      who   == {n \in Offered : is(n)}
  IN  IF who = {} THEN 0 ELSE Min(who)

(* The group after record_rx_symbol stored p, and the slots recover_group  *)
(* then writes. *)
Stored(g, p) ==
  [g EXCEPT !.symbols[p.index] = p.sym,
            !.delivered = IF p.type = "Data" /\ g.symbols[p.index] = Missing
                            THEN @ \cup {p.index} ELSE @]

(* A bug: one symbol more is waited for. *)
RecoversLate(g) == ~g.decoded /\ Cardinality(Present(g)) > K /\ Decoded(g) # <<>>

Recovers(g) == ~g.decoded /\ Cardinality(Present(g)) >= K /\ Decoded(g) # <<>>

RecoverGroup(g) ==
  IF Recovers(g) THEN [g EXCEPT !.decoded = TRUE, !.delivered = Slots(K)] ELSE g

FillsIn(g) == IF Recovers(g) THEN Slots(K) \ g.delivered ELSE {}

(* A bug: a source that recovery has written already is written again. *)
DirectAlways(g, p) == p.type = "Data"

(* handle_data: is the packet written at once? *)
Direct(g, p) ==
  p.type = "Data" /\ ~(p.m > 0 /\ g # NoGroup /\ p.index \in g.delivered)

(* handle_data and handle_parity, with record_rx_symbol. *)
Receive(p) ==
  LET g0     == rx_groups[p.group]
      g1     == IF g0 = NoGroup THEN NewRxGroup(p.m) ELSE g0
      direct == Direct(g0, p)
      held   == p.m > 0 /\ p.index < K + p.m
      inside == p.index \in DOMAIN g1.symbols
      g2     == Stored(g1, p)
      source == IF p.type = "Data" THEN PacketOf(p.sym) ELSE 0
      decoded == Decoded(g2)
      filled == IF held /\ inside
                  THEN [i \in FillsIn(g2) |-> PacketOf(decoded[i + 1])]
                  ELSE <<>>
      times(n) == Cardinality({i \in DOMAIN filled : filled[i] = n})
                    + IF direct /\ source = n THEN 1 ELSE 0
  IN  /\ ~panicked
      /\ writes' = [n \in Source |-> Min({2, writes[n] + times(n)})]
      /\ garbage' = (garbage \/ \E i \in DOMAIN filled : filled[i] = 0)
      /\ suppressed' = suppressed \cup
           IF p.type = "Data" /\ ~direct THEN {source} ELSE {}
      /\ rx_groups' = IF held /\ inside
                        THEN [rx_groups EXCEPT ![p.group] = RecoverGroup(g2)]
                        ELSE IF p.m > 0
                        THEN [rx_groups EXCEPT ![p.group] = g1]
                        ELSE rx_groups
      /\ panicked' = (held /\ ~inside)
      /\ UNCHANGED <<txVars, net>>

(* evict_expired_rx_groups, RX_GROUP_TTL after the group's last packet.    *)
(* Environment assumption: by then the group is closed at the sender and   *)
(* its datagrams have left the network. *)
Evict(g) ==
  /\ ~panicked
  /\ rx_groups[g] # NoGroup
  /\ ~(g = group_id /\ group_buffer # <<>>)
  /\ rx_groups' = [rx_groups EXCEPT ![g] = NoGroup]
  /\ net' = {p \in net : p.group # g}
  /\ UNCHANGED <<txVars, panicked, writes, garbage, suppressed>>

Next ==
  \/ \E l \in Lens : SendData(l)
  \/ FlushStale
  \/ \E loss \in Samples : ApplyFecParams(loss)
  \/ \E p \in net : Receive(p)
  \/ \E g \in Slots(GROUP_MOD) : Evict(g)

Spec == Init /\ [][Next]_vars

-----------------------------------------------------------------------------

MostParity == MaxParity(ConfigureFec(shape))

TypeOK ==
  /\ m \in 0 .. MostParity /\ fec.smoothed_loss \in 0 .. 1000
  /\ observed > 0 => m \in fec.min_m .. Max({fec.min_m, fec.max_m})
  /\ group_id \in Slots(GROUP_MOD)
  /\ Len(group_buffer) < K
  /\ \A g \in Slots(GROUP_MOD) :
       \/ rx_groups[g] = NoGroup
       \/ /\ rx_groups[g].m \in 1 .. MostParity
          /\ DOMAIN rx_groups[g].symbols = Slots(K + rx_groups[g].m)
          /\ rx_groups[g].delivered \subseteq Slots(K)
          /\ rx_groups[g].decoded \in BOOLEAN
  /\ len \in Seq(Lens)
  /\ protected \subseteq Source
  /\ writes \in [Source -> 0 .. 2]
  /\ panicked \in BOOLEAN /\ garbage \in BOOLEAN

(* The tunnel keeps the promise of a datagram service: nothing made up, a  *)
(* packet sent with parity written at most once although the network       *)
(* duplicates and recovery races the late original (handle_data,           *)
(* recover_group). *)
Service == INSTANCE DatagramService WITH offered <- Offered

ImplementsService == Service!Spec

(* Only duplicates are withheld: a suppressed packet had been written      *)
(* ("already been written to TUN", handle_data and is_source_delivered). *)
SuppressHonest == \A n \in suppressed : writes[n] > 0

(* Every index a well-behaved sender uses falls in the group's n = k + m   *)
(* slots, so the receiving task does not panic (record_rx_symbol). *)
InBounds == ~panicked

(* Recovery never combines symbols of two groups into a packet that nobody *)
(* sent (recover_group, flush_fec_group). *)
Genuine == ~garbage

(* The symbols that have come are of one length: a source keeps the length *)
(* of its packet, a parity has that of the group's longest. *)
Alike(g) == \A i, j \in Present(g) : Len(g.symbols[i]) = Len(g.symbols[j])

(* A group with K symbols of one length has handed over all its sources,   *)
(* whichever symbols were lost and in whatever order the rest came         *)
(* (recover_group).  doc/fec.md:99 promises it of any K symbols; without   *)
(* Alike it does not hold, for decode refuses a source shorter than the    *)
(* parity beside it. *)
AnyKSuffice ==
  TypeOK /\ \A g \in Slots(GROUP_MOD) :
    /\ rx_groups[g] # NoGroup
    /\ Cardinality(Present(rx_groups[g])) >= K
    /\ Alike(rx_groups[g])
    => rx_groups[g].delivered = Slots(K)

=============================================================================
