-------------------------- MODULE TunnelLinkProofs --------------------------
(***************************************************************************)
(* Two tunnels over a network that loses, repeats and reorders: what the   *)
(* acknowledgements and the Close of one end prove about the other, for    *)
(* every width of the sequence numbers and the ack bitmap and for any      *)
(* number of packets and wraps.                                            *)
(***************************************************************************)
EXTENDS TunnelLink, FiniteSetTheorems, WellFoundedInduction, NaturalsInduction, TLAPS

-----------------------------------------------------------------------------
(* AckTracker *)

(* A tracker that has seen nothing claims nothing. *)
Blank(t) == t.anchor = 0 => t.bitmap = {}

(* What the window slides over keeps its place. *)
LEMMA SlideSound ==
  ASSUME NEW t \in AckTrackers, NEW seq \in SeqNum, NEW s \in SeqNum,
         t.anchor # 0, seq # 0, s # 0, WrappingSub(seq, t.anchor) # 0,
         PeerAcked(SlideForward(t, seq, WrappingSub(seq, t.anchor)), s)
  PROVE  s = seq \/ PeerAcked(t, s)
<1> DEFINE advance == WrappingSub(seq, t.anchor)
           b == WrappingSub(seq, s) - 1
<1> USE SessionAssumption
<1>1. t.anchor \in SeqNum /\ t.bitmap \subseteq 0 .. ACK_BITS - 1
  BY DEF AckTrackers
<1>2. advance \in SeqNum /\ b \in Int
  BY <1>1 DEF WrappingSub, SeqNum
<1> SUFFICES ASSUME s # seq PROVE PeerAcked(t, s)
  OBVIOUS
<1>3. b \in 0 .. ACK_BITS - 1 /\ (b - advance \in t.bitmap \/ b = advance - 1)
  BY <1>2 DEF PeerAcked, SlideForward, ShiftLeft
<1>4. CASE b = advance - 1
  <2>1. s = t.anchor
    BY <1>1, <1>4 DEF WrappingSub, SeqNum
  <2> QED
    BY <2>1 DEF PeerAcked
<1>5. CASE b - advance \in t.bitmap
  <2>1. b - advance \in 0 .. ACK_BITS - 1
    BY <1>1, <1>5
  <2>2. WrappingSub(t.anchor, s) - 1 = b - advance
    BY <1>1, <1>2, <2>1 DEF WrappingSub, SeqNum
  <2> QED
    BY <1>5, <2>2 DEF PeerAcked
<1> QED
  BY <1>3, <1>4, <1>5

(* Recording a number adds that number to what is acknowledged, nothing    *)
(* else, wraps included. *)
LEMMA AckRecordSound ==
  ASSUME NEW t \in AckTrackers, Blank(t), NEW seq \in SeqNum
  PROVE  /\ AckRecord(t, seq) \in AckTrackers /\ Blank(AckRecord(t, seq))
         /\ \A s \in SeqNum : PeerAcked(AckRecord(t, seq), s) => s = seq \/ PeerAcked(t, s)
<1> DEFINE advance == WrappingSub(seq, t.anchor)
           back == WrappingSub(t.anchor, seq)
<1> USE SessionAssumption
<1>1. /\ t.anchor \in SeqNum /\ t.bitmap \subseteq 0 .. ACK_BITS - 1
      /\ t = [anchor |-> t.anchor, bitmap |-> t.bitmap]
  BY DEF AckTrackers
<1>2. advance \in SeqNum /\ back \in SeqNum
  BY <1>1 DEF WrappingSub, SeqNum
<1>3. CASE AckRecord(t, seq) = t
  BY <1>3
<1>4. CASE seq # 0 /\ t.anchor = 0
  <2>1. AckRecord(t, seq) = [anchor |-> seq, bitmap |-> {}]
    BY <1>1, <1>4 DEF AckRecord, Blank
  <2> QED
    BY <1>4, <2>1 DEF PeerAcked, Blank, AckTrackers
<1>5. CASE seq # 0 /\ t.anchor # 0 /\ advance # 0 /\ IsForward(advance)
  <2>1. AckRecord(t, seq) = SlideForward(t, seq, advance)
    BY <1>5 DEF AckRecord
  <2>2. SlideForward(t, seq, advance) \in AckTrackers /\ SlideForward(t, seq, advance).anchor # 0
    BY <1>2, <1>5 DEF SlideForward, ShiftLeft, AckTrackers
  <2>3. \A s \in SeqNum : PeerAcked(SlideForward(t, seq, advance), s) => s = seq \/ PeerAcked(t, s)
    BY <1>5, SlideSound DEF PeerAcked
  <2> QED
    BY <2>1, <2>2, <2>3 DEF Blank
<1>6. CASE seq # 0 /\ t.anchor # 0 /\ back \in 1 .. ACK_BITS
           /\ AckRecord(t, seq) = [t EXCEPT !.bitmap = @ \cup {back - 1}]
  <2> DEFINE r == [anchor |-> t.anchor, bitmap |-> t.bitmap \cup {back - 1}]
  <2>1. AckRecord(t, seq) = r
    BY <1>1, <1>6
  <2>2. r \in AckTrackers
    BY <1>1, <1>6 DEF AckTrackers
  <2>3. ASSUME NEW s \in SeqNum, PeerAcked(r, s) PROVE s = seq \/ PeerAcked(t, s)
    <3>1. CASE WrappingSub(t.anchor, s) - 1 = back - 1
      BY <1>1, <3>1 DEF WrappingSub, SeqNum
    <3> QED
      BY <2>3, <3>1 DEF PeerAcked
  <2> QED
    BY <1>6, <2>1, <2>2, <2>3 DEF Blank
<1>7. CASE seq # 0 /\ t.anchor # 0 /\ advance # 0 /\ ~IsForward(advance)
           /\ back \in 1 .. ACK_BITS
  BY <1>6, <1>7 DEF AckRecord
<1> QED
  BY <1>3, <1>4, <1>5, <1>7 DEF AckRecord

-----------------------------------------------------------------------------
(* The inductive invariant *)

LinkTyped ==
  /\ next_seq \in [End -> SeqNum]
  /\ sealed \in [End -> Nat]
  /\ used \in [End -> SUBSET SeqNum]
  /\ ack \in [End -> AckTrackers]
  /\ peer_adv \in [End -> AckTrackers]
  /\ received \in [End -> SUBSET SeqNum]
  /\ exit \in [End -> {"none", "PeerClosed"} \cup Exits]
  /\ net \subseteq Packet

(* adv acknowledges only what e has authenticated. *)
Truthful(adv, e) == \A s \in SeqNum : PeerAcked(adv, s) => s \in received[e]

AckTruthful == \A e \in End : Blank(ack[e]) /\ Truthful(ack[e], e)

(* A datagram on the wire bears a number its sender used and tells the     *)
(* truth about what had arrived there; a Close means its sender has left   *)
(* for a reason of its own. *)
NetTruthful ==
  \A p \in net : /\ p.seq \in used[p.from]
                 /\ Truthful(p.adv, p.from)
                 /\ p.type = "Close" => exit[p.from] \in Exits \ Silent

AdvTruthful == \A e \in End : Truthful(peer_adv[e], Peer(e))

ReceivedSent == \A e \in End : received[e] \subseteq used[Peer(e)]

(* The loop left by a received Close: the peer has left, by itself. *)
CloseTold ==
  \A e \in End : exit[e] = "PeerClosed" => exit[Peer(e)] \in Exits \ Silent

LInv ==
  /\ LinkTyped /\ AckTruthful /\ NetTruthful /\ AdvTruthful /\ ReceivedSent /\ CloseTold

LEMMA PeerOther ==
  ASSUME NEW e \in End
  PROVE  /\ Peer(e) \in End /\ Peer(e) # e /\ Peer(Peer(e)) = e
         /\ \A d \in End : d # e => d = Peer(e)
<1>1. PICK x, y \in End : x # y /\ End = {x, y}
  BY TunnelLinkAssumption
<1>2. \A d \in End : Peer(d) \in End /\ Peer(d) # d
  BY <1>1 DEF Peer
<1> QED
  BY <1>1, <1>2

LEMMA LinkInit == Init => LInv
<1> SUFFICES ASSUME Init PROVE LInv
  OBVIOUS
<1>1. /\ NewAckTracker \in AckTrackers /\ Blank(NewAckTracker)
      /\ \A s : ~PeerAcked(NewAckTracker, s)
  BY SessionAssumption DEF NewAckTracker, AckTrackers, Blank, PeerAcked, SeqNum
<1>2. 1 \in SeqNum
  BY SessionAssumption DEF SeqNum
<1>3. LinkTyped
  BY <1>1, <1>2 DEF Init, LinkTyped
<1>4. AckTruthful /\ AdvTruthful
  BY <1>1 DEF Init, AckTruthful, AdvTruthful, Truthful
<1> QED
  BY <1>3, <1>4 DEF Init, LInv, NetTruthful, ReceivedSent, CloseTold

-----------------------------------------------------------------------------
(* What the steps do to the wire and to what each end knows *)

knowledge == <<ack, peer_adv, received, exit>>

Silently == UNCHANGED <<sendVars, knowledge, net>>

SealsOnly(e) == AllocSeq(e) /\ UNCHANGED <<knowledge, net>>

Sends(e) ==
  \E type \in PacketType \ {"Close"} :
    SendPacket(e, type, ack[e]) /\ UNCHANGED knowledge

(* Every step but a receipt and an exit is one of these three. *)
LEMMA StepShapes ==
  ASSUME Next
  PROVE  \/ Silently
         \/ \E e \in End : SealsOnly(e) \/ Sends(e)
         \/ \E e \in End : \E p \in net : \E cut \in Cuts(e) : Receive(e, p, cut)
         \/ \E e \in End : \E reason \in Arms[e] \ Silent : CloseAndExit(e, reason)
         \/ \E e \in End : \E reason \in Arms[e] \cap Silent : SourceGone(e, reason)
<1> USE DEF sendVars, recvVars, knowledge
<1>1. \A e \in End : \A len : Refuse(e, len) => Silently
  BY DEF Refuse, Silently
<1>2. \A e \in End : \A len : Transmit(e, len) => Sends(e)
  BY DEF Transmit, Sends, PacketType
<1>3. \A e \in End : \A len : TransmitFails(e, len) => SealsOnly(e)
  BY DEF TransmitFails, SealsOnly
<1>4. \A e \in End : \A len :
        HandleTunPacket(e, len) => Silently \/ SealsOnly(e) \/ Sends(e)
  BY <1>1, <1>2, <1>3 DEF HandleTunPacket
<1>5. \A e \in End : \A len : TunRecv(e, len) => HandleTunPacket(e, len)
  BY DEF TunRecv
<1>6. \A e \in End : RetryPending(e) => HandleTunPacket(e, pending[e])
  BY DEF RetryPending
<1>7. \A e \in End : PacerCredit(e) \/ FlushStaleGroup(e) => Silently
  BY DEF PacerCredit, FlushStaleGroup, Silently
<1>8. \A e \in End : SendParity(e) => Silently \/ SealsOnly(e) \/ Sends(e)
  <2> SUFFICES ASSUME NEW e \in End, SendParity(e)
               PROVE  Silently \/ SealsOnly(e) \/ Sends(e)
    OBVIOUS
  <2>1. UNCHANGED knowledge
    BY DEF SendParity
  <2>2. UNCHANGED <<sendVars, net>> \/ SendPacket(e, "Fec", ack[e]) \/ (AllocSeq(e) /\ UNCHANGED net)
    BY DEF SendParity
  <2> QED
    BY <2>1, <2>2 DEF Silently, SealsOnly, Sends, PacketType
<1>9. \A e \in End : \A type \in Probes : Probe(e, type) => Sends(e)
  BY TunnelLinkAssumption DEF Probe, Sends, PacketType
<1>10. \A e \in End : FlushCoalescedAck(e) => Sends(e)
  BY DEF FlushCoalescedAck, Sends, PacketType
<1>11. \A e \in End : \A cut : CheckRetransmits(e, cut) => Silently
  BY DEF CheckRetransmits, Silently
<1> QED
  BY <1>4, <1>5, <1>6, <1>7, <1>8, <1>9, <1>10, <1>11 DEF Next

(* A new number on the wire: only more is used. *)
LEMMA SealEffect ==
  ASSUME LinkTyped, NEW e \in End, AllocSeq(e)
  PROVE  /\ next_seq' \in [End -> SeqNum] /\ sealed' \in [End -> Nat]
         /\ used' \in [End -> SUBSET SeqNum]
         /\ \A d \in End : used[d] \subseteq used'[d]
         /\ next_seq[e] \in used'[e] /\ next_seq[e] \in SeqNum
<1>1. WrappingInc(next_seq[e]) \in SeqNum /\ next_seq[e] \in SeqNum
  BY SessionAssumption DEF LinkTyped, WrappingInc, SeqNum
<1> QED
  BY <1>1 DEF AllocSeq, LinkTyped

LEMMA SendsKeep ==
  ASSUME LInv, NEW e \in End, SealsOnly(e) \/ Sends(e)
  PROVE  LInv'
<1>1. UNCHANGED knowledge /\ AllocSeq(e)
  BY DEF SealsOnly, Sends, SendPacket
<1>2. /\ next_seq' \in [End -> SeqNum] /\ sealed' \in [End -> Nat]
      /\ used' \in [End -> SUBSET SeqNum]
      /\ \A d \in End : used[d] \subseteq used'[d]
      /\ next_seq[e] \in used'[e] /\ next_seq[e] \in SeqNum
  BY <1>1, SealEffect DEF LInv
<1>3. \A p \in net' \ net : /\ p \in Packet /\ p.from = e /\ p.type # "Close"
                            /\ p.seq = next_seq[e] /\ p.adv = ack[e]
  <2>1. CASE SealsOnly(e)
    BY <2>1 DEF SealsOnly
  <2>2. CASE Sends(e)
    <3>1. PICK type \in PacketType \ {"Close"} : net' = net \cup {Sealed(e, type, ack[e])}
      BY <2>2 DEF Sends, SendPacket
    <3>2. /\ Sealed(e, type, ack[e]) \in Packet
          /\ Sealed(e, type, ack[e]).from = e /\ Sealed(e, type, ack[e]).type = type
          /\ Sealed(e, type, ack[e]).seq = next_seq[e] /\ Sealed(e, type, ack[e]).adv = ack[e]
      BY <1>2 DEF Sealed, Packet, LInv, LinkTyped
    <3> QED
      BY <3>1, <3>2
  <2> QED
    BY <2>1, <2>2
<1>4. LinkTyped'
  BY <1>1, <1>2, <1>3 DEF LInv, LinkTyped, knowledge
<1>5. AckTruthful' /\ AdvTruthful' /\ CloseTold'
  BY <1>1 DEF LInv, AckTruthful, AdvTruthful, CloseTold, Truthful, knowledge
<1>6. ReceivedSent'
  BY <1>1, <1>2, PeerOther DEF LInv, ReceivedSent, knowledge
<1>7. NetTruthful'
  <2> SUFFICES ASSUME NEW p \in net'
               PROVE  /\ p.seq \in used'[p.from]
                      /\ \A s \in SeqNum : PeerAcked(p.adv, s) => s \in received[p.from]
                      /\ p.type = "Close" => exit[p.from] \in Exits \ Silent
    BY <1>1 DEF NetTruthful, Truthful, knowledge
  <2>1. CASE p \in net
    <3>1. p.from \in End
      BY <2>1 DEF LInv, LinkTyped, Packet
    <3> QED
      BY <1>2, <2>1, <3>1 DEF LInv, NetTruthful, Truthful
  <2>2. CASE p \notin net
    BY <1>2, <1>3, <2>2 DEF LInv, AckTruthful, Truthful
  <2> QED
    BY <2>1, <2>2
<1> QED
  BY <1>4, <1>5, <1>6, <1>7 DEF LInv

(* A receipt: the datagram's number and its advertisement are believed,    *)
(* and an answer may go out. *)
LEMMA ReceiveKeeps ==
  ASSUME LInv, NEW e \in End, NEW p \in net, NEW cut, Receive(e, p, cut)
  PROVE  LInv'
<1> USE DEF LInv
<1> DEFINE ack1 == AckRecord(ack[e], p.seq)
           fresh == p.type = "Close" /\ IsFresh(replay[e], p.seq)
<1>1. /\ p \in Packet /\ p.seq \in SeqNum /\ p.adv \in AckTrackers
      /\ p.from = Peer(e) /\ exit[e] = "none"
      /\ p.seq \in used[Peer(e)] /\ Truthful(p.adv, Peer(e))
      /\ p.type = "Close" => exit[Peer(e)] \in Exits \ Silent
  <2>1. p \in Packet /\ p.from = Peer(e) /\ exit[e] = "none"
    BY DEF LinkTyped, Receive, AtSelect, Running
  <2> QED
    BY <2>1 DEF Packet, NetTruthful
<1>2. /\ ack1 \in AckTrackers /\ Blank(ack1)
      /\ \A s \in SeqNum : PeerAcked(ack1, s) => s \in received[e] \cup {p.seq}
  <2>1. /\ ack1 \in AckTrackers /\ Blank(ack1)
        /\ \A s \in SeqNum : PeerAcked(ack1, s) => s = p.seq \/ PeerAcked(ack[e], s)
    BY <1>1, AckRecordSound DEF LinkTyped, AckTruthful
  <2> QED
    BY <2>1 DEF AckTruthful, Truthful
<1> DEFINE ack2 == IF fresh THEN AckRecord(ack1, p.seq) ELSE ack1
<1>3. /\ ack2 \in AckTrackers /\ Blank(ack2)
      /\ \A s \in SeqNum : PeerAcked(ack2, s) => s \in received[e] \cup {p.seq}
  <2>1. CASE fresh
    <3>1. /\ AckRecord(ack1, p.seq) \in AckTrackers /\ Blank(AckRecord(ack1, p.seq))
          /\ \A s \in SeqNum : PeerAcked(AckRecord(ack1, p.seq), s)
                                 => s = p.seq \/ PeerAcked(ack1, s)
      <4> HIDE DEF ack1
      <4> QED
        BY <1>1, <1>2, AckRecordSound
    <3> QED
      BY <1>2, <2>1, <3>1
  <2> QED
    BY <1>2, <2>1
<1>4. /\ ack' = [ack EXCEPT ![e] = ack2]
      /\ received' = [received EXCEPT ![e] = received[e] \cup {p.seq}]
      /\ exit' = [exit EXCEPT ![e] = IF fresh THEN "PeerClosed" ELSE exit[e]]
  BY DEF Receive
<1>5. peer_adv' = [peer_adv EXCEPT ![e] = p.adv] \/ peer_adv' = peer_adv
  BY DEF Receive
<1>6. \/ UNCHANGED <<sendVars, net>>
      \/ AllocSeq(e) /\ net' = net \cup {Sealed(e, "Ack", ack1)}
      \/ AllocSeq(e) /\ net' = net \cup {Sealed(e, "Pong", ack1)}
  BY DEF Receive, SendPacket
<1>7. /\ next_seq' \in [End -> SeqNum] /\ sealed' \in [End -> Nat]
      /\ used' \in [End -> SUBSET SeqNum]
      /\ \A d \in End : used[d] \subseteq used'[d]
      /\ AllocSeq(e) => next_seq[e] \in used'[e] /\ next_seq[e] \in SeqNum
  <2>1. CASE UNCHANGED sendVars /\ ~AllocSeq(e)
    BY <2>1 DEF sendVars, LinkTyped
  <2>2. CASE AllocSeq(e)
    BY <2>2, SealEffect
  <2> QED
    BY <1>6, <2>1, <2>2
<1> HIDE DEF ack1, ack2, fresh
<1>8. \A q \in net' \ net : /\ q \in Packet /\ q.from = e /\ q.type # "Close"
                            /\ q.seq \in used'[e] /\ q.adv = ack1
  <2>1. ASSUME NEW type \in {"Ack", "Pong"}, AllocSeq(e)
        PROVE  /\ Sealed(e, type, ack1) \in Packet /\ Sealed(e, type, ack1).from = e
               /\ Sealed(e, type, ack1).type # "Close"
               /\ Sealed(e, type, ack1).seq \in used'[e]
               /\ Sealed(e, type, ack1).adv = ack1
    BY <1>2, <1>7, <2>1 DEF Sealed, Packet, PacketType
  <2> QED
    BY <1>6, <2>1
<1>9. /\ Peer(e) \in End /\ Peer(e) # e /\ \A d \in End : d # e => d = Peer(e)
      /\ Peer(Peer(e)) = e
  BY PeerOther
<1>10. /\ received'[e] = received[e] \cup {p.seq} /\ received'[Peer(e)] = received[Peer(e)]
       /\ ack'[e] = ack2 /\ ack'[Peer(e)] = ack[Peer(e)]
       /\ exit'[e] \in {exit[e], "PeerClosed"} /\ exit'[Peer(e)] = exit[Peer(e)]
       /\ exit'[e] = "PeerClosed" => fresh
  BY <1>1, <1>4, <1>9 DEF LinkTyped
<1>11. LinkTyped'
  <2>1. ack' \in [End -> AckTrackers] /\ peer_adv' \in [End -> AckTrackers]
    BY <1>1, <1>3, <1>4, <1>5 DEF LinkTyped
  <2>2. received' \in [End -> SUBSET SeqNum]
    BY <1>1, <1>4 DEF LinkTyped
  <2>3. exit' \in [End -> {"none", "PeerClosed"} \cup Exits]
    BY <1>4 DEF LinkTyped
  <2>4. net' \subseteq Packet
    BY <1>8 DEF LinkTyped
  <2> QED
    BY <1>7, <2>1, <2>2, <2>3, <2>4 DEF LinkTyped
<1>12. AckTruthful'
  <2>1. Blank(ack'[e]) /\ \A s \in SeqNum : PeerAcked(ack'[e], s) => s \in received'[e]
    BY <1>3, <1>10
  <2>2. /\ Blank(ack'[Peer(e)])
        /\ \A s \in SeqNum : PeerAcked(ack'[Peer(e)], s) => s \in received'[Peer(e)]
    BY <1>9, <1>10 DEF AckTruthful, Truthful
  <2>3. \A d \in End : Blank(ack'[d]) /\ \A s \in SeqNum : PeerAcked(ack'[d], s) => s \in received'[d]
    BY <1>9, <2>1, <2>2
  <2> QED
    BY <2>3 DEF AckTruthful, Truthful
<1>13. AdvTruthful'
  <2> SUFFICES ASSUME NEW d \in End, NEW s \in SeqNum, PeerAcked(peer_adv'[d], s)
               PROVE  s \in received'[Peer(d)]
    BY DEF AdvTruthful, Truthful
  <2>1. received[Peer(d)] \subseteq received'[Peer(d)]
    BY <1>9, <1>10
  <2>2. CASE peer_adv'[d] = peer_adv[d]
    BY <2>1, <2>2 DEF AdvTruthful, Truthful
  <2>3. CASE d = e /\ peer_adv'[d] = p.adv
    BY <1>1, <2>1, <2>3 DEF Truthful
  <2> QED
    BY <1>5, <2>2, <2>3 DEF LinkTyped
<1>14. ReceivedSent'
  <2>1. received'[e] \subseteq used'[Peer(e)]
    BY <1>1, <1>7, <1>9, <1>10 DEF ReceivedSent
  <2>2. received'[Peer(e)] \subseteq used'[e]
    BY <1>7, <1>9, <1>10 DEF ReceivedSent
  <2> QED
    BY <1>9, <2>1, <2>2 DEF ReceivedSent
<1>15. NetTruthful'
  <2> SUFFICES ASSUME NEW q \in net'
               PROVE  /\ q.seq \in used'[q.from]
                      /\ \A s \in SeqNum : PeerAcked(q.adv, s) => s \in received'[q.from]
                      /\ q.type = "Close" => exit'[q.from] \in Exits \ Silent
    BY DEF NetTruthful, Truthful
  <2>1. CASE q \in net
    <3>1. q.from \in End /\ (q.from = e \/ q.from = Peer(e))
      BY <1>9, <2>1 DEF LinkTyped, Packet
    <3>2. received[q.from] \subseteq received'[q.from]
      BY <1>10, <3>1
    <3>3. q.type = "Close" => q.from # e
      BY <1>1, <2>1, TunnelLinkAssumption DEF NetTruthful, Exits
    <3> QED
      BY <1>7, <1>10, <2>1, <3>1, <3>2, <3>3 DEF NetTruthful, Truthful
  <2>2. CASE q \notin net
    BY <1>2, <1>8, <1>10, <2>2
  <2> QED
    BY <2>1, <2>2
<1>16. CloseTold'
  <2>1. exit'[e] = "PeerClosed" => exit'[Peer(e)] \in Exits \ Silent
    BY <1>1, <1>10 DEF fresh
  <2>2. exit'[Peer(e)] # "PeerClosed"
    <3>1. exit[Peer(e)] = "PeerClosed" => exit[e] \in Exits
      BY <1>9 DEF CloseTold
    <3> QED
      BY <1>1, <1>10, <3>1, TunnelLinkAssumption DEF Exits
  <2> QED
    BY <1>9, <2>1, <2>2 DEF CloseTold
<1> QED
  BY <1>11, <1>12, <1>13, <1>14, <1>15, <1>16

(* Leaving the loop, with or without a Close. *)
LEMMA ExitKeeps ==
  ASSUME LInv, NEW e \in End, NEW reason \in Exits,
         \/ CloseAndExit(e, reason) /\ reason \notin Silent
         \/ SourceGone(e, reason)
  PROVE  LInv'
<1> USE DEF LInv
<1>1. /\ exit[e] = "none" /\ exit' = [exit EXCEPT ![e] = reason]
      /\ UNCHANGED <<ack, peer_adv, received>>
  BY DEF CloseAndExit, SourceGone, AtSelect, Running, recvVars
<1>2. \/ UNCHANGED <<sendVars, net>>
      \/ AllocSeq(e) /\ UNCHANGED net
      \/ AllocSeq(e) /\ net' = net \cup {Sealed(e, "Close", ack[e])} /\ reason \notin Silent
  BY DEF CloseAndExit, SourceGone
<1>3. /\ next_seq' \in [End -> SeqNum] /\ sealed' \in [End -> Nat]
      /\ used' \in [End -> SUBSET SeqNum]
      /\ \A d \in End : used[d] \subseteq used'[d]
      /\ AllocSeq(e) => next_seq[e] \in used'[e] /\ next_seq[e] \in SeqNum
  <2>1. CASE UNCHANGED sendVars /\ ~AllocSeq(e)
    BY <2>1 DEF sendVars, LinkTyped
  <2>2. CASE AllocSeq(e)
    BY <2>2, SealEffect
  <2> QED
    BY <1>2, <2>1, <2>2
<1>4. \A q \in net' \ net : /\ q \in Packet /\ q.from = e /\ reason \notin Silent
                            /\ q.seq \in used'[e] /\ q.adv = ack[e]
  <2>1. ASSUME AllocSeq(e)
        PROVE  /\ Sealed(e, "Close", ack[e]) \in Packet /\ Sealed(e, "Close", ack[e]).from = e
               /\ Sealed(e, "Close", ack[e]).seq \in used'[e]
               /\ Sealed(e, "Close", ack[e]).adv = ack[e]
    BY <1>3, <2>1 DEF Sealed, Packet, PacketType, LinkTyped
  <2> QED
    BY <1>2, <2>1
<1>5. exit'[e] = reason /\ \A d \in End : d # e => exit'[d] = exit[d]
  BY <1>1 DEF LinkTyped
<1>6. LinkTyped'
  <2>1. exit' \in [End -> {"none", "PeerClosed"} \cup Exits]
    BY <1>1 DEF LinkTyped
  <2>2. net' \subseteq Packet
    BY <1>4 DEF LinkTyped
  <2> QED
    BY <1>1, <1>3, <2>1, <2>2 DEF LinkTyped
<1>7. AckTruthful' /\ AdvTruthful'
  BY <1>1 DEF AckTruthful, AdvTruthful, Truthful
<1>8. ReceivedSent'
  BY <1>1, <1>3, PeerOther DEF ReceivedSent
<1>9. NetTruthful'
  <2> SUFFICES ASSUME NEW q \in net'
               PROVE  /\ q.seq \in used'[q.from]
                      /\ \A s \in SeqNum : PeerAcked(q.adv, s) => s \in received[q.from]
                      /\ q.type = "Close" => exit'[q.from] \in Exits \ Silent
    BY <1>1 DEF NetTruthful, Truthful
  <2>1. CASE q \in net
    <3>1. q.from \in End
      BY <2>1 DEF LinkTyped, Packet
    <3>2. q.type = "Close" => q.from # e
      BY <1>1, <2>1, TunnelLinkAssumption DEF NetTruthful, Exits
    <3> QED
      BY <1>3, <1>5, <2>1, <3>1, <3>2 DEF NetTruthful, Truthful
  <2>2. CASE q \notin net
    BY <1>4, <1>5, <2>2 DEF AckTruthful, Truthful
  <2> QED
    BY <2>1, <2>2
<1>10. CloseTold'
  <2> SUFFICES ASSUME NEW d \in End, exit'[d] = "PeerClosed"
               PROVE  exit'[Peer(d)] \in Exits \ Silent
    BY DEF CloseTold
  <2>1. d # e
    BY <1>5, TunnelLinkAssumption DEF Exits
  <2>2. exit[Peer(d)] \in Exits \ Silent
    BY <1>5, <2>1 DEF CloseTold
  <2>3. Peer(d) \in End /\ Peer(d) # e
    BY <1>1, <2>2, PeerOther, TunnelLinkAssumption DEF Exits
  <2> QED
    BY <1>5, <2>2, <2>3
<1> QED
  BY <1>6, <1>7, <1>8, <1>9, <1>10

LEMMA LinkInvariant == Spec => []LInv
<1>1. LInv /\ [Next]_vars => LInv'
  <2> SUFFICES ASSUME LInv, [Next]_vars PROVE LInv'
    OBVIOUS
  <2>1. CASE Silently
    <3>1. UNCHANGED <<next_seq, sealed, used, ack, peer_adv, received, exit, net>>
      BY <2>1 DEF Silently, sendVars, knowledge
    <3> QED
      BY <3>1 DEF LInv, LinkTyped, AckTruthful, NetTruthful, AdvTruthful, ReceivedSent,
                  CloseTold, Truthful
  <2>2. CASE \E e \in End : SealsOnly(e) \/ Sends(e)
    BY <2>2, SendsKeep
  <2>3. CASE \E e \in End : \E p \in net : \E cut \in Cuts(e) : Receive(e, p, cut)
    BY <2>3, ReceiveKeeps
  <2>4. CASE \E e \in End : \E reason \in Arms[e] \ Silent : CloseAndExit(e, reason)
    BY <2>4, ExitKeeps, TunnelLinkAssumption
  <2>5. CASE \E e \in End : \E reason \in Arms[e] \cap Silent : SourceGone(e, reason)
    BY <2>5, ExitKeeps, TunnelLinkAssumption
  <2>6. UNCHANGED vars => Silently
    BY DEF vars, Silently, sendVars, recvVars, knowledge
  <2> QED
    BY <2>1, <2>2, <2>3, <2>4, <2>5, <2>6, StepShapes
<1> QED
  BY <1>1, LinkInit, PTL DEF Spec

-----------------------------------------------------------------------------
(* The theorems *)

(* An end takes a packet for delivered only if its peer has authenticated  *)
(* it, over any network, for every width of the bitmap and after any       *)
(* number of wraps (observe_acks, peer_acked, AckTracker::record). *)
THEOREM AcksAreSound == Spec => []AckSound
<1>1. LInv => AckSound
  BY PeerOther DEF LInv, AckSound, AdvTruthful, Truthful, ReceivedSent
<1> QED
  BY <1>1, LinkInvariant, PTL

(* PeerClosed is reported only by an end that was evicted or whose peer    *)
(* has left for a reason of its own, over any network and with any arms    *)
(* (the Close and eviction arms of Tunnel::run). *)
THEOREM ClosesAreHonest == Spec => []CloseHonest
<1>1. LInv => CloseHonest
  BY DEF LInv, CloseTold, CloseHonest, TunnelExit
<1> QED
  BY <1>1, LinkInvariant, PTL

-----------------------------------------------------------------------------
(* Nonces *)

(* The numbers used so far are 1 .. sealed, and 0 once the counter has     *)
(* come round. *)
Counted ==
  \A e \in End :
    /\ sealed[e] \in Nat
    /\ sealed[e] < SEQ_MOD =>
         /\ used[e] = 1 .. sealed[e]
         /\ next_seq[e] = IF sealed[e] = SEQ_MOD - 1 THEN 0 ELSE sealed[e] + 1
    /\ sealed[e] = SEQ_MOD => used[e] = 0 .. SEQ_MOD - 1

(* Until the sequence numbers have all been used, no two packets of one    *)
(* end are sealed with the same: "each (key, nonce) pair is used exactly   *)
(* once" (doc/crypto.md). *)
NonceOnceBeforeWrap ==
  \A e \in End : sealed[e] <= SEQ_MOD => Cardinality(used[e]) = sealed[e]

LEMMA CountedKept ==
  ASSUME LInv, Counted, NEW e \in End, AllocSeq(e)
  PROVE  Counted'
<1> USE SessionAssumption
<1>1. /\ next_seq' = [next_seq EXCEPT ![e] = WrappingInc(next_seq[e])]
      /\ sealed' = [sealed EXCEPT ![e] = sealed[e] + 1]
      /\ used' = [used EXCEPT ![e] = used[e] \cup {next_seq[e]}]
  BY DEF AllocSeq
<1>2. /\ next_seq \in [End -> SeqNum] /\ sealed \in [End -> Nat]
      /\ used \in [End -> SUBSET SeqNum]
  BY DEF LInv, LinkTyped
<1>3. \A d \in End \ {e} : /\ next_seq'[d] = next_seq[d] /\ sealed'[d] = sealed[d]
                           /\ used'[d] = used[d]
  BY <1>1, <1>2
<1>4. /\ next_seq'[e] = WrappingInc(next_seq[e]) /\ sealed'[e] = sealed[e] + 1
      /\ used'[e] = used[e] \cup {next_seq[e]} /\ sealed[e] \in Nat
  BY <1>1, <1>2
<1>5. CASE sealed[e] + 1 < SEQ_MOD
  <2>1. used[e] = 1 .. sealed[e] /\ next_seq[e] = sealed[e] + 1
    BY <1>4, <1>5 DEF Counted
  <2>2. used'[e] = 1 .. sealed'[e]
    BY <1>4, <2>1
  <2>3. next_seq'[e] = IF sealed'[e] = SEQ_MOD - 1 THEN 0 ELSE sealed'[e] + 1
    BY <1>4, <2>1 DEF WrappingInc
  <2> QED
    BY <1>3, <1>4, <1>5, <2>2, <2>3 DEF Counted
<1>6. CASE sealed[e] + 1 = SEQ_MOD
  <2>1. used[e] = 1 .. SEQ_MOD - 1 /\ next_seq[e] = 0
    BY <1>4, <1>6 DEF Counted
  <2>2. used'[e] = 0 .. SEQ_MOD - 1
    BY <1>4, <2>1
  <2> QED
    BY <1>3, <1>4, <1>6, <2>2 DEF Counted
<1>7. CASE sealed[e] + 1 > SEQ_MOD
  BY <1>3, <1>4, <1>7 DEF Counted
<1> QED
  BY <1>4, <1>5, <1>6, <1>7

(* A step uses a new number at one end, or none. *)
LEMMA SealsOrNot ==
  ASSUME [Next]_vars
  PROVE  UNCHANGED sendVars \/ \E e \in End : AllocSeq(e)
<1>1. Silently \/ UNCHANGED vars => UNCHANGED sendVars
  BY DEF Silently, vars
<1>2. \A e \in End : SealsOnly(e) \/ Sends(e) => AllocSeq(e)
  BY DEF SealsOnly, Sends, SendPacket
<1>3. \A e \in End : \A p \in net : \A cut : Receive(e, p, cut) => UNCHANGED sendVars \/ AllocSeq(e)
  BY DEF Receive, SendPacket
<1>4. \A e \in End : \A reason : CloseAndExit(e, reason) => AllocSeq(e)
  BY DEF CloseAndExit
<1>5. \A e \in End : \A reason : SourceGone(e, reason) => UNCHANGED sendVars
  BY DEF SourceGone
<1> QED
  BY <1>1, <1>2, <1>3, <1>4, <1>5, StepShapes

LEMMA CountedInvariant == Spec => []Counted
<1>1. Init => Counted
  BY SessionAssumption DEF Init, Counted
<1>2. LInv /\ Counted /\ [Next]_vars => Counted'
  <2> SUFFICES ASSUME LInv, Counted, [Next]_vars PROVE Counted'
    OBVIOUS
  <2>1. CASE UNCHANGED sendVars
    BY <2>1 DEF sendVars, Counted
  <2>2. CASE \E e \in End : AllocSeq(e)
    BY <2>2, CountedKept
  <2> QED
    BY <2>1, <2>2, SealsOrNot
<1> QED
  BY <1>1, <1>2, LinkInvariant, PTL DEF Spec

(* Each (key, nonce) pair is used once for as long as the sequence numbers *)
(* have not come round, whatever fails to be sent (alloc_seq, make_nonce). *)
THEOREM NoncesUnique == Spec => []NonceOnceBeforeWrap
<1>1. Counted => NonceOnceBeforeWrap
  <2> SUFFICES ASSUME Counted, NEW e \in End, sealed[e] <= SEQ_MOD
               PROVE  Cardinality(used[e]) = sealed[e]
    BY DEF NonceOnceBeforeWrap
  <2>1. sealed[e] \in Nat
    BY DEF Counted
  <2>2. CASE sealed[e] < SEQ_MOD
    <3>1. used[e] = 1 .. sealed[e]
      BY <2>2 DEF Counted
    <3>2. Cardinality(1 .. sealed[e]) = sealed[e]
      BY <2>1, FS_Interval
    <3> QED
      BY <3>1, <3>2
  <2>3. CASE sealed[e] = SEQ_MOD
    <3>1. used[e] = 0 .. SEQ_MOD - 1
      BY <2>3 DEF Counted
    <3>2. Cardinality(0 .. SEQ_MOD - 1) = SEQ_MOD
      BY SessionAssumption, FS_Interval
    <3> QED
      BY <2>3, <3>1, <3>2
  <2> QED
    BY <2>1, <2>2, <2>3, SessionAssumption
<1> QED
  BY <1>1, CountedInvariant, PTL

-----------------------------------------------------------------------------
(* Finite sets, from the smallest up *)

LEMMA LeastNat ==
  ASSUME NEW T, T \subseteq Nat, T # {}
  PROVE  \E x \in T : \A y \in T : x <= y
<1> DEFINE Less == {ss \in Nat \X Nat : ss[1] < ss[2]}
<1>1. IsWellFoundedOn(Less, Nat)
  BY NatLessThanWellFounded DEF OpToRel
<1>2. PICK x \in T : \A y \in T : ~(<<y, x>> \in Less)
  <2> HIDE DEF Less
  <2> QED
    BY <1>1, WFMin
<1>3. ASSUME NEW y \in T PROVE x <= y
  <2>1. <<y, x>> \in Nat \X Nat
    OBVIOUS
  <2>2. ~(<<y, x>>[1] < <<y, x>>[2])
    BY <1>2, <2>1
  <2> QED
    BY <2>2
<1> QED
  BY <1>3

(* Of some subsets of a finite set, one that becomes another set when any  *)
(* element leaves it. *)
LEMMA Smallest ==
  ASSUME NEW S, IsFiniteSet(S), NEW B, B \subseteq SUBSET S, B # {}
  PROVE  \E s \in B : IsFiniteSet(s) /\ \A x \in s : s \ {x} \notin B
<1> DEFINE T == {Cardinality(s) : s \in B}
<1>1. \A s \in B : IsFiniteSet(s) /\ Cardinality(s) \in Nat
  <2> SUFFICES ASSUME NEW s \in B PROVE IsFiniteSet(s) /\ Cardinality(s) \in Nat
    OBVIOUS
  <2>1. IsFiniteSet(s)
    BY FS_Subset
  <2> QED
    BY <2>1, FS_CardinalityType
<1>2. T \subseteq Nat /\ T # {}
  BY <1>1
<1>3. PICK n \in T : \A m \in T : n <= m
  <2> HIDE DEF T
  <2> QED
    BY <1>2, LeastNat
<1>4. PICK s \in B : Cardinality(s) = n
  BY <1>3
<1>5. ASSUME NEW x \in s, s \ {x} \in B PROVE FALSE
  <2>1. Cardinality(s \ {x}) = Cardinality(s) - 1
    BY <1>1, FS_RemoveElement
  <2>2. Cardinality(s \ {x}) \in T
    BY <1>5
  <2>3. Cardinality(s) <= Cardinality(s \ {x})
    BY <1>3, <1>4, <2>2
  <2> HIDE DEF T
  <2> QED
    BY <1>1, <2>1, <2>3
<1> QED
  BY <1>1, <1>5

(* A fold over the subsets of S: ch picks the element that leaves, h adds  *)
(* it to the value of the rest. *)
FoldOf(S, base, ch, h, f) ==
  \A s \in SUBSET S : f[s] = IF s = {} THEN base ELSE h[<<ch[s], f[s \ {ch[s]}]>>]

Foldable(S, W, ch, h) ==
  /\ IsFiniteSet(S)
  /\ \A s \in SUBSET S : s # {} => ch[s] \in s
  /\ \A x \in S : \A w \in W : h[<<x, w>>] \in W

LEMMA FoldExists ==
  ASSUME NEW S, NEW W, NEW base \in W, NEW ch, NEW h, Foldable(S, W, ch, h)
  PROVE  \E f \in [SUBSET S -> W] : FoldOf(S, base, ch, h, f)
<1> USE DEF FoldOf, Foldable
<1> DEFINE Sub(n) == {t \in SUBSET S : Cardinality(t) <= n}
           Folds(n, f) == \A s \in Sub(n) :
             f[s] = IF s = {} THEN base ELSE h[<<ch[s], f[s \ {ch[s]}]>>]
           T == {n \in Nat : ~\E f \in [Sub(n) -> W] : Folds(n, f)}
<1>1. \A s \in SUBSET S : IsFiniteSet(s) /\ Cardinality(s) \in Nat
                          /\ Cardinality(s) <= Cardinality(S)
  BY FS_Subset, FS_CardinalityType
<1>2. \A s \in SUBSET S : s # {} => /\ ch[s] \in s /\ s \ {ch[s]} \in SUBSET S
                                    /\ Cardinality(s \ {ch[s]}) = Cardinality(s) - 1
  <2> SUFFICES ASSUME NEW s \in SUBSET S, s # {}
               PROVE  /\ ch[s] \in s /\ s \ {ch[s]} \in SUBSET S
                      /\ Cardinality(s \ {ch[s]}) = Cardinality(s) - 1
    OBVIOUS
  <2>1. ch[s] \in s
    OBVIOUS
  <2> QED
    BY <1>1, <2>1, FS_RemoveElement
<1>3. ASSUME T # {} PROVE FALSE
  <2>1. PICK n \in T : \A m \in T : n <= m
    <3>1. T \subseteq Nat
      OBVIOUS
    <3> HIDE DEF T
    <3> QED
      BY <1>3, <3>1, LeastNat
  <2>2. n \in Nat
    OBVIOUS
  <2>3. CASE n = 0
    <3> DEFINE f == [s \in Sub(0) |-> base]
    <3>1. \A s \in Sub(0) : s = {}
      <4> SUFFICES ASSUME NEW s \in Sub(0) PROVE s = {}
        OBVIOUS
      <4>1. IsFiniteSet(s) /\ Cardinality(s) = 0
        BY <1>1
      <4> QED
        BY <4>1, FS_EmptySet
    <3>2. f \in [Sub(0) -> W] /\ Folds(0, f)
      BY <3>1
    <3> HIDE DEF f, Folds, Sub
    <3>3. \E g \in [Sub(0) -> W] : Folds(0, g)
      BY <3>2
    <3> QED
      BY <2>1, <2>3, <3>3
  <2>4. CASE n # 0
    <3> DEFINE m == n - 1
    <3>0. m \in Nat /\ m + 1 = n /\ ~(n <= m)
      BY <2>2, <2>4
    <3> HIDE DEF m
    <3>1. m \in Nat /\ m \notin T /\ m + 1 = n
      <4> HIDE DEF T
      <4> QED
        BY <2>1, <3>0
    <3>2. PICK f \in [Sub(m) -> W] : Folds(m, f)
      BY <3>1
    <3> DEFINE r(s) == s \ {ch[s]}
               g == [s \in Sub(n) |-> IF s \in Sub(m) THEN f[s] ELSE h[<<ch[s], f[r(s)]>>]]
    <3>3. ASSUME NEW s \in Sub(n), s # {} PROVE r(s) \in Sub(m) /\ r(s) \in Sub(n) /\ ch[s] \in S
      <4>1. /\ s \in SUBSET S /\ Cardinality(s) <= n /\ Cardinality(s) \in Nat /\ ch[s] \in s
            /\ r(s) \in SUBSET S /\ Cardinality(r(s)) = Cardinality(s) - 1
        BY <1>1, <1>2, <3>3
      <4> HIDE DEF r
      <4> QED
        BY <2>2, <3>1, <4>1
    <3>4. {} \in Sub(m)
      <4>1. Cardinality({}) <= m
        BY <3>1, FS_EmptySet
      <4> QED
        BY <4>1
    <3>5. ASSUME NEW s \in Sub(n)
          PROVE  g[s] \in W /\ g[s] = IF s = {} THEN base ELSE h[<<ch[s], g[r(s)]>>]
      <4> HIDE DEF Sub, r
      <4>1. CASE s \in Sub(m)
        <5>1. g[s] = f[s] /\ f[s] \in W
          BY <3>2, <4>1
        <5>2. f[s] = IF s = {} THEN base ELSE h[<<ch[s], f[r(s)]>>]
          BY <3>2, <4>1 DEF r
        <5>3. s # {} => g[r(s)] = f[r(s)]
          BY <3>3
        <5> HIDE DEF g
        <5> QED
          BY <5>1, <5>2, <5>3
      <4>2. CASE s \notin Sub(m)
        <5>1. s # {}
          BY <3>4, <4>2
        <5>2. g[s] = h[<<ch[s], f[r(s)]>>]
          BY <4>2
        <5>3. r(s) \in Sub(m) /\ r(s) \in Sub(n) /\ ch[s] \in S
          BY <3>3, <5>1
        <5>4. g[r(s)] = f[r(s)] /\ f[r(s)] \in W
          BY <3>2, <5>3
        <5> HIDE DEF g
        <5> QED
          BY <5>1, <5>2, <5>3, <5>4
      <4> QED
        BY <4>1, <4>2
    <3>6. g \in [Sub(n) -> W]
      <4> DEFINE e(s) == IF s \in Sub(m) THEN f[s] ELSE h[<<ch[s], f[r(s)]>>]
      <4>1. \A s \in Sub(n) : e(s) \in W
        <5> HIDE DEF Sub, r
        <5> QED
          BY <3>5
      <4> HIDE DEF e, Sub, r
      <4>2. [s \in Sub(n) |-> e(s)] \in [Sub(n) -> W]
        BY <4>1
      <4> QED
        BY <4>2 DEF e
    <3>7. Folds(n, g)
      <4> HIDE DEF g, Sub
      <4> QED
        BY <3>5
    <3> HIDE DEF g, Folds, Sub
    <3>8. \E k \in [Sub(n) -> W] : Folds(n, k)
      BY <3>6, <3>7
    <3> QED
      BY <2>1, <3>8
  <2> QED
    BY <2>3, <2>4
<1>4. Cardinality(S) \in Nat
  BY FS_CardinalityType
<1>5. PICK f \in [Sub(Cardinality(S)) -> W] : Folds(Cardinality(S), f)
  BY <1>3, <1>4
<1>6. Sub(Cardinality(S)) = SUBSET S
  BY <1>1
<1> HIDE DEF Sub
<1> QED
  BY <1>5, <1>6

-----------------------------------------------------------------------------
(* The bytes of a ledger *)

(* The fold that Bytes is taken from. *)
Sums(S, f) ==
  f = [s \in SUBSET S |-> IF s = {} THEN 0
                          ELSE (CHOOSE x \in s : TRUE).bytes + f[s \ {CHOOSE x \in s : TRUE}]]

(* Records that can be summed. *)
Ledger(S) == IsFiniteSet(S) /\ \A r \in S : r.bytes \in Nat \ {0}

LEMMA BytesFold ==
  ASSUME NEW S
  PROVE  Bytes(S) = (CHOOSE f : Sums(S, f))[S]
BY DEF Bytes, MapThenSumSet, MapThenFoldSet, Sums

LEMMA SubLedger ==
  ASSUME NEW S, Ledger(S), NEW T, T \subseteq S
  PROVE  Ledger(T)
BY FS_Subset DEF Ledger

(* Each subset is the sum of the element picked and the rest. *)
LEMMA SumsStep ==
  ASSUME NEW S, NEW f, Sums(S, f), NEW s, s \subseteq S
  PROVE  /\ s = {} => f[s] = 0
         /\ s # {} => \E c \in s : /\ c = (CHOOSE x \in s : TRUE)
                                   /\ f[s] = c.bytes + f[s \ {c}]
<1>1. f[s] = IF s = {} THEN 0
             ELSE (CHOOSE x \in s : TRUE).bytes + f[s \ {CHOOSE x \in s : TRUE}]
  BY DEF Sums
<1>2. s # {} => (CHOOSE x \in s : TRUE) \in s
  OBVIOUS
<1> QED
  BY <1>1, <1>2

LEMMA SumsExist ==
  ASSUME NEW S, Ledger(S)
  PROVE  \E f : Sums(S, f)
<1> DEFINE ch == [s \in SUBSET S |-> CHOOSE x \in s : TRUE]
           h == [p \in S \X Nat |-> p[1].bytes + p[2]]
<1>1. \A s \in SUBSET S : s # {} => ch[s] \in s
  OBVIOUS
<1>2. \A x \in S : \A w \in Nat : h[<<x, w>>] = x.bytes + w
  OBVIOUS
<1>3. \A x \in S : \A w \in Nat : h[<<x, w>>] \in Nat
  <2> SUFFICES ASSUME NEW x \in S, NEW w \in Nat PROVE x.bytes + w \in Nat
    BY <1>2
  <2> QED
    BY DEF Ledger
<1>4. \A s \in SUBSET S : ch[s] = CHOOSE x \in s : TRUE
  OBVIOUS
<1>5. PICK f \in [SUBSET S -> Nat] : \A s \in SUBSET S :
        f[s] = IF s = {} THEN 0 ELSE h[<<ch[s], f[s \ {ch[s]}]>>]
  <2>1. Foldable(S, Nat, ch, h)
    <3> HIDE DEF ch, h
    <3> QED
      BY <1>1, <1>3 DEF Ledger, Foldable
  <2> HIDE DEF ch, h
  <2>2. \E f \in [SUBSET S -> Nat] : FoldOf(S, 0, ch, h, f)
    BY <2>1, FoldExists
  <2> QED
    BY <2>2 DEF FoldOf
<1>6. ASSUME NEW s \in SUBSET S
      PROVE  f[s] = IF s = {} THEN 0
                    ELSE (CHOOSE x \in s : TRUE).bytes + f[s \ {CHOOSE x \in s : TRUE}]
  <2> HIDE DEF ch, h
  <2>1. CASE s # {}
    <3>1. ch[s] \in S /\ f[s \ {ch[s]}] \in Nat
      BY <1>1, <1>5, <2>1
    <3>2. f[s] = ch[s].bytes + f[s \ {ch[s]}]
      BY <1>2, <1>5, <2>1, <3>1
    <3> QED
      BY <1>4, <2>1, <3>2
  <2> QED
    BY <1>5, <2>1
<1>7. Sums(S, f)
  <2> HIDE DEF ch, h
  <2> QED
    BY <1>5, <1>6 DEF Sums
<1> QED
  BY <1>7

LEMMA SumsTyped ==
  ASSUME NEW S, Ledger(S), NEW f, Sums(S, f), NEW t, t \subseteq S
  PROVE  f[t] \in Nat
<1> DEFINE B == {s \in SUBSET S : f[s] \notin Nat}
<1>1. ASSUME B # {} PROVE FALSE
  <2>1. PICK s \in B : IsFiniteSet(s) /\ \A x \in s : s \ {x} \notin B
    BY <1>1, Smallest DEF Ledger
  <2>2. s \subseteq S /\ s # {}
    BY <2>1, SumsStep
  <2>3. PICK c \in s : f[s] = c.bytes + f[s \ {c}]
    BY <2>2, SumsStep
  <2>4. c.bytes \in Nat /\ f[s \ {c}] \in Nat
    BY <2>1, <2>2 DEF Ledger
  <2>5. c.bytes + f[s \ {c}] \in Nat
    BY <2>4
  <2> QED
    BY <2>1, <2>3, <2>5
<1> QED
  BY <1>1

(* The choices made inside two sets are the same. *)
LEMMA SumsAgree ==
  ASSUME NEW S, Ledger(S), NEW f, Sums(S, f), NEW T, T \subseteq S, NEW g, Sums(T, g)
  PROVE  f[T] = g[T]
<1> DEFINE B == {s \in SUBSET T : f[s] # g[s]}
<1>1. ASSUME B # {} PROVE FALSE
  <2>1. PICK s \in B : IsFiniteSet(s) /\ \A x \in s : s \ {x} \notin B
    <3>1. IsFiniteSet(T)
      BY SubLedger DEF Ledger
    <3> QED
      BY <1>1, <3>1, Smallest
  <2>2. s \subseteq T /\ s \subseteq S
    BY <2>1
  <2>3. s # {}
    BY <2>1, <2>2, SumsStep
  <2>4. PICK c \in s : c = (CHOOSE x \in s : TRUE) /\ f[s] = c.bytes + f[s \ {c}]
    BY <2>2, <2>3, SumsStep
  <2>5. g[s] = c.bytes + g[s \ {c}]
    <3>1. PICK d \in s : d = (CHOOSE x \in s : TRUE) /\ g[s] = d.bytes + g[s \ {d}]
      BY <2>2, <2>3, SumsStep
    <3> QED
      BY <2>4, <3>1
  <2>6. f[s \ {c}] = g[s \ {c}]
    BY <2>1, <2>2
  <2> QED
    BY <2>1, <2>4, <2>5, <2>6
<1> QED
  BY <1>1

(* Any element may leave first. *)
LEMMA SumsAnyOrder ==
  ASSUME NEW S, Ledger(S), NEW f, Sums(S, f), NEW t, t \subseteq S, NEW y \in t
  PROVE  f[t] = y.bytes + f[t \ {y}]
<1> DEFINE B == {s \in SUBSET S : \E x \in s : f[s] # x.bytes + f[s \ {x}]}
<1>1. ASSUME B # {} PROVE FALSE
  <2>1. PICK s \in B : IsFiniteSet(s) /\ \A x \in s : s \ {x} \notin B
    BY <1>1, Smallest DEF Ledger
  <2>2. PICK x \in s : f[s] # x.bytes + f[s \ {x}]
    BY <2>1
  <2>3. s \subseteq S
    BY <2>1
  <2>4. PICK c \in s : f[s] = c.bytes + f[s \ {c}]
    BY <2>2, <2>3, SumsStep
  <2>5. c # x
    BY <2>2, <2>4
  <2>6. f[s \ {c}] = x.bytes + f[(s \ {c}) \ {x}]
    <3>1. s \ {c} \notin B /\ s \ {c} \in SUBSET S /\ x \in s \ {c}
      BY <2>1, <2>3, <2>5
    <3> QED
      BY <3>1
  <2>7. f[s \ {x}] = c.bytes + f[(s \ {x}) \ {c}]
    <3>1. s \ {x} \notin B /\ s \ {x} \in SUBSET S /\ c \in s \ {x}
      BY <2>1, <2>3, <2>5
    <3> QED
      BY <3>1
  <2>8. (s \ {x}) \ {c} = (s \ {c}) \ {x}
    OBVIOUS
  <2>9. x.bytes \in Nat /\ c.bytes \in Nat
    BY <2>3 DEF Ledger
  <2>10. f[(s \ {c}) \ {x}] \in Nat
    <3>1. (s \ {c}) \ {x} \subseteq S
      BY <2>3
    <3> QED
      BY <3>1, SumsTyped
  <2>11. f[s] = c.bytes + (x.bytes + f[(s \ {c}) \ {x}])
    BY <2>4, <2>6
  <2>12. f[s \ {x}] = c.bytes + f[(s \ {c}) \ {x}]
    BY <2>7, <2>8
  <2> HIDE DEF B
  <2> QED
    BY <2>2, <2>9, <2>10, <2>11, <2>12
<1> QED
  BY <1>1

(* What Bytes is: nothing for no record, and a record more is its bytes    *)
(* more. *)
LEMMA BytesLaw ==
  ASSUME NEW S, Ledger(S)
  PROVE  /\ Bytes(S) \in Nat
         /\ S = {} => Bytes(S) = 0
         /\ \A x \in S : Bytes(S) = x.bytes + Bytes(S \ {x})
<1> DEFINE f == CHOOSE f : Sums(S, f)
<1>1. Sums(S, f)
  BY SumsExist
<1>2. Bytes(S) = f[S]
  BY BytesFold
<1> HIDE DEF f
<1>3. Bytes(S) \in Nat
  BY <1>1, <1>2, SumsTyped
<1>4. S = {} => Bytes(S) = 0
  BY <1>1, <1>2, SumsStep
<1>5. ASSUME NEW x \in S PROVE Bytes(S) = x.bytes + Bytes(S \ {x})
  <2> DEFINE T == S \ {x}
             g == CHOOSE g : Sums(T, g)
  <2>1. Ledger(T)
    BY SubLedger
  <2>2. Sums(T, g)
    <3> HIDE DEF T
    <3> QED
      BY <2>1, SumsExist
  <2>3. Bytes(T) = g[T]
    <3> HIDE DEF T
    <3> QED
      BY BytesFold
  <2>4. T \subseteq S
    OBVIOUS
  <2>5. f[S] = x.bytes + f[T]
    BY <1>1, SumsAnyOrder
  <2> HIDE DEF T, g
  <2>6. f[T] = g[T]
    BY <1>1, <2>2, <2>4, SumsAgree
  <2>7. Bytes(S) = x.bytes + Bytes(T)
    BY <1>2, <2>3, <2>5, <2>6
  <2> QED
    BY <2>7 DEF T
<1> QED
  BY <1>3, <1>4, <1>5

LEMMA BytesAdd ==
  ASSUME NEW S, Ledger(S), NEW x, x \notin S, x.bytes \in Nat \ {0}
  PROVE  Ledger(S \cup {x}) /\ Bytes(S \cup {x}) = Bytes(S) + x.bytes
<1> DEFINE T == S \cup {x}
<1>1. Ledger(T)
  <2>1. IsFiniteSet(T)
    BY FS_AddElement DEF Ledger
  <2> QED
    BY <2>1 DEF Ledger
<1>2. x \in T /\ T \ {x} = S
  OBVIOUS
<1> HIDE DEF T
<1>3. Bytes(T) = x.bytes + Bytes(T \ {x})
  BY <1>1, <1>2, BytesLaw
<1>4. Bytes(S) \in Nat
  BY BytesLaw
<1>5. Bytes(T) = Bytes(S) + x.bytes
  BY <1>2, <1>3, <1>4
<1> QED
  BY <1>1, <1>5 DEF T

LEMMA BytesDiff ==
  ASSUME NEW S, Ledger(S), NEW T, T \subseteq S
  PROVE  Bytes(S) = Bytes(S \ T) + Bytes(T)
<1> DEFINE B == {t \in SUBSET S : Bytes(S) # Bytes(S \ t) + Bytes(t)}
<1>1. ASSUME B # {} PROVE FALSE
  <2>1. PICK s \in B : IsFiniteSet(s) /\ \A x \in s : s \ {x} \notin B
    BY <1>1, Smallest DEF Ledger
  <2>2. s \subseteq S /\ Bytes(S) # Bytes(S \ s) + Bytes(s)
    BY <2>1
  <2>3. s # {}
    <3> SUFFICES ASSUME s = {} PROVE Bytes(S) = Bytes(S \ s) + Bytes(s)
      BY <2>2
    <3>1. S \ s = S
      OBVIOUS
    <3>2. Bytes(s) = 0
      BY <2>2, SubLedger, BytesLaw
    <3>3. Bytes(S) \in Nat
      BY BytesLaw
    <3> QED
      BY <3>1, <3>2, <3>3
  <2>4. PICK x \in s : TRUE
    BY <2>3
  <2> DEFINE u == s \ {x}
             v == S \ u
  <2>5. Bytes(S) = Bytes(v) + Bytes(u)
    <3>1. u \in SUBSET S /\ u \notin B
      BY <2>1, <2>2, <2>4
    <3> HIDE DEF u
    <3> QED
      BY <3>1
  <2>6. Ledger(u) /\ Ledger(v) /\ Ledger(s) /\ Ledger(S \ s)
    BY <2>2, SubLedger
  <2>7. x \in v /\ v \ {x} = S \ s
    BY <2>2, <2>4
  <2>8. x.bytes \in Nat
    BY <2>2, <2>4 DEF Ledger
  <2>9. Bytes(s) = x.bytes + Bytes(u)
    BY <2>4, <2>6, BytesLaw
  <2> HIDE DEF u, v
  <2>10. Bytes(v) = x.bytes + Bytes(S \ s)
    BY <2>6, <2>7, BytesLaw
  <2>11. Bytes(u) \in Nat /\ Bytes(S \ s) \in Nat
    BY <2>6, BytesLaw
  <2> HIDE DEF B
  <2> QED
    BY <2>2, <2>5, <2>8, <2>9, <2>10, <2>11
<1> QED
  BY <1>1

LEMMA BytesPositive ==
  ASSUME NEW S, Ledger(S), S # {}
  PROVE  Bytes(S) >= 1
<1>1. PICK x \in S : TRUE
  OBVIOUS
<1>2. Bytes(S) = x.bytes + Bytes(S \ {x}) /\ Ledger(S \ {x})
  BY BytesLaw, SubLedger
<1>3. Bytes(S \ {x}) \in Nat /\ x.bytes \in Nat \ {0}
  BY <1>2, BytesLaw DEF Ledger
<1> QED
  BY <1>2, <1>3

-----------------------------------------------------------------------------
(* The loss window *)

(* A finite set of numbers has a largest one. *)
LEMMA MaxIn ==
  ASSUME NEW S, IsFiniteSet(S), S \subseteq Nat, NEW t, t \subseteq S, t # {}
  PROVE  Max(t) \in t
<1> DEFINE B == {s \in SUBSET S : s # {} /\ ~\E x \in s : \A y \in s : x >= y}
<1>1. ASSUME B # {} PROVE FALSE
  <2>1. PICK s \in B : IsFiniteSet(s) /\ \A x \in s : s \ {x} \notin B
    BY <1>1, Smallest
  <2>2. s \subseteq S /\ s # {} /\ ~\E x \in s : \A y \in s : x >= y
    BY <2>1
  <2>3. PICK x \in s : TRUE
    BY <2>2
  <2>4. x \in Nat /\ x >= x
    BY <2>2, <2>3
  <2>5. s \ {x} # {}
    BY <2>2, <2>3, <2>4
  <2>6. PICK m \in s \ {x} : \A y \in s \ {x} : m >= y
    BY <2>1, <2>2, <2>3, <2>5
  <2>7. m \in Nat
    BY <2>2
  <2>8. CASE m >= x
    BY <2>2, <2>6, <2>8
  <2>9. CASE x >= m
    <3>1. \A y \in s : y \in Nat
      BY <2>2
    <3>2. \A y \in s : x >= y
      BY <2>4, <2>6, <2>7, <2>9, <3>1
    <3> QED
      BY <2>2, <3>2
  <2> QED
    BY <2>4, <2>7, <2>8, <2>9
<1>2. \E x \in t : \A y \in t : x >= y
  BY <1>1
<1> QED
  BY <1>2 DEF Max

(* The states the count of the outcomes goes through: the controller keeps *)
(* its bytes in flight. *)
Tallies(n) ==
  {o \in [c : Controllers, total : 0 .. LOSS_SAMPLE - 1, lost : 0 .. LOSS_SAMPLE - 1] :
     o.lost <= o.total /\ o.c.in_flight = n}

LEMMA Quotient ==
  ASSUME NEW a \in Nat, NEW b \in Nat, NEW d \in Nat \ {0}
  PROVE  a * b \in Nat /\ (a * b) \div d \in Nat
<1>1. a * b \in Nat
  OBVIOUS
<1> DEFINE p == a * b
<1> HIDE DEF p
<1>2. p \in Nat
  BY <1>1 DEF p
<1>3. p \div d \in Nat
  BY <1>2
<1> QED
  BY <1>1, <1>3 DEF p

LEMMA LossKeeps ==
  ASSUME NEW c \in Controllers, NEW lost \in Nat, NEW total \in Nat, lost <= total
  PROVE  OnLoss(c, lost, total) \in Controllers /\ OnLoss(c, lost, total).in_flight = c.in_flight
<1> DEFINE reduced == IF 4 * lost < total
                        THEN (c.cwnd * 7) \div 8
                        ELSE (c.cwnd * (2 * total - lost)) \div (2 * total)
           cut == AtLeast(reduced, MIN_CWND)
<1>1. /\ c.cwnd \in Nat /\ c.ssthresh \in Nat /\ c.in_flight \in Nat
      /\ c = [cwnd |-> c.cwnd, ssthresh |-> c.ssthresh, in_flight |-> c.in_flight]
  BY DEF Controllers
<1>2. CASE total = 0 \/ lost = 0
  BY <1>2 DEF OnLoss
<1>3. CASE total # 0 /\ lost # 0
  <2>1. 2 * total - lost \in Nat /\ 2 * total \in Nat \ {0}
    BY <1>3
  <2>2. (c.cwnd * 7) \div 8 \in Nat
    BY <1>1, Quotient
  <2>3. (c.cwnd * (2 * total - lost)) \div (2 * total) \in Nat
    <3> DEFINE b == 2 * total - lost
               d == 2 * total
    <3> HIDE DEF b, d
    <3>1. b \in Nat /\ d \in Nat \ {0}
      BY <2>1 DEF b, d
    <3>2. (c.cwnd * b) \div d \in Nat
      BY <1>1, <3>1, Quotient
    <3> QED
      BY <3>2 DEF b, d
  <2>4. reduced \in Nat
    BY <2>2, <2>3
  <2>5. cut \in Nat
    <3> HIDE DEF reduced
    <3> QED
      BY <2>4, CongestionAssumption DEF AtLeast
  <2>6. OnLoss(c, lost, total) = [c EXCEPT !.ssthresh = cut, !.cwnd = cut]
    BY <1>3 DEF OnLoss
  <2> HIDE DEF cut
  <2> QED
    BY <1>1, <2>5, <2>6 DEF Controllers
<1> QED
  BY <1>2, <1>3

LEMMA TallyStep ==
  ASSUME NEW n, NEW o \in Tallies(n), NEW lost \in BOOLEAN
  PROVE  RecordOutcome(o, lost) \in Tallies(n)
<1> DEFINE total == o.total + 1
           losses == o.lost + (IF lost THEN 1 ELSE 0)
<1>1. /\ o.c \in Controllers /\ o.total \in 0 .. LOSS_SAMPLE - 1
      /\ o.lost \in 0 .. LOSS_SAMPLE - 1 /\ o.lost <= o.total /\ o.c.in_flight = n
  BY DEF Tallies
<1>2. LOSS_SAMPLE \in Nat \ {0}
  BY TunnelLinkAssumption
<1>3. total \in Nat /\ losses \in Nat /\ losses <= total
  BY <1>1, <1>2
<1>4. RecordOutcome(o, lost) =
        IF total >= LOSS_SAMPLE
          THEN [c |-> OnLoss(o.c, losses, total), total |-> 0, lost |-> 0]
          ELSE [c |-> o.c, total |-> total, lost |-> losses]
  BY DEF RecordOutcome
<1> HIDE DEF total, losses
<1>5. CASE total >= LOSS_SAMPLE
  <2>1. OnLoss(o.c, losses, total) \in Controllers /\ OnLoss(o.c, losses, total).in_flight = n
    BY <1>1, <1>3, LossKeeps
  <2>2. 0 \in 0 .. LOSS_SAMPLE - 1
    BY <1>2
  <2> QED
    BY <1>4, <1>5, <2>1, <2>2 DEF Tallies
<1>6. CASE ~(total >= LOSS_SAMPLE)
  <2>1. total \in 0 .. LOSS_SAMPLE - 1 /\ losses \in 0 .. LOSS_SAMPLE - 1
    BY <1>2, <1>3, <1>6
  <2> QED
    BY <1>1, <1>3, <1>4, <1>6, <2>1 DEF Tallies
<1> QED
  BY <1>5, <1>6

(* The fold that Outcomes is taken from. *)
Counts(lost, st, S, f) ==
  f = [s \in SUBSET S |-> IF s = {} THEN st
                          ELSE RecordOutcome(f[s \ {Max(s)}], Max(s) \in lost)]

LEMMA CountsFold ==
  ASSUME NEW st, NEW a, NEW b
  PROVE  Outcomes(st, a, b) = (CHOOSE f : Counts(b, st, a \cup b, f))[a \cup b]
BY DEF Outcomes, MapThenFoldSet, Counts

LEMMA CountsExist ==
  ASSUME NEW n, NEW st \in Tallies(n), NEW lost, NEW S, IsFiniteSet(S), S \subseteq Nat
  PROVE  \E f : Counts(lost, st, S, f)
<1> DEFINE W == Tallies(n)
           ch == [s \in SUBSET S |-> Max(s)]
           h == [p \in S \X W |-> RecordOutcome(p[2], p[1] \in lost)]
<1>1. \A s \in SUBSET S : ch[s] = Max(s)
  OBVIOUS
<1>2. \A x \in S : \A w \in W : h[<<x, w>>] = RecordOutcome(w, x \in lost)
  <2> HIDE DEF W
  <2> QED
    OBVIOUS
<1>3. \A x \in S : \A w \in W : RecordOutcome(w, x \in lost) \in W
  <2> SUFFICES ASSUME NEW x \in S, NEW w \in W PROVE RecordOutcome(w, x \in lost) \in W
    OBVIOUS
  <2> DEFINE l == x \in lost
  <2>1. l \in BOOLEAN
    OBVIOUS
  <2> HIDE DEF l
  <2>2. RecordOutcome(w, l) \in W
    BY <2>1, TallyStep
  <2> QED
    BY <2>2 DEF l
<1> HIDE DEF ch, h, W
<1>4. \A s \in SUBSET S : s # {} => ch[s] \in s
  BY <1>1, MaxIn
<1>5. Foldable(S, W, ch, h)
  BY <1>2, <1>3, <1>4 DEF Foldable
<1>6. PICK f \in [SUBSET S -> W] : FoldOf(S, st, ch, h, f)
  <2>1. st \in W
    BY DEF W
  <2> QED
    BY <1>5, <2>1, FoldExists
<1>7. ASSUME NEW s \in SUBSET S
      PROVE  f[s] = IF s = {} THEN st ELSE RecordOutcome(f[s \ {Max(s)}], Max(s) \in lost)
  <2>1. f[s] = IF s = {} THEN st ELSE h[<<ch[s], f[s \ {ch[s]}]>>]
    BY <1>6 DEF FoldOf
  <2>2. CASE s # {}
    <3>1. ch[s] \in S /\ f[s \ {ch[s]}] \in W
      BY <1>4, <1>6, <2>2
    <3>2. h[<<ch[s], f[s \ {ch[s]}]>>] = RecordOutcome(f[s \ {ch[s]}], ch[s] \in lost)
      BY <1>2, <3>1
    <3> QED
      BY <1>1, <2>1, <2>2, <3>2
  <2> QED
    BY <2>1, <2>2
<1>8. Counts(lost, st, S, f)
  BY <1>6, <1>7 DEF Counts
<1> QED
  BY <1>8

(* Counting outcomes moves the window, never the bytes in flight. *)
LEMMA OutcomesKeep ==
  ASSUME NEW n, NEW st \in Tallies(n), NEW a, NEW b, IsFiniteSet(a), IsFiniteSet(b),
         a \subseteq Nat, b \subseteq Nat
  PROVE  Outcomes(st, a, b) \in Tallies(n)
<1> DEFINE S == a \cup b
           f == CHOOSE f : Counts(b, st, S, f)
           B == {s \in SUBSET S : f[s] \notin Tallies(n)}
<1>1. IsFiniteSet(S) /\ S \subseteq Nat
  BY FS_Union
<1>2. Outcomes(st, a, b) = f[S]
  BY CountsFold
<1>3. Counts(b, st, S, f)
  <2> HIDE DEF S
  <2> QED
    BY <1>1, CountsExist
<1> HIDE DEF S, f
<1>4. \A s \in SUBSET S :
        f[s] = IF s = {} THEN st ELSE RecordOutcome(f[s \ {Max(s)}], Max(s) \in b)
  BY <1>3 DEF Counts
<1>5. ASSUME B # {} PROVE FALSE
  <2>1. PICK s \in B : IsFiniteSet(s) /\ \A x \in s : s \ {x} \notin B
    BY <1>1, <1>5, Smallest
  <2>2. s \subseteq S /\ f[s] \notin Tallies(n)
    BY <2>1
  <2>3. s # {}
    BY <1>4, <2>2
  <2>4. Max(s) \in s
    BY <1>1, <2>2, <2>3, MaxIn
  <2>5. f[s \ {Max(s)}] \in Tallies(n)
    BY <2>1, <2>2, <2>4
  <2>6. f[s] = RecordOutcome(f[s \ {Max(s)}], Max(s) \in b)
    BY <1>4, <2>2, <2>3
  <2> DEFINE l == Max(s) \in b
  <2>7. l \in BOOLEAN
    OBVIOUS
  <2> HIDE DEF l
  <2>8. RecordOutcome(f[s \ {Max(s)}], l) \in Tallies(n)
    BY <2>5, <2>7, TallyStep
  <2> QED
    BY <2>2, <2>6, <2>8 DEF l
<1>6. S \in SUBSET S
  OBVIOUS
<1> QED
  BY <1>2, <1>5, <1>6

-----------------------------------------------------------------------------
(* Bytes in flight *)

(* The branches' own state. *)
SideTyped ==
  /\ replay \in [End -> ReplayWindows]
  /\ held \in [End -> BOOLEAN]
  /\ pending \in [End -> {NoPacket} \cup Sizes]
  /\ group \in [End -> [size : 0 .. K - 1, len : Nat]]
  /\ parity \in [End -> [left : 0 .. MaxM, len : Nat]]
  /\ outstanding \in [End -> SUBSET SeqNum]
  /\ rx_since_ack \in [End -> 0 .. ACK_EVERY - 1]

(* A parity that waits has bytes. *)
ParityFull == \A e \in End : parity[e].left > 0 => parity[e].len >= 1

LedgerTyped ==
  /\ cc \in [End -> Controllers]
  /\ sent \in [End -> SUBSET SentPacket]
  /\ wire_loss \in [End -> [total : 0 .. LOSS_SAMPLE - 1, lost : 0 .. LOSS_SAMPLE - 1]]

(* The records are finitely many, of numbers that were used, and the       *)
(* controller counts their bytes. *)
LedgerExact ==
  \A e \in End : /\ IsFiniteSet(sent[e])
                 /\ \A r \in sent[e] : r.seq \in used[e]
                 /\ wire_loss[e].lost <= wire_loss[e].total
                 /\ cc[e].in_flight = Bytes(sent[e])

FInv == SideTyped /\ ParityFull /\ LedgerTyped /\ LedgerExact

LEMMA FlightInit == Init => FInv
<1> SUFFICES ASSUME Init PROVE FInv
  OBVIOUS
<1>1. SideTyped
  <2>1. NewReplayWindow \in ReplayWindows
    BY SessionAssumption DEF NewReplayWindow, ReplayWindows, SeqNum
  <2> QED
    BY <2>1, TunnelLinkAssumption DEF Init, SideTyped
<1>2. ParityFull
  BY DEF Init, ParityFull
<1>3. LedgerTyped
  <2>1. NewController \in Controllers
    BY CongestionAssumption DEF NewController, Controllers
  <2> QED
    BY <2>1, TunnelLinkAssumption DEF Init, LedgerTyped
<1>4. LedgerExact
  <2>1. Ledger({})
    BY FS_EmptySet DEF Ledger
  <2>2. Bytes({}) = 0 /\ IsFiniteSet({})
    BY <2>1, BytesLaw DEF Ledger
  <2>3. NewController.in_flight = 0
    BY DEF NewController
  <2> QED
    BY <2>2, <2>3 DEF Init, LedgerExact
<1> QED
  BY <1>1, <1>2, <1>3, <1>4 DEF FInv

(* What a step does to the ledger of one end. *)
Reserves(e, bytes) ==
  /\ AllocSeq(e)
  /\ cc' = [cc EXCEPT ![e] = OnSendBytes(@, bytes)]
  /\ sent' = [sent EXCEPT ![e] = @ \cup {[seq |-> next_seq[e], bytes |-> bytes]}]
  /\ UNCHANGED wire_loss

Refunds(e, bytes) ==
  /\ cc' = [cc EXCEPT ![e] = Release(OnSendBytes(@, bytes), bytes)]
  /\ UNCHANGED <<sent, wire_loss>>

Admitted(e, bytes) == bytes \in Nat \ {0} /\ bytes <= SendBudget(cc[e])

LEMMA GateAdmits ==
  ASSUME LedgerTyped, NEW e \in End, NEW len \in Nat, Gate(e, len) = "admit"
  PROVE  Admitted(e, AtLeast(len, 1))
<1>1. MAX_PAYLOAD \in Nat
  BY TunnelLinkAssumption
<1>2. cc[e].cwnd \in Nat /\ cc[e].in_flight \in Nat
  BY DEF LedgerTyped, Controllers
<1>3. SendBudget(cc[e]) \in Nat
  BY <1>2 DEF SendBudget, SatSub
<1>4. AtLeast(len, 1) \in Nat \ {0}
  BY DEF AtLeast
<1>5. ~(SendBudget(cc[e]) < AtLeast(len, 1))
  BY <1>1 DEF Gate
<1> QED
  BY <1>3, <1>4, <1>5 DEF Admitted

LEMMA TunShapes ==
  ASSUME FInv, NEW e \in End, NEW len \in Sizes, HandleTunPacket(e, len)
  PROVE  \/ UNCHANGED ledgerVars
         \/ \E bytes : Admitted(e, bytes) /\ (Reserves(e, bytes) \/ Refunds(e, bytes))
<1>1. len \in Nat
  BY TunnelLinkAssumption
<1>2. CASE Refuse(e, len)
  BY <1>2 DEF Refuse, ledgerVars
<1>3. CASE Transmit(e, len)
  <2>1. Admitted(e, AtLeast(len, 1))
    BY <1>1, <1>3, GateAdmits DEF Transmit, FInv
  <2>2. Reserves(e, AtLeast(len, 1))
    BY <1>3 DEF Transmit, Reserves, SendPacket
  <2> QED
    BY <2>1, <2>2
<1>4. CASE TransmitFails(e, len)
  <2>1. Admitted(e, AtLeast(len, 1))
    BY <1>1, <1>4, GateAdmits DEF TransmitFails, FInv
  <2>2. Refunds(e, AtLeast(len, 1))
    BY <1>4 DEF TransmitFails, Refunds
  <2> QED
    BY <2>1, <2>2
<1> QED
  BY <1>2, <1>3, <1>4 DEF HandleTunPacket

LEMMA ParityShapes ==
  ASSUME FInv, NEW e \in End, SendParity(e)
  PROVE  \/ UNCHANGED ledgerVars
         \/ \E bytes : Admitted(e, bytes) /\ (Reserves(e, bytes) \/ Refunds(e, bytes))
<1> DEFINE bytes == parity[e].len
<1>1. bytes \in Nat \ {0}
  <2>1. parity[e].left > 0 /\ parity[e].len \in Nat
    BY DEF SendParity, FInv, SideTyped
  <2>2. parity[e].len >= 1
    BY <2>1 DEF FInv, ParityFull
  <2> QED
    BY <2>1, <2>2
<1>2. \/ UNCHANGED ledgerVars
      \/ bytes <= SendBudget(cc[e]) /\ (Reserves(e, bytes) \/ Refunds(e, bytes))
  BY DEF SendParity, Reserves, Refunds, SendPacket, ledgerVars
<1> QED
  BY <1>1, <1>2 DEF Admitted

LEMMA LedgerShapes ==
  ASSUME LInv, FInv, Next
  PROVE  \/ UNCHANGED ledgerVars
         \/ \E e \in End : \E bytes :
              Admitted(e, bytes) /\ (Reserves(e, bytes) \/ Refunds(e, bytes))
         \/ \E e \in End : \E adv : \E cut : Reconcile(e, adv, cut)
<1>1. \A e \in End : \A len \in Sizes : TunRecv(e, len) => HandleTunPacket(e, len)
  BY DEF TunRecv
<1>2. \A e \in End : RetryPending(e) => HandleTunPacket(e, pending[e]) /\ pending[e] \in Sizes
  BY DEF RetryPending, FInv, SideTyped
<1>3. \A e \in End : PacerCredit(e) \/ FlushStaleGroup(e) \/ FlushCoalescedAck(e)
                       => UNCHANGED ledgerVars
  BY DEF PacerCredit, FlushStaleGroup, FlushCoalescedAck
<1>4. \A e \in End : \A type : Probe(e, type) => UNCHANGED ledgerVars
  BY DEF Probe
<1>5. \A e \in End : \A cut : CheckRetransmits(e, cut) => Reconcile(e, peer_adv[e], cut)
  BY DEF CheckRetransmits
<1>6. \A e \in End : \A p \in net : \A cut :
        Receive(e, p, cut) => UNCHANGED ledgerVars \/ Reconcile(e, p.adv, cut)
  BY DEF Receive
<1>7. \A e \in End : \A reason : CloseAndExit(e, reason) \/ SourceGone(e, reason)
                                   => UNCHANGED ledgerVars
  BY DEF CloseAndExit, SourceGone
<1>8. PICK e \in End :
        \/ \E len \in Sizes : HandleTunPacket(e, len)
        \/ SendParity(e)
        \/ UNCHANGED ledgerVars
        \/ \E adv : \E cut : Reconcile(e, adv, cut)
  BY <1>1, <1>2, <1>3, <1>4, <1>5, <1>6, <1>7 DEF Next
<1>9. CASE \E len \in Sizes : HandleTunPacket(e, len)
  BY <1>9, TunShapes
<1>10. CASE SendParity(e)
  BY <1>10, ParityShapes
<1> QED
  BY <1>8, <1>9, <1>10

(* No number has been handed out twice. *)
BeforeWrap == \A e \in End : sealed[e] <= SEQ_MOD

LEMMA NumberIsNew ==
  ASSUME LInv, Counted, NEW e \in End, AllocSeq(e), BeforeWrap'
  PROVE  next_seq[e] \notin used[e] /\ next_seq[e] \in SeqNum
<1> USE SessionAssumption
<1>1. sealed[e] \in Nat /\ sealed'[e] = sealed[e] + 1
  BY DEF LInv, LinkTyped, AllocSeq
<1>2. sealed[e] < SEQ_MOD
  BY <1>1 DEF BeforeWrap
<1>3. used[e] = 1 .. sealed[e] /\ next_seq[e] = IF sealed[e] = SEQ_MOD - 1 THEN 0 ELSE sealed[e] + 1
  BY <1>2 DEF Counted
<1>4. next_seq[e] \notin used[e]
  BY <1>1, <1>3
<1>5. next_seq[e] \in SeqNum
  BY DEF LInv, LinkTyped
<1> QED
  BY <1>4, <1>5

LEMMA LedgerOf ==
  ASSUME LedgerTyped, LedgerExact, NEW e \in End
  PROVE  Ledger(sent[e])
BY DEF LedgerTyped, LedgerExact, Ledger, SentPacket

(* Reserving what the budget allows counts every byte. *)
LEMMA ReserveCounts ==
  ASSUME NEW c \in Controllers, NEW bytes \in Nat \ {0}, bytes <= SendBudget(c)
  PROVE  /\ OnSendBytes(c, bytes) \in Controllers
         /\ OnSendBytes(c, bytes).in_flight = c.in_flight + bytes
         /\ Release(OnSendBytes(c, bytes), bytes) \in Controllers
         /\ Release(OnSendBytes(c, bytes), bytes).in_flight = c.in_flight
<1> DEFINE n == c.in_flight + bytes
           d == [cwnd |-> c.cwnd, ssthresh |-> c.ssthresh, in_flight |-> n]
<1>1. /\ c.cwnd \in Nat /\ c.ssthresh \in Nat /\ c.in_flight \in Nat
      /\ c = [cwnd |-> c.cwnd, ssthresh |-> c.ssthresh, in_flight |-> c.in_flight]
  BY DEF Controllers
<1>2. AtMost(c.in_flight + AtLeast(bytes, 1), AtLeast(c.cwnd, 1)) = n
  BY <1>1 DEF SendBudget, SatSub, AtMost, AtLeast
<1>3. OnSendBytes(c, bytes) = d
  BY <1>1, <1>2 DEF OnSendBytes
<1>4. n \in Nat /\ SatSub(n, bytes) = c.in_flight
  BY <1>1 DEF SatSub
<1> HIDE DEF n
<1>5. Release(d, bytes) = [cwnd |-> c.cwnd, ssthresh |-> c.ssthresh, in_flight |-> c.in_flight]
  BY <1>4 DEF Release
<1>6. d \in Controllers /\ d.in_flight = n
  BY <1>1, <1>4 DEF Controllers
<1> QED
  BY <1>1, <1>3, <1>5, <1>6 DEF n

LEMMA RetireCounts ==
  ASSUME NEW c \in Controllers, NEW bytes \in Nat, bytes <= c.in_flight
  PROVE  /\ Release(c, bytes) \in Controllers
         /\ Release(c, bytes).in_flight = c.in_flight - bytes
         /\ bytes >= 1 => /\ OnAckBytes(c, bytes) \in Controllers
                          /\ OnAckBytes(c, bytes).in_flight = c.in_flight - bytes
<1>1. /\ c.cwnd \in Nat /\ c.ssthresh \in Nat /\ c.in_flight \in Nat
      /\ c = [cwnd |-> c.cwnd, ssthresh |-> c.ssthresh, in_flight |-> c.in_flight]
  BY DEF Controllers
<1>2. SatSub(c.in_flight, bytes) = c.in_flight - bytes /\ c.in_flight - bytes \in Nat
  BY <1>1 DEF SatSub
<1>3. /\ Release(c, bytes) \in Controllers
      /\ Release(c, bytes).in_flight = c.in_flight - bytes
  BY <1>1, <1>2 DEF Release, Controllers
<1>4. ASSUME bytes >= 1
      PROVE  /\ OnAckBytes(c, bytes) \in Controllers
             /\ OnAckBytes(c, bytes).in_flight = c.in_flight - bytes
  <2> DEFINE q == (bytes * MTU) \div AtLeast(c.cwnd, 1)
             w == IF c.cwnd < c.ssthresh THEN c.cwnd + bytes ELSE c.cwnd + q
  <2>1. AtLeast(bytes, 1) = bytes
    BY <1>4 DEF AtLeast
  <2>2. AtLeast(c.cwnd, 1) \in Nat \ {0} /\ MTU \in Nat
    BY <1>1, CongestionAssumption DEF AtLeast
  <2>3. q \in Nat
    BY <2>2, Quotient
  <2>4. OnAckBytes(c, bytes) = [c EXCEPT !.in_flight = SatSub(@, bytes), !.cwnd = w]
    BY <1>1, <2>1 DEF OnAckBytes
  <2> HIDE DEF q
  <2>5. w \in Nat
    BY <1>1, <2>3
  <2> HIDE DEF w
  <2> QED
    BY <1>1, <1>2, <2>4, <2>5 DEF Controllers
<1> QED
  BY <1>3, <1>4

LEMMA ReserveKeeps ==
  ASSUME LInv, Counted, FInv, BeforeWrap', NEW e \in End, NEW bytes,
         Admitted(e, bytes), Reserves(e, bytes)
  PROVE  LedgerTyped' /\ LedgerExact'
<1> DEFINE r == [seq |-> next_seq[e], bytes |-> bytes]
           c == OnSendBytes(cc[e], bytes)
           s == sent[e] \cup {r}
<1>1. /\ cc' = [cc EXCEPT ![e] = c] /\ sent' = [sent EXCEPT ![e] = s]
      /\ wire_loss' = wire_loss /\ AllocSeq(e)
  BY DEF Reserves
<1>2. cc[e] \in Controllers /\ bytes \in Nat \ {0} /\ bytes <= SendBudget(cc[e])
  BY DEF FInv, LedgerTyped, Admitted
<1>3. c \in Controllers /\ c.in_flight = cc[e].in_flight + bytes
  BY <1>2, ReserveCounts
<1>4. next_seq[e] \notin used[e] /\ next_seq[e] \in SeqNum
  BY <1>1, NumberIsNew
<1>5. r \in SentPacket /\ r.seq = next_seq[e] /\ r.bytes = bytes
  BY <1>2, <1>4 DEF SentPacket
<1> HIDE DEF r, c
<1>6. r \notin sent[e]
  BY <1>4, <1>5 DEF FInv, LedgerExact
<1>7. Ledger(s) /\ Bytes(s) = Bytes(sent[e]) + bytes
  <2>1. Ledger(sent[e])
    BY LedgerOf DEF FInv
  <2> QED
    BY <1>2, <1>5, <1>6, <2>1, BytesAdd
<1>8. \A d \in End : used[d] \subseteq used'[d]
  BY <1>1, SealEffect DEF LInv
<1>9. next_seq[e] \in used'[e]
  BY <1>1, SealEffect DEF LInv
<1>10. s \subseteq SentPacket /\ \A x \in s : x.seq \in used'[e]
  <2>1. sent[e] \subseteq SentPacket /\ \A x \in sent[e] : x.seq \in used[e]
    BY DEF FInv, LedgerTyped, LedgerExact
  <2> QED
    BY <1>5, <1>8, <1>9, <2>1
<1>11. LedgerTyped'
  <2> HIDE DEF s
  <2> QED
    BY <1>1, <1>3, <1>10 DEF FInv, LedgerTyped
<1>12. LedgerExact'
  <2> HIDE DEF s
  <2>1. cc'[e] = c /\ sent'[e] = s /\ \A d \in End \ {e} : cc'[d] = cc[d] /\ sent'[d] = sent[d]
    BY <1>1 DEF FInv, LedgerTyped
  <2>2. cc[e].in_flight = Bytes(sent[e])
    BY DEF FInv, LedgerExact
  <2>3. ASSUME NEW d \in End
        PROVE  /\ IsFiniteSet(sent'[d]) /\ \A x \in sent'[d] : x.seq \in used'[d]
               /\ wire_loss'[d].lost <= wire_loss'[d].total
               /\ cc'[d].in_flight = Bytes(sent'[d])
    <3>1. CASE d = e
      BY <1>1, <1>3, <1>7, <1>10, <2>1, <2>2, <3>1 DEF FInv, LedgerExact, Ledger
    <3>2. CASE d # e
      BY <1>1, <1>8, <2>1, <3>2 DEF FInv, LedgerExact
    <3> QED
      BY <3>1, <3>2
  <2> QED
    BY <2>3 DEF LedgerExact
<1> QED
  BY <1>11, <1>12

LEMMA UsedGrows ==
  ASSUME LInv, [Next]_vars
  PROVE  \A d \in End : used[d] \subseteq used'[d]
<1>1. CASE UNCHANGED sendVars
  BY <1>1 DEF sendVars
<1>2. CASE \E e \in End : AllocSeq(e)
  BY <1>2, SealEffect DEF LInv
<1> QED
  BY <1>1, <1>2, SealsOrNot

LEMMA RefundKeeps ==
  ASSUME LInv, FInv, [Next]_vars, NEW e \in End, NEW bytes,
         Admitted(e, bytes), Refunds(e, bytes)
  PROVE  LedgerTyped' /\ LedgerExact'
<1> DEFINE c == Release(OnSendBytes(cc[e], bytes), bytes)
<1>1. cc' = [cc EXCEPT ![e] = c] /\ sent' = sent /\ wire_loss' = wire_loss
  BY DEF Refunds
<1>2. cc[e] \in Controllers /\ bytes \in Nat \ {0} /\ bytes <= SendBudget(cc[e])
  BY DEF FInv, LedgerTyped, Admitted
<1>3. c \in Controllers /\ c.in_flight = cc[e].in_flight
  BY <1>2, ReserveCounts
<1> HIDE DEF c
<1>4. LedgerTyped'
  BY <1>1, <1>3 DEF FInv, LedgerTyped
<1>5. \A d \in End : cc'[d].in_flight = cc[d].in_flight
  BY <1>1, <1>3 DEF FInv, LedgerTyped
<1>6. ASSUME NEW d \in End
      PROVE  /\ IsFiniteSet(sent'[d]) /\ \A x \in sent'[d] : x.seq \in used'[d]
             /\ wire_loss'[d].lost <= wire_loss'[d].total
             /\ cc'[d].in_flight = Bytes(sent'[d])
  BY <1>1, <1>5, UsedGrows DEF FInv, LedgerExact
<1>7. LedgerExact'
  BY <1>6 DEF LedgerExact
<1> QED
  BY <1>4, <1>7

LEMMA NumbersFinite ==
  ASSUME NEW S, IsFiniteSet(S)
  PROVE  IsFiniteSet({r.seq : r \in S})
<1> DEFINE f == [r \in S |-> r.seq]
           T == {r.seq : r \in S}
<1>1. f \in Surjection(S, T)
  BY DEF Surjection
<1> HIDE DEF f, T
<1>2. IsFiniteSet(T)
  BY <1>1, FS_Surjection
<1> QED
  BY <1>2 DEF T

(* Reconciling retires exactly the records it takes out. *)
LEMMA ReconcileKeeps ==
  ASSUME LInv, FInv, [Next]_vars, NEW e \in End, NEW adv, NEW cut, Reconcile(e, adv, cut)
  PROVE  LedgerTyped' /\ LedgerExact'
<1> DEFINE acked == AckedRecs(e, adv)
           lost == LostRecs(e, adv, cut)
           rest == sent[e] \ acked
           left == sent[e] \ (acked \cup lost)
           c1 == IF acked # {} THEN OnAckBytes(cc[e], Bytes(acked)) ELSE cc[e]
           c2 == IF lost # {} THEN Release(c1, Bytes(lost)) ELSE c1
           st0 == [c |-> c2, total |-> wire_loss[e].total, lost |-> wire_loss[e].lost]
           as == {r.seq : r \in acked}
           ls == {r.seq : r \in lost}
           st == Outcomes(st0, as, ls)
<1>1. /\ sent' = [sent EXCEPT ![e] = left] /\ cc' = [cc EXCEPT ![e] = st.c]
      /\ wire_loss' = [wire_loss EXCEPT ![e] = [total |-> st.total, lost |-> st.lost]]
  BY DEF Reconcile
<1>2. acked \subseteq sent[e] /\ lost \subseteq rest /\ left = rest \ lost
      /\ left \subseteq sent[e] /\ rest \subseteq sent[e]
  BY DEF AckedRecs, LostRecs
<1>3. /\ sent[e] \subseteq SentPacket /\ cc[e] \in Controllers
      /\ cc[e].in_flight = Bytes(sent[e])
      /\ wire_loss[e].total \in 0 .. LOSS_SAMPLE - 1 /\ wire_loss[e].lost \in 0 .. LOSS_SAMPLE - 1
      /\ wire_loss[e].lost <= wire_loss[e].total
      /\ \A r \in sent[e] : r.seq \in used[e]
  BY DEF FInv, LedgerTyped, LedgerExact
<1>4. as \subseteq Nat /\ ls \subseteq Nat
  BY <1>2, <1>3 DEF SentPacket, SeqNum
<1> HIDE DEF acked, lost, rest, left
<1>5. Ledger(sent[e]) /\ Ledger(acked) /\ Ledger(rest) /\ Ledger(lost) /\ Ledger(left)
  <2>1. Ledger(sent[e])
    BY LedgerOf DEF FInv
  <2> QED
    BY <1>2, <2>1, SubLedger
<1>6. /\ Bytes(sent[e]) = Bytes(rest) + Bytes(acked)
      /\ Bytes(rest) = Bytes(left) + Bytes(lost)
  BY <1>2, <1>5, BytesDiff DEF rest
<1>7. /\ Bytes(sent[e]) \in Nat /\ Bytes(rest) \in Nat /\ Bytes(acked) \in Nat
      /\ Bytes(left) \in Nat /\ Bytes(lost) \in Nat
      /\ acked = {} => Bytes(acked) = 0
      /\ lost = {} => Bytes(lost) = 0
      /\ acked # {} => Bytes(acked) >= 1
  BY <1>5, BytesLaw, BytesPositive
<1>8. c1 \in Controllers /\ c1.in_flight = Bytes(rest)
  <2>1. CASE acked # {}
    <3>1. Bytes(acked) <= cc[e].in_flight /\ cc[e].in_flight - Bytes(acked) = Bytes(rest)
      BY <1>3, <1>6, <1>7
    <3> QED
      BY <1>3, <1>7, <2>1, <3>1, RetireCounts
  <2>2. CASE acked = {}
    BY <1>3, <1>6, <1>7, <2>2
  <2> QED
    BY <2>1, <2>2
<1> HIDE DEF c1
<1>9. c2 \in Controllers /\ c2.in_flight = Bytes(left)
  <2>1. CASE lost # {}
    <3>1. Bytes(lost) <= c1.in_flight /\ c1.in_flight - Bytes(lost) = Bytes(left)
      BY <1>6, <1>7, <1>8
    <3> QED
      BY <1>7, <1>8, <2>1, <3>1, RetireCounts
  <2>2. CASE lost = {}
    BY <1>6, <1>7, <1>8, <2>2
  <2> QED
    BY <2>1, <2>2
<1> HIDE DEF c2
<1>10. st0 \in Tallies(Bytes(left))
  BY <1>3, <1>9 DEF Tallies
<1>11. IsFiniteSet(as) /\ IsFiniteSet(ls)
  BY <1>5, NumbersFinite DEF Ledger
<1> HIDE DEF st0, as, ls
<1>12. st \in Tallies(Bytes(left))
  BY <1>4, <1>10, <1>11, OutcomesKeep
<1> HIDE DEF st
<1>13. /\ st.c \in Controllers /\ st.c.in_flight = Bytes(left) /\ st.lost <= st.total
       /\ st.total \in 0 .. LOSS_SAMPLE - 1 /\ st.lost \in 0 .. LOSS_SAMPLE - 1
  BY <1>12 DEF Tallies
<1>14. LedgerTyped'
  BY <1>1, <1>2, <1>3, <1>13 DEF FInv, LedgerTyped
<1>15. ASSUME NEW d \in End
       PROVE  /\ IsFiniteSet(sent'[d]) /\ \A x \in sent'[d] : x.seq \in used'[d]
              /\ wire_loss'[d].lost <= wire_loss'[d].total
              /\ cc'[d].in_flight = Bytes(sent'[d])
  <2>1. used[d] \subseteq used'[d]
    BY UsedGrows
  <2>2. CASE d = e
    <3>1. cc'[e] = st.c /\ sent'[e] = left
          /\ wire_loss'[e] = [total |-> st.total, lost |-> st.lost]
      BY <1>1 DEF FInv, LedgerTyped
    <3>2. IsFiniteSet(left)
      BY <1>5 DEF Ledger
    <3>3. \A x \in left : x.seq \in used[e]
      BY <1>2, <1>3
    <3> QED
      BY <1>13, <2>1, <2>2, <3>1, <3>2, <3>3
  <2>3. CASE d # e
    <3>1. cc'[d] = cc[d] /\ sent'[d] = sent[d] /\ wire_loss'[d] = wire_loss[d]
      BY <1>1, <2>3 DEF FInv, LedgerTyped
    <3> QED
      BY <2>1, <3>1 DEF FInv, LedgerExact
  <2> QED
    BY <2>2, <2>3
<1>16. LedgerExact'
  BY <1>15 DEF LedgerExact
<1> QED
  BY <1>14, <1>16

LEMMA CheckAndRecordType ==
  ASSUME NEW rw \in ReplayWindows, NEW s \in SeqNum
  PROVE  CheckAndRecord(rw, s) \in ReplayWindows
BY SessionAssumption DEF CheckAndRecord, ReplayWindows, IsFresh, ShiftLeft, SeqNum

(* The gate, the pacer and the FEC group. *)
LEMMA TunSide ==
  ASSUME LInv, FInv, NEW e \in End, NEW len \in Sizes, HandleTunPacket(e, len)
  PROVE  SideTyped' /\ ParityFull'
<1> USE DEF FInv
<1>1. len \in Nat /\ K \in Nat \ {0} /\ MaxM \in Nat
  BY TunnelLinkAssumption
<1>2. UNCHANGED <<replay, outstanding, rx_since_ack>>
  BY DEF HandleTunPacket, Refuse, Transmit, TransmitFails, recvVars
<1>3. held' \in [End -> BOOLEAN] /\ pending' \in [End -> {NoPacket} \cup Sizes]
  BY DEF HandleTunPacket, Refuse, Transmit, TransmitFails, SideTyped
<1>4. /\ group' \in [End -> [size : 0 .. K - 1, len : Nat]]
      /\ parity' \in [End -> [left : 0 .. MaxM, len : Nat]]
      /\ ParityFull'
  <2>1. CASE UNCHANGED fecVars
    BY <2>1 DEF fecVars, SideTyped, ParityFull
  <2>2. CASE Transmit(e, len)
    <3> DEFINE size == group[e].size + 1
               top == AtLeast(group[e].len, len)
    <3>1. group[e].size \in 0 .. K - 1 /\ group[e].len \in Nat
      BY DEF SideTyped
    <3>2. size \in Nat /\ top \in Nat
      BY <1>1, <3>1 DEF AtLeast
    <3>3. CASE size >= K
      <4>1. PICK m \in 0 .. MaxM :
              /\ group' = [group EXCEPT ![e] = [size |-> 0, len |-> 0]]
              /\ parity' = [parity EXCEPT ![e] =
                   [left |-> m, len |-> IF m = 0 THEN 0 ELSE AtLeast(top, 1)]]
        BY <2>2, <3>3 DEF Transmit
      <4> DEFINE l == IF m = 0 THEN 0 ELSE AtLeast(top, 1)
                 q == [left |-> m, len |-> l]
      <4> HIDE DEF size, top
      <4>2. l \in Nat /\ (m > 0 => l >= 1)
        BY <3>2 DEF AtLeast
      <4>3. parity' = [parity EXCEPT ![e] = q]
        BY <4>1
      <4> HIDE DEF l
      <4>4. q \in [left : 0 .. MaxM, len : Nat] /\ (q.left > 0 => q.len >= 1)
        BY <4>2
      <4>5. 0 \in 0 .. K - 1
        BY <1>1
      <4>6. group' \in [End -> [size : 0 .. K - 1, len : Nat]]
        BY <4>1, <4>5 DEF SideTyped
      <4> HIDE DEF q
      <4>7. parity' \in [End -> [left : 0 .. MaxM, len : Nat]]
        BY <4>3, <4>4 DEF SideTyped
      <4>8. \A d \in End : parity'[d] = IF d = e THEN q ELSE parity[d]
        BY <4>3 DEF SideTyped
      <4>9. ParityFull'
        BY <4>4, <4>8 DEF ParityFull
      <4> QED
        BY <4>6, <4>7, <4>9
    <3>4. CASE ~(size >= K)
      <4>1. group' = [group EXCEPT ![e] = [size |-> size, len |-> top]] /\ parity' = parity
        BY <2>2, <3>4 DEF Transmit
      <4>2. size \in 0 .. K - 1
        BY <1>1, <3>2, <3>4
      <4> HIDE DEF size, top
      <4>3. group' \in [End -> [size : 0 .. K - 1, len : Nat]]
        BY <3>2, <4>1, <4>2 DEF SideTyped
      <4> QED
        BY <4>1, <4>3 DEF SideTyped, ParityFull
    <3> QED
      BY <3>3, <3>4
  <2>3. Transmit(e, len) \/ UNCHANGED fecVars
    BY DEF HandleTunPacket, Refuse, TransmitFails
  <2> QED
    BY <2>1, <2>2, <2>3
<1> QED
  BY <1>2, <1>3, <1>4 DEF SideTyped

LEMMA ParitySide ==
  ASSUME LInv, FInv, NEW e \in End, SendParity(e)
  PROVE  SideTyped' /\ ParityFull'
<1> USE DEF FInv
<1> DEFINE q == IF parity[e].left = 1 THEN [left |-> 0, len |-> 0]
                ELSE [left |-> parity[e].left - 1, len |-> parity[e].len]
<1>1. MaxM \in Nat
  BY TunnelLinkAssumption
<1>2. /\ parity[e].left \in 0 .. MaxM /\ parity[e].len \in Nat /\ parity[e].left > 0
      /\ parity[e].len >= 1
  BY DEF SideTyped, ParityFull, SendParity
<1>3. parity' = [parity EXCEPT ![e] = q]
  BY DEF SendParity
<1>4. q \in [left : 0 .. MaxM, len : Nat] /\ (q.left > 0 => q.len >= 1)
  <2>1. CASE parity[e].left = 1
    BY <1>1, <2>1
  <2>2. CASE parity[e].left # 1
    <3>1. q = [left |-> parity[e].left - 1, len |-> parity[e].len]
      BY <1>2, <2>2
    <3>2. parity[e].left - 1 \in 0 .. MaxM
      BY <1>1, <1>2, <2>2
    <3> HIDE DEF q
    <3> QED
      BY <1>2, <3>1, <3>2
  <2> QED
    BY <2>1, <2>2
<1> HIDE DEF q
<1>5. parity' \in [End -> [left : 0 .. MaxM, len : Nat]]
  BY <1>3, <1>4 DEF SideTyped
<1>6. \A d \in End : parity'[d] = IF d = e THEN q ELSE parity[d]
  BY <1>3 DEF SideTyped
<1>7. ParityFull'
  BY <1>4, <1>6 DEF ParityFull
<1>8. UNCHANGED <<replay, pending, group, outstanding, rx_since_ack>>
  BY DEF SendParity, recvVars
<1>9. held' \in [End -> BOOLEAN]
  BY DEF SendParity, SideTyped
<1> QED
  BY <1>5, <1>7, <1>8, <1>9 DEF SideTyped

LEMMA ReceiveSide ==
  ASSUME LInv, FInv, NEW e \in End, NEW p \in net, NEW cut, Receive(e, p, cut)
  PROVE  SideTyped' /\ ParityFull'
<1> USE DEF FInv
<1>1. p.seq \in SeqNum
  BY DEF LInv, LinkTyped, Packet
<1>2. UNCHANGED <<held, pending, group, parity, outstanding>>
  BY DEF Receive, gateVars, fecVars
<1>3. replay' \in [End -> ReplayWindows]
  <2>1. replay[e] \in ReplayWindows /\ CheckAndRecord(replay[e], p.seq) \in ReplayWindows
    BY <1>1, CheckAndRecordType DEF SideTyped
  <2>2. replay' = [replay EXCEPT ![e] =
           IF p.type = "Close" THEN CheckAndRecord(replay[e], p.seq) ELSE replay[e]]
    BY DEF Receive
  <2> QED
    BY <2>1, <2>2 DEF SideTyped
<1>4. rx_since_ack' \in [End -> 0 .. ACK_EVERY - 1]
  <2> DEFINE bulk == p.type \in {"Data", "Fec"}
             n == rx_since_ack[e]
             now == bulk /\ n + 1 >= ACK_EVERY
             m == IF now THEN 0 ELSE IF bulk THEN n + 1 ELSE n
  <2>1. rx_since_ack' = [rx_since_ack EXCEPT ![e] = m]
    BY DEF Receive
  <2>2. n \in 0 .. ACK_EVERY - 1 /\ ACK_EVERY \in Nat \ {0}
    BY TunnelLinkAssumption DEF SideTyped
  <2> HIDE DEF bulk, n
  <2>3. m \in 0 .. ACK_EVERY - 1
    BY <2>2
  <2> HIDE DEF m
  <2> QED
    BY <2>1, <2>3 DEF SideTyped
<1>5. SideTyped'
  BY <1>2, <1>3, <1>4 DEF SideTyped
<1>6. ParityFull'
  BY <1>2 DEF ParityFull
<1> QED
  BY <1>5, <1>6

sideVars == <<replay, held, pending, group, parity, outstanding, rx_since_ack>>

(* The branches that touch one of these variables, or none. *)
LEMMA OtherSide ==
  ASSUME LInv, FInv, NEW e \in End,
         \/ PacerCredit(e) \/ FlushStaleGroup(e) \/ FlushCoalescedAck(e)
         \/ \E type : Probe(e, type)
         \/ \E cut : CheckRetransmits(e, cut)
         \/ \E reason : CloseAndExit(e, reason) \/ SourceGone(e, reason)
  PROVE  SideTyped' /\ ParityFull'
<1> USE DEF FInv
<1>0. K \in Nat \ {0} /\ ACK_EVERY \in Nat \ {0}
  BY TunnelLinkAssumption
<1>1. UNCHANGED <<replay, pending, parity>>
  BY DEF PacerCredit, FlushStaleGroup, FlushCoalescedAck, Probe, CheckRetransmits,
         CloseAndExit, SourceGone, recvVars, gateVars, fecVars
<1>2. held' \in [End -> BOOLEAN]
  BY DEF PacerCredit, FlushStaleGroup, FlushCoalescedAck, Probe, CheckRetransmits,
         CloseAndExit, SourceGone, gateVars, SideTyped
<1>3. group' \in [End -> [size : 0 .. K - 1, len : Nat]]
  <2>1. group' = group \/ group' = [group EXCEPT ![e] = [size |-> 0, len |-> 0]]
    BY DEF PacerCredit, FlushStaleGroup, FlushCoalescedAck, Probe, CheckRetransmits,
           CloseAndExit, SourceGone, fecVars
  <2> QED
    BY <1>0, <2>1 DEF SideTyped
<1>4. rx_since_ack' \in [End -> 0 .. ACK_EVERY - 1]
  <2>1. rx_since_ack' = rx_since_ack \/ rx_since_ack' = [rx_since_ack EXCEPT ![e] = 0]
    BY DEF PacerCredit, FlushStaleGroup, FlushCoalescedAck, Probe, CheckRetransmits,
           CloseAndExit, SourceGone, recvVars
  <2> QED
    BY <1>0, <2>1 DEF SideTyped
<1>5. outstanding' \in [End -> SUBSET SeqNum]
  <2>1. next_seq[e] \in SeqNum
    BY DEF LInv, LinkTyped
  <2>2. \/ outstanding' = outstanding
        \/ \E cut : CheckRetransmits(e, cut)
        \/ \E reason : CloseAndExit(e, reason)
    BY DEF PacerCredit, FlushStaleGroup, FlushCoalescedAck, Probe, SourceGone
  <2>3. CASE \E cut : CheckRetransmits(e, cut)
    BY <2>3 DEF CheckRetransmits, SideTyped
  <2>4. CASE \E reason : CloseAndExit(e, reason)
    BY <2>1, <2>4 DEF CloseAndExit, SideTyped
  <2> QED
    BY <2>2, <2>3, <2>4 DEF SideTyped
<1>6. SideTyped'
  BY <1>1, <1>2, <1>3, <1>4, <1>5 DEF SideTyped
<1>7. ParityFull'
  BY <1>1 DEF ParityFull
<1> QED
  BY <1>6, <1>7

LEMMA SideKept ==
  ASSUME LInv, FInv, [Next]_vars
  PROVE  SideTyped' /\ ParityFull'
<1>1. CASE UNCHANGED vars
  <2>1. UNCHANGED sideVars
    BY <1>1 DEF vars, recvVars, gateVars, fecVars, sideVars
  <2> QED
    BY <2>1 DEF sideVars, FInv, SideTyped, ParityFull
<1>2. CASE Next
  <2>1. PICK e \in End :
          \/ \E len \in Sizes : TunRecv(e, len)
          \/ RetryPending(e)
          \/ SendParity(e)
          \/ \E p \in net : \E cut : Receive(e, p, cut)
          \/ \/ PacerCredit(e) \/ FlushStaleGroup(e) \/ FlushCoalescedAck(e)
             \/ \E type : Probe(e, type)
             \/ \E cut : CheckRetransmits(e, cut)
             \/ \E reason : CloseAndExit(e, reason) \/ SourceGone(e, reason)
    BY <1>2 DEF Next
  <2>2. CASE \E len \in Sizes : TunRecv(e, len)
    BY <2>2, TunSide DEF TunRecv
  <2>3. CASE RetryPending(e)
    <3>1. pending[e] \in Sizes /\ HandleTunPacket(e, pending[e])
      BY <2>3 DEF RetryPending, FInv, SideTyped
    <3> QED
      BY <3>1, TunSide
  <2> QED
    BY <2>1, <2>2, <2>3, ParitySide, ReceiveSide, OtherSide
<1> QED
  BY <1>1, <1>2

LEMMA LedgerKept ==
  ASSUME LInv, Counted, FInv, [Next]_vars, BeforeWrap'
  PROVE  LedgerTyped' /\ LedgerExact'
<1>1. CASE UNCHANGED ledgerVars
  <2>1. cc' = cc /\ sent' = sent /\ wire_loss' = wire_loss
    BY <1>1 DEF ledgerVars
  <2>2. LedgerTyped'
    BY <2>1 DEF FInv, LedgerTyped
  <2>3. \A d \in End : /\ IsFiniteSet(sent'[d]) /\ \A x \in sent'[d] : x.seq \in used'[d]
                       /\ wire_loss'[d].lost <= wire_loss'[d].total
                       /\ cc'[d].in_flight = Bytes(sent'[d])
    BY <2>1, UsedGrows DEF FInv, LedgerExact
  <2>4. LedgerExact'
    BY <2>3 DEF LedgerExact
  <2> QED
    BY <2>2, <2>4
<1>2. UNCHANGED vars => UNCHANGED ledgerVars
  BY DEF vars
<1>3. ASSUME NEW e \in End, NEW bytes, Admitted(e, bytes), Reserves(e, bytes) \/ Refunds(e, bytes)
      PROVE  LedgerTyped' /\ LedgerExact'
  BY <1>3, ReserveKeeps, RefundKeeps
<1>4. ASSUME NEW e \in End, NEW adv, NEW cut, Reconcile(e, adv, cut)
      PROVE  LedgerTyped' /\ LedgerExact'
  BY <1>4, ReconcileKeeps
<1> QED
  BY <1>1, <1>2, <1>3, <1>4, LedgerShapes

(* Until an end has used all its sequence numbers, the bytes its           *)
(* controller counts in flight are exactly those of the packets whose fate *)
(* is open, through refused and failed sends, parity, acknowledgements     *)
(* that come late, twice or never, losses and shrinking windows, and every *)
(* variable keeps its type (on_send_bytes, refund_send_bytes,              *)
(* reconcile_peer_acks). *)
THEOREM FlightIsExact == Spec => [](BeforeWrap => InFlightExact)
<1>1. LInv /\ [Next]_vars /\ BeforeWrap' => BeforeWrap
  <2> SUFFICES ASSUME LInv, [Next]_vars, BeforeWrap', NEW d \in End PROVE sealed[d] <= SEQ_MOD
    BY DEF BeforeWrap
  <2>1. sealed[d] \in Nat /\ sealed \in [End -> Nat] /\ SEQ_MOD \in Nat
    BY SessionAssumption DEF LInv, LinkTyped
  <2>2. sealed'[d] = sealed[d] \/ sealed'[d] = sealed[d] + 1
    BY <2>1, SealsOrNot DEF sendVars, AllocSeq
  <2>3. sealed'[d] <= SEQ_MOD
    BY DEF BeforeWrap
  <2> QED
    BY <2>1, <2>2, <2>3
<1>2. LInv /\ Counted /\ (BeforeWrap => FInv) /\ [Next]_vars => (BeforeWrap => FInv)'
  BY <1>1, SideKept, LedgerKept DEF FInv
<1>3. Init => (BeforeWrap => FInv)
  BY FlightInit
<1>4. LInv /\ (BeforeWrap => FInv) => (BeforeWrap => InFlightExact)
  BY DEF LInv, LinkTyped, FInv, SideTyped, LedgerTyped, LedgerExact, InFlightExact, TypeOK
<1> QED
  BY <1>2, <1>3, <1>4, LinkInvariant, CountedInvariant, PTL DEF Spec

=============================================================================
