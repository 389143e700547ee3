----------------------------- MODULE TunnelLink -----------------------------
(***************************************************************************)
(* Two Tunnels (tunnel/mod.rs) over a datagram network: the send gate and  *)
(* pacer, sequence allocation, the in-flight ledger sent_packets, FEC      *)
(* parity as wire traffic, acks piggybacked and coalesced, reconciliation  *)
(* of the peer's acks, and the Close of a session.                         *)
(*                                                                         *)
(* Each end runs the single select loop of Tunnel::run; an action is one   *)
(* branch of it with the whole handler it calls.  The parity loop of       *)
(* flush_fec_group is the one handler split into steps: while parity[e]    *)
(* has packets left no other branch of e can run.                          *)
(*                                                                         *)
(* The network is the set of datagrams ever sent: one that is never        *)
(* received is lost, one received twice is duplicated.  Datagrams that do  *)
(* not decrypt change nothing and are left out.  Time is left out: the     *)
(* pacer holds or does not (held), and a reconciliation sees some prefix   *)
(* of the outstanding packets, in sending order, as expired.               *)
(***************************************************************************)
EXTENDS Session, Congestion, FiniteSets, FiniteSetsExt, Folds

CONSTANTS End,          \* the two ends
          MaxPkts,      \* bound: packets each end seals
          Sizes,        \* sizes of TUN packets
          MAX_PAYLOAD,  \* largest TUN packet that may be sent
          K,            \* fec_params.k
          MaxM,         \* AdaptiveFec.max_m; parity per group is 0 .. MaxM
          ACK_EVERY,    \* receipts that force a standalone Ack
          LOSS_SAMPLE,  \* LOSS_SAMPLE_PACKETS
          Readers,      \* ends whose TUN device produces packets
          Probes,       \* probe packets the timers send
          Arms,         \* per end: the arms by which it may leave the loop itself
          NoPacket      \* pending_out = None

(* The arms of select! that leave the loop, but for a Close received.  The *)
(* eviction arm is a server's: only spawn_session sets evict_rx. *)
Exits == {"Stopped", "SessionTimeout", "Evicted", "TunError", "UdpClosed"}

ASSUME TunnelLinkAssumption ==
  /\ \E x, y \in End : x # y /\ End = {x, y}
  /\ MaxPkts \in [End -> Nat]
  /\ Sizes \subseteq Nat /\ MAX_PAYLOAD \in Nat
  /\ K \in Nat \ {0} /\ MaxM \in Nat
  /\ ACK_EVERY \in Nat \ {0} /\ LOSS_SAMPLE \in Nat \ {0}
  /\ Readers \subseteq End /\ Probes \subseteq {"Ping", "Keepalive"}
  /\ Arms \in [End -> SUBSET Exits]

VARIABLES
  next_seq,      \* Session.next_seq
  sealed,        \* ghost: number of packets sealed
  used,          \* ghost: sequence numbers they were sealed with
  ack,           \* Session.ack
  replay,        \* Session.replay
  peer_adv,      \* Session.peer_ack, peer_bitmap (= last_peer_ack, _bitmap)
  cc,            \* profile.congestion
  held,          \* the pacer's next_send_at lies in the future
  pending,       \* pending_out: the length of the parked packet
  sent,          \* sent_packets
  wire_loss,     \* wire_loss_window
  group,         \* the TX group: symbols in it, longest of them
  parity,        \* parities flush_fec_group still has to send, their length
  outstanding,   \* seqs registered for retransmission by send_control
  rx_since_ack,
  exit,          \* the arm of select! by which the loop was left
  received,      \* ghost: sequence numbers this end authenticated
  net            \* datagrams ever put on the wire

sendVars == <<next_seq, sealed, used>>
recvVars == <<ack, replay, peer_adv, rx_since_ack, received>>
ledgerVars == <<cc, sent, wire_loss>>
gateVars == <<held, pending>>
fecVars == <<group, parity>>
vars == <<sendVars, recvVars, ledgerVars, gateVars, fecVars,
          outstanding, exit, net>>

Peer(e) == CHOOSE d \in End : d # e

PacketType == {"Data", "Fec", "Ping", "Pong", "Ack", "Keepalive", "Close"}

Packet == [from : End, type : PacketType, seq : SeqNum, adv : AckTrackers]

MAX_OUTSTANDING_CONTROL == 64

Running(e) == exit[e] = "none"

(* The task is at its select!. *)
AtSelect(e) == Running(e) /\ parity[e].left = 0

Init ==
  /\ next_seq = [e \in End |-> 1]
  /\ sealed = [e \in End |-> 0]
  /\ used = [e \in End |-> {}]
  /\ ack = [e \in End |-> NewAckTracker]
  /\ replay = [e \in End |-> NewReplayWindow]
  /\ peer_adv = [e \in End |-> NewAckTracker]
  /\ cc = [e \in End |-> NewController]
  /\ held = [e \in End |-> FALSE]
  /\ pending = [e \in End |-> NoPacket]
  /\ sent = [e \in End |-> {}]
  /\ wire_loss = [e \in End |-> [total |-> 0, lost |-> 0]]
  /\ group = [e \in End |-> [size |-> 0, len |-> 0]]
  /\ parity = [e \in End |-> [left |-> 0, len |-> 0]]
  /\ outstanding = [e \in End |-> {}]
  /\ rx_since_ack = [e \in End |-> 0]
  /\ exit = [e \in End |-> "none"]
  /\ received = [e \in End |-> {}]
  /\ net = {}

-----------------------------------------------------------------------------
(* Sealing *)

(* alloc_seq and make_nonce: the nonce is the session id, the sequence     *)
(* number and the direction, so per end it is the sequence number.         *)
AllocSeq(e) ==
  /\ sealed[e] < MaxPkts[e]
  /\ next_seq' = [next_seq EXCEPT ![e] = WrappingInc(@)]
  /\ sealed' = [sealed EXCEPT ![e] = @ + 1]
  /\ used' = [used EXCEPT ![e] = @ \cup {next_seq[e]}]

(* The datagram sealed with the number AllocSeq hands out, carrying the    *)
(* ack snapshot adv. *)
Sealed(e, type, adv) ==
  [from |-> e, type |-> type, seq |-> next_seq[e], adv |-> adv]

(* send_packet: best effort. *)
SendPacket(e, type, adv) ==
  /\ AllocSeq(e)
  /\ net' = net \cup {Sealed(e, type, adv)}

-----------------------------------------------------------------------------
(* Send paths *)

(* The first refusal handle_tun_packet meets, or "admit". *)
Gate(e, len) ==
  CASE len > MAX_PAYLOAD           -> "mtu"
    [] len <= MAX_PAYLOAD /\ SendBudget(cc[e]) < AtLeast(len, 1) -> "window"
    [] len <= MAX_PAYLOAD /\ SendBudget(cc[e]) >= AtLeast(len, 1) /\ held[e] -> "pacer"
    [] OTHER                       -> "admit"

(* A bug: every refused packet is parked, for a new deadline. *)
RefuseParksAll(e, len) ==
  /\ Gate(e, len) # "admit"
  /\ pending' = [pending EXCEPT ![e] = len]
  /\ held' = [held EXCEPT ![e] = TRUE]
  /\ UNCHANGED <<sendVars, recvVars, ledgerVars, fecVars, outstanding, exit, net>>

(* A refused packet: park_if_paced keeps it whenever the pacer's deadline  *)
(* lies in the future. *)
Refuse(e, len) ==
  /\ Gate(e, len) # "admit"
  /\ pending' = [pending EXCEPT ![e] = IF held[e] THEN len ELSE NoPacket]
  /\ UNCHANGED <<sendVars, recvVars, ledgerVars, held, fecVars,
                 outstanding, exit, net>>

(* An admitted packet goes out and joins the FEC group; a full group is    *)
(* flushed, with as many parities as the adaptive controller asks for (and *)
(* the bound MaxPkts leaves room for).                                     *)
Transmit(e, len) ==
  LET bytes == AtLeast(len, 1)
      size  == group[e].size + 1
      top   == AtLeast(group[e].len, len)
  IN  /\ Gate(e, len) = "admit"
      /\ SendPacket(e, "Data", ack[e])
      /\ cc' = [cc EXCEPT ![e] = OnSendBytes(@, bytes)]
      /\ sent' = [sent EXCEPT ![e] = @ \cup {[seq |-> next_seq[e], bytes |-> bytes]}]
      /\ held' = [held EXCEPT ![e] = TRUE]
      /\ pending' = [pending EXCEPT ![e] = NoPacket]
      /\ IF size >= K
           THEN /\ group' = [group EXCEPT ![e] = [size |-> 0, len |-> 0]]
                /\ \E m \in 0 .. MaxM :
                     /\ sealed[e] + 1 + m <= MaxPkts[e]
                     /\ parity' = [parity EXCEPT ![e] =
                          [left |-> m, len |-> IF m = 0 THEN 0 ELSE AtLeast(top, 1)]]
           ELSE /\ group' = [group EXCEPT ![e] = [size |-> size, len |-> top]]
                /\ UNCHANGED parity
      /\ UNCHANGED <<recvVars, wire_loss, outstanding, exit>>

(* A bug: the reservation is kept. *)
TransmitFailsNoRefund(e, len) ==
  /\ Gate(e, len) = "admit"
  /\ AllocSeq(e)
  /\ cc' = [cc EXCEPT ![e] = OnSendBytes(@, AtLeast(len, 1))]
  /\ pending' = [pending EXCEPT ![e] = NoPacket]
  /\ UNCHANGED <<recvVars, sent, wire_loss, held, fecVars, outstanding, exit, net>>

(* Sealing, the wire-size guard or the carrier fails after admission: the  *)
(* reservation and the pacing credit are refunded, so that the pacer is    *)
(* not in debt and the packet is not parked. *)
TransmitFails(e, len) ==
  /\ Gate(e, len) = "admit"
  /\ AllocSeq(e)
  /\ cc' = [cc EXCEPT ![e] = Release(OnSendBytes(@, AtLeast(len, 1)), AtLeast(len, 1))]
  /\ pending' = [pending EXCEPT ![e] = NoPacket]
  /\ UNCHANGED <<recvVars, sent, wire_loss, held, fecVars, outstanding, exit, net>>

HandleTunPacket(e, len) ==
  Refuse(e, len) \/ Transmit(e, len) \/ TransmitFails(e, len)

(* The tun.recv branch: a fresh packet supersedes the parked one. *)
TunRecv(e, len) == AtSelect(e) /\ HandleTunPacket(e, len)

(* The pacer_retry branch, armed for the parked packet's deadline. *)
RetryPending(e) ==
  /\ AtSelect(e)
  /\ pending[e] # NoPacket
  /\ ~held[e]
  /\ HandleTunPacket(e, pending[e])

(* Time reaches next_send_at. *)
PacerCredit(e) ==
  /\ held[e]
  /\ held' = [held EXCEPT ![e] = FALSE]
  /\ UNCHANGED <<sendVars, recvVars, ledgerVars, pending, fecVars,
                 outstanding, exit, net>>

(* One iteration of the parity loop in flush_fec_group: skipped when the   *)
(* window is full, else reserved with try_send_parity and sent, or         *)
(* refunded when sealing, the size guard or the carrier fails.             *)
SendParity(e) ==
  LET bytes == parity[e].len
  IN  /\ Running(e)
      /\ parity[e].left > 0
      /\ parity' = [parity EXCEPT ![e] =
           IF @.left = 1 THEN [left |-> 0, len |-> 0]
           ELSE [left |-> @.left - 1, len |-> bytes]]
      /\ \/ /\ bytes > SendBudget(cc[e])
            /\ UNCHANGED <<sendVars, net, cc, sent, held>>
         \/ /\ bytes <= SendBudget(cc[e])
            /\ SendPacket(e, "Fec", ack[e])
            /\ cc' = [cc EXCEPT ![e] = OnSendBytes(@, bytes)]
            /\ sent' = [sent EXCEPT ![e] = @ \cup {[seq |-> next_seq[e], bytes |-> bytes]}]
            /\ held' = [held EXCEPT ![e] = TRUE]
         \/ /\ bytes <= SendBudget(cc[e])
            /\ AllocSeq(e)
            /\ cc' = [cc EXCEPT ![e] = Release(OnSendBytes(@, bytes), bytes)]
            /\ UNCHANGED <<net, sent, held>>
      /\ UNCHANGED <<recvVars, wire_loss, pending, group, outstanding, exit>>

(* The fec_tick branch: a partial group is dropped without parity. *)
FlushStaleGroup(e) ==
  /\ AtSelect(e)
  /\ group[e].size > 0
  /\ group' = [group EXCEPT ![e] = [size |-> 0, len |-> 0]]
  /\ UNCHANGED <<sendVars, recvVars, ledgerVars, gateVars, parity,
                 outstanding, exit, net>>

(* The ping and keepalive branches. *)
Probe(e, type) ==
  /\ AtSelect(e)
  /\ SendPacket(e, type, ack[e])
  /\ UNCHANGED <<recvVars, ledgerVars, gateVars, fecVars, outstanding, exit>>

(* The ack_tick branch. *)
FlushCoalescedAck(e) ==
  /\ AtSelect(e)
  /\ rx_since_ack[e] > 0
  /\ rx_since_ack' = [rx_since_ack EXCEPT ![e] = 0]
  /\ SendPacket(e, "Ack", ack[e])
  /\ UNCHANGED <<ack, replay, peer_adv, received, ledgerVars, gateVars, fecVars,
                 outstanding, exit>>

-----------------------------------------------------------------------------
(* reconcile_peer_acks *)

Bytes(recs) == MapThenSumSet(LAMBDA r : r.bytes, recs)

(* The records that adv acknowledges. *)
AckedRecs(e, adv) == {r \in sent[e] : PeerAcked(adv, r.seq)}

(* A bug: only packets behind the anchor's bitmap are given up. *)
LostRecsNoExpiry(e, adv, cut) ==
  {r \in sent[e] \ AckedRecs(e, adv) :
     LET back == WrappingSub(adv.anchor, r.seq)
     IN  back > ACK_BITS /\ IsForward(back)}

(* The others that are given up: fallen more than a bitmap behind the      *)
(* anchor, or expired.  Expiry is by age, so it takes a prefix in sending  *)
(* order: the records the peer's number cut and earlier. *)
LostRecs(e, adv, cut) ==
  {r \in sent[e] \ AckedRecs(e, adv) :
     \/ LET back == WrappingSub(adv.anchor, r.seq)
        IN  back > ACK_BITS /\ IsForward(back)
     \/ r.seq <= cut}

(* Loss windows: each resolved packet is one outcome, oldest first; a full *)
(* window is reported to the controller and restarts. *)
RecordOutcome(st, lost) ==
  LET total  == st.total + 1
      losses == st.lost + (IF lost THEN 1 ELSE 0)
  IN  IF total >= LOSS_SAMPLE
        THEN [c |-> OnLoss(st.c, losses, total), total |-> 0, lost |-> 0]
        ELSE [c |-> st.c, total |-> total, lost |-> losses]

Outcomes(st, ackedSeqs, lostSeqs) ==
  MapThenFoldSet(LAMBDA s, acc : RecordOutcome(acc, s \in lostSeqs), st,
                 LAMBDA s : s, Max, ackedSeqs \cup lostSeqs)

(* sent, cc and wire_loss after reconciling against adv: acked bytes are   *)
(* retired and grow the window, lost bytes are released, then the outcomes *)
(* are counted. *)
Reconcile(e, adv, cut) ==
  LET acked    == AckedRecs(e, adv)
      lost     == LostRecs(e, adv, cut)
      c1       == IF acked # {} THEN OnAckBytes(cc[e], Bytes(acked)) ELSE cc[e]
      c2       == IF lost # {} THEN Release(c1, Bytes(lost)) ELSE c1
      st       == Outcomes([c |-> c2, total |-> wire_loss[e].total,
                            lost |-> wire_loss[e].lost],
                           {r.seq : r \in acked}, {r.seq : r \in lost})
  IN  /\ sent' = [sent EXCEPT ![e] = @ \ (acked \cup lost)]
      /\ cc' = [cc EXCEPT ![e] = st.c]
      /\ wire_loss' = [wire_loss EXCEPT ![e] = [total |-> st.total, lost |-> st.lost]]

(* The rto_tick branch: reconcile, resend what is outstanding (the same    *)
(* datagram, which net already holds), then forget what is acked. *)
CheckRetransmits(e, cut) ==
  /\ AtSelect(e)
  /\ Reconcile(e, peer_adv[e], cut)
  /\ outstanding' = [outstanding EXCEPT ![e] = {s \in @ : ~PeerAcked(peer_adv[e], s)}]
  /\ UNCHANGED <<sendVars, recvVars, gateVars, fecVars, exit, net>>

-----------------------------------------------------------------------------
(* Receive path *)

(* handle_udp_datagram for an authentic datagram p: a changed ack          *)
(* advertisement is stored, old or new, and reconciled; the packet's own   *)
(* number is recorded; every ACK_EVERY-th data or parity packet is acked   *)
(* at once; a fresh Close ends the loop; a Ping is answered. *)
Receive(e, p, cut) ==
  LET fresh   == p.type = "Close" /\ IsFresh(replay[e], p.seq)
      ack1    == AckRecord(ack[e], p.seq)
      bulk    == p.type \in {"Data", "Fec"}
      ackNow  == bulk /\ rx_since_ack[e] + 1 >= ACK_EVERY
  IN  /\ AtSelect(e)
      /\ p.from = Peer(e)
      /\ IF p.adv # peer_adv[e]
           THEN /\ peer_adv' = [peer_adv EXCEPT ![e] = p.adv]
                /\ Reconcile(e, p.adv, cut)
           ELSE UNCHANGED <<peer_adv, ledgerVars>>
      /\ ack' = [ack EXCEPT ![e] = IF fresh THEN AckRecord(ack1, p.seq) ELSE ack1]
      /\ received' = [received EXCEPT ![e] = @ \cup {p.seq}]
      /\ rx_since_ack' = [rx_since_ack EXCEPT ![e] =
           IF ackNow THEN 0 ELSE IF bulk THEN @ + 1 ELSE @]
      /\ IF ackNow THEN SendPacket(e, "Ack", ack1)
         ELSE IF p.type = "Ping" THEN SendPacket(e, "Pong", ack1)
         ELSE UNCHANGED <<sendVars, net>>
      /\ replay' = [replay EXCEPT ![e] =
           IF p.type = "Close" THEN CheckAndRecord(@, p.seq) ELSE @]
      /\ exit' = [exit EXCEPT ![e] = IF fresh THEN "PeerClosed" ELSE @]
      /\ UNCHANGED <<gateVars, fecVars, outstanding>>

-----------------------------------------------------------------------------
(* A bug: the Close is sent, the loop goes on. *)
CloseAndStay(e, reason) ==
  /\ AtSelect(e)
  /\ AllocSeq(e)
  /\ net' = net \cup {Sealed(e, "Close", ack[e])}
  /\ UNCHANGED <<recvVars, ledgerVars, gateVars, fecVars, outstanding, exit>>

(* Leaving the loop from this side: the stop signal, the inactivity        *)
(* timeout and, at a server, the dispatcher's eviction all send_control a  *)
(* Close and break, whether or not the Close could be sent. *)
CloseAndExit(e, reason) ==
  /\ AtSelect(e)
  /\ AllocSeq(e)
  /\ \/ /\ net' = net \cup {Sealed(e, "Close", ack[e])}
        /\ outstanding' = [outstanding EXCEPT ![e] =
             IF Cardinality(@) < MAX_OUTSTANDING_CONTROL
               THEN @ \cup {next_seq[e]} ELSE @]
     \/ UNCHANGED <<net, outstanding>>
  /\ exit' = [exit EXCEPT ![e] = reason]
  /\ UNCHANGED <<recvVars, ledgerVars, gateVars, fecVars>>

(* The TunnelExit an arm breaks with: the eviction arm has none of its own *)
(* and reports a peer that closed. *)
TunnelExit(arm) == IF arm = "Evicted" THEN "PeerClosed" ELSE arm

(* The TUN device fails or the datagram source ends: no Close is sent. *)
Silent == {"TunError", "UdpClosed"}

SourceGone(e, reason) ==
  /\ AtSelect(e)
  /\ exit' = [exit EXCEPT ![e] = reason]
  /\ UNCHANGED <<sendVars, recvVars, ledgerVars, gateVars, fecVars, outstanding, net>>

(* How far expiry may have come. *)
Cuts(e) == {0} \cup {r.seq : r \in sent[e]}

Next ==
  \E e \in End :
    \/ e \in Readers /\ \E len \in Sizes : TunRecv(e, len)
    \/ RetryPending(e)
    \/ PacerCredit(e)
    \/ SendParity(e)
    \/ FlushStaleGroup(e)
    \/ \E type \in Probes : Probe(e, type)
    \/ FlushCoalescedAck(e)
    \/ \E cut \in Cuts(e) : CheckRetransmits(e, cut)
    \/ \E p \in net : \E cut \in Cuts(e) : Receive(e, p, cut)
    \/ \E reason \in Arms[e] \ Silent : CloseAndExit(e, reason)
    \/ \E reason \in Arms[e] \cap Silent : SourceGone(e, reason)

Spec == Init /\ [][Next]_vars

(* Timers fire: the pacer's deadline and the 50 ms rto_tick come round,    *)
(* the oldest outstanding packet is expired at some tick, and the loop     *)
(* gets on with a parity burst and a due retry.  Nothing is assumed of the *)
(* network or of the traffic. *)
Due(e) ==
  /\ AtSelect(e) /\ pending[e] # NoPacket /\ ~held[e]
  /\ Gate(e, pending[e]) = "admit" => sealed[e] < MaxPkts[e]

(* A tick can resolve something: expiry takes at least the oldest. *)
Expirable(e) ==
  /\ AtSelect(e)
  /\ \E cut \in Cuts(e) \ {0} :
       AckedRecs(e, peer_adv[e]) \cup LostRecs(e, peer_adv[e], cut) # {}

(* Weak fairness, with the condition under which each step can be taken    *)
(* written out. *)
Fairness ==
  \A e \in End :
    /\ []<>(~held[e]) \/ []<><<PacerCredit(e)>>_vars
    /\ []<>(~Running(e) \/ parity[e].left = 0) \/ []<><<SendParity(e)>>_vars
    /\ []<>(~Due(e)) \/ []<><<RetryPending(e)>>_vars
    /\ \/ []<>(~Expirable(e))
       \/ []<><<\E cut \in Cuts(e) \ {0} : CheckRetransmits(e, cut)>>_vars

FairSpec == Spec /\ Fairness

-----------------------------------------------------------------------------

SentPacket == [seq : SeqNum, bytes : Nat \ {0}]

TypeOK ==
  /\ next_seq \in [End -> SeqNum]
  /\ sealed \in [End -> Nat]
  /\ used \in [End -> SUBSET SeqNum]
  /\ ack \in [End -> AckTrackers]
  /\ replay \in [End -> ReplayWindows]
  /\ peer_adv \in [End -> AckTrackers]
  /\ cc \in [End -> Controllers]
  /\ held \in [End -> BOOLEAN]
  /\ pending \in [End -> {NoPacket} \cup Sizes]
  /\ sent \in [End -> SUBSET SentPacket]
  /\ wire_loss \in [End -> [total : 0 .. LOSS_SAMPLE - 1, lost : 0 .. LOSS_SAMPLE - 1]]
  /\ group \in [End -> [size : 0 .. K - 1, len : Nat]]
  /\ parity \in [End -> [left : 0 .. MaxM, len : Nat]]
  /\ outstanding \in [End -> SUBSET SeqNum]
  /\ rx_since_ack \in [End -> 0 .. ACK_EVERY - 1]
  /\ exit \in [End -> {"none", "PeerClosed"} \cup Exits]
  /\ received \in [End -> SUBSET SeqNum]
  /\ net \subseteq Packet

(* The window leaks no credit and frees none: the bytes the controller     *)
(* counts in flight are those of the packets whose fate is still open,     *)
(* through refused and failed sends, parity, acks, losses and shrinking    *)
(* windows (on_send_bytes, refund_send_bytes, reconcile_peer_acks; the     *)
(* rule in the comment of trait CongestionControl). *)
InFlightExact == TypeOK /\ \A e \in End : cc[e].in_flight = Bytes(sent[e])

(* An end believes a packet acknowledged only if its peer authenticated    *)
(* it, whatever order, stale or repeated, the advertisements arrive in     *)
(* (observe_acks, peer_acked, AckTracker::record). *)
AckSound ==
  \A e \in End : \A s \in SeqNum :
    PeerAcked(peer_adv[e], s) => s \in received[Peer(e)] /\ s \in used[e]

(* Each (key, nonce) pair is used exactly once: no two packets of one end  *)
(* are sealed with one sequence number (make_nonce, alloc_seq;             *)
(* doc/crypto.md:134). *)
NonceOnce == \A e \in End : Cardinality(used[e]) = sealed[e]

(* A tunnel that reports PeerClosed was either evicted, or its peer has    *)
(* left for a reason of its own, eviction included: the two ends cannot    *)
(* talk each other into closing (the Close arm of handle_udp_datagram      *)
(* sends no Close back).  That an evicted tunnel reports PeerClosed at all *)
(* is not what TunnelExit's comment says (tunnel/mod.rs:76). *)
CloseHonest ==
  \A e \in End :
    TunnelExit(exit[e]) = "PeerClosed" =>
      exit[e] = "Evicted" \/ exit[Peer(e)] \in Exits \ Silent

(* Every packet's fate is decided, without any help from the peer: it      *)
(* leaves the ledger unless the session ends first (check_retransmits). *)
SentResolved ==
  \A e \in End : \A s \in 1 .. MaxPkts[e] :
    (\E r \in sent[e] : r.seq = s) ~> (~Running(e) \/ ~\E r \in sent[e] : r.seq = s)

(* A parked packet does not stay: it is sent, dropped or superseded and    *)
(* the queue of one empties, unless the session ends (retry_pending: it    *)
(* must not "pin here forever"). *)
ParkedLeaves ==
  \A e \in End :
    pending[e] # NoPacket ~>
      (pending[e] = NoPacket \/ ~Running(e) \/ sealed[e] = MaxPkts[e])

=============================================================================
