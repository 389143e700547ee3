----------------------------- MODULE SessionRx -----------------------------
(***************************************************************************)
(* One direction of a session: the peer seals packets numbered by          *)
(* Session::alloc_seq, the network delivers any of them in any order, any  *)
(* number of times or never, and this side feeds each authenticated one    *)
(* to its AckTracker and, when it is reliable control, to its              *)
(* ReplayWindow, as Tunnel::handle_udp_datagram does.                      *)
(*                                                                         *)
(* The peer's n-th packet carries the wire sequence number n modulo        *)
(* SEQ_MOD.  The unwrapped number n is a ghost: no code reads it.  It lets *)
(* the properties speak about packets rather than about u32 values that    *)
(* are used again after a wrap.                                            *)
(***************************************************************************)
EXTENDS Session

CONSTANTS Control,   \* numbers of the peer's packets that are reliable control
          MaxSent    \* bound on the packets the peer seals

ASSUME SessionRxAssumption == MaxSent \in Nat /\ Control \subseteq Nat

VARIABLES
  log,          \* the packets sealed so far, [n, seq]
  last,         \* the newest of them; n = 0 before the first
  replay,       \* Session.replay
  ack,          \* Session.ack
  top,          \* ghost: n of the packet at ack.anchor, 0 for none
  got,          \* ghost: numbers of the packets recorded for acking
  delivered,    \* ghost: numbers of the control packets accepted
  redelivered   \* ghost: those accepted more than once

vars == <<log, last, replay, ack, top, got, delivered, redelivered>>

Packet == [n : Nat, seq : SeqNum]

Init ==
  /\ log = {}
  /\ last = [n |-> 0, seq |-> 0]
  /\ replay = NewReplayWindow
  /\ ack = NewAckTracker
  /\ top = 0
  /\ got = {}
  /\ delivered = {}
  /\ redelivered = {}

(* The peer's alloc_seq: next_seq starts at 1 and wraps to 0. *)
PeerSend ==
  /\ last.n < MaxSent
  /\ last' = [n |-> last.n + 1, seq |-> WrappingInc(last.seq)]
  /\ log' = log \cup {last'}
  /\ UNCHANGED <<replay, ack, top, got, delivered, redelivered>>

(* Environment assumption: no packet is overtaken by half the sequence     *)
(* space, 2^31 packets, before it arrives.                                 *)
WithinLifetime(p) ==
  top # 0 => IF p.n >= top THEN IsForward(p.n - top)
                           ELSE ~IsForward(SEQ_MOD - (top - p.n))

(* handle_udp_datagram after AEAD open: ack.record for every packet, then  *)
(* receive_reliable for control, which records a fresh one again.          *)
Receive(p) ==
  LET control == p.n \in Control
      fresh   == control /\ IsFresh(replay, p.seq)
      ack1    == AckRecord(ack, p.seq)
  IN  /\ WithinLifetime(p)
      /\ ack' = IF fresh THEN AckRecord(ack1, p.seq) ELSE ack1
      /\ replay' = IF control THEN CheckAndRecord(replay, p.seq) ELSE replay
      /\ delivered' = IF fresh THEN delivered \cup {p.n} ELSE delivered
      /\ redelivered' = IF fresh /\ p.n \in delivered
                          THEN redelivered \cup {p.n} ELSE redelivered
      /\ got' = IF p.seq = 0 THEN got ELSE got \cup {p.n}
      /\ top' = IF p.seq # 0 /\ p.n > top THEN p.n ELSE top
      /\ UNCHANGED <<log, last>>

Next == PeerSend \/ \E p \in log : Receive(p)

Spec == Init /\ [][Next]_vars

-----------------------------------------------------------------------------

TypeOK ==
  /\ last \in Packet
  /\ log \subseteq Packet
  /\ replay \in ReplayWindows
  /\ ack \in AckTrackers
  /\ top \in Nat
  /\ got \subseteq Nat
  /\ delivered \subseteq Nat
  /\ redelivered \subseteq Nat

(* A control packet is acted on at most once, however often the network    *)
(* delivers it and however the window has slid in between, a wrap of the   *)
(* sequence numbers included (ReplayWindow::check_and_record).             *)
ControlOnce == redelivered = {}

(* The advertisement says exactly what arrived: its anchor is the newest   *)
(* packet received and bit i is set if and only if the packet i + 1 before *)
(* it was, also across a wrap (AckTracker::record).                        *)
AckExact ==
  /\ top = 0 <=> ack.anchor = 0
  /\ top = 0 => ack.bitmap = {}
  /\ top # 0 => /\ [n |-> top, seq |-> ack.anchor] \in log
                /\ top \in got
                /\ \A i \in 0 .. ACK_BITS - 1 :
                     i \in ack.bitmap <=> top - 1 - i \in got

(* Until the sequence numbers wrap, a control packet that was never        *)
(* accepted, and is not older than the window, is accepted when it         *)
(* arrives: "Returns `true` if `seq` is fresh (not seen)" (the comment on  *)
(* check_and_record).                                                      *)
FreshNotRefused ==
  last.n < SEQ_MOD =>
    \A p \in log :
      (/\ p.n \in Control \ delivered
       /\ p.seq # 0
       /\ \A d \in delivered : d - p.n < WINDOW)
      => IsFresh(replay, p.seq)

=============================================================================
