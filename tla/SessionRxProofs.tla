-------------------------- MODULE SessionRxProofs --------------------------
(***************************************************************************)
(* Proofs that hold for every width of the sequence numbers, of the replay *)
(* window and of the ack bitmap, every number of packets and every choice  *)
(* of which of them are control.                                           *)
(***************************************************************************)
EXTENDS SessionRx, TLAPS

(* Wire numbers follow the packet numbers: the wrapped difference of two   *)
(* packets less than SEQ_MOD apart is their real distance, and below the   *)
(* first wrap a wire number is the packet's number.                        *)
LogOK ==
  /\ last.n = 0 => last.seq = 0
  /\ last.n # 0 => last \in log
  /\ \A p \in log : 1 <= p.n /\ p.n <= last.n
  /\ \A p, q \in log :
       (0 <= p.n - q.n /\ p.n - q.n < SEQ_MOD)
         => WrappingSub(p.seq, q.seq) = p.n - q.n
  /\ \A p \in log : p.n < SEQ_MOD => p.seq = p.n

(* What is recorded for acking was sent, is not the reserved number 0 and  *)
(* is not newer than the anchor.                                           *)
GotOK == \A g \in got : g <= top /\ \E p \in log : p.n = g /\ p.seq # 0

(* Only sent packets are accepted. *)
DeliveredOK == \A d \in delivered : d <= last.n

(* The replay window remembers every accepted number it has not slid past. *)
ReplayOK ==
  \A p \in log :
    p.n \in delivered =>
      /\ p.seq # 0
      /\ p.seq <= replay.highest
      /\ replay.highest - p.seq < WINDOW => replay.highest - p.seq \in replay.bits

(* Before the first wrap the window holds nothing but accepted numbers. *)
ReplayExact ==
  last.n < SEQ_MOD =>
    /\ replay.highest # 0 => replay.highest \in delivered
    /\ \A b \in replay.bits : replay.highest - b \in delivered

IInv ==
  /\ TypeOK
  /\ last.n <= MaxSent
  /\ LogOK
  /\ GotOK
  /\ DeliveredOK
  /\ AckExact
  /\ ReplayOK
  /\ ReplayExact
  /\ ControlOnce

-----------------------------------------------------------------------------

(* Moving a packet one ahead adds one to its wrapped distance. *)
LEMMA WrappingSubInc ==
  ASSUME NEW a \in SeqNum, NEW b \in SeqNum, NEW d \in Nat,
         WrappingSub(a, b) = d, d + 1 < SEQ_MOD
  PROVE  WrappingSub(WrappingInc(a), b) = d + 1
BY SessionAssumption DEF WrappingSub, WrappingInc, SeqNum

(* The distance the other way round the circle. *)
LEMMA WrappingSubFlip ==
  ASSUME NEW a \in SeqNum, NEW b \in SeqNum, a # b
  PROVE  WrappingSub(b, a) = SEQ_MOD - WrappingSub(a, b)
BY SessionAssumption DEF WrappingSub, SeqNum

LEMMA AckRecordType ==
  ASSUME NEW t \in AckTrackers, NEW s \in SeqNum
  PROVE  AckRecord(t, s) \in AckTrackers
BY SessionAssumption
   DEF AckRecord, AckTrackers, SlideForward, ShiftLeft, WrappingSub, SeqNum

(* Recording a sequence number again changes nothing, so that              *)
(* receive_reliable's second record of a fresh packet is harmless.         *)
LEMMA AckRecordIdempotent ==
  ASSUME NEW t \in AckTrackers, NEW s \in SeqNum
  PROVE  AckRecord(AckRecord(t, s), s) = AckRecord(t, s)
<1> DEFINE r == AckRecord(t, s)
           advance == WrappingSub(s, t.anchor)
           back == WrappingSub(t.anchor, s)
<1>1. CASE s = 0
  BY <1>1 DEF AckRecord
<1>2. CASE s # 0 /\ r.anchor = s
  <2>1. WrappingSub(s, r.anchor) = 0
    BY <1>2, SessionAssumption DEF WrappingSub, SeqNum
  <2> QED
    BY <1>2, <2>1 DEF AckRecord
<1>3. CASE s # 0 /\ r.anchor # s
  <2>1. /\ t.anchor # 0
        /\ advance # 0
        /\ ~IsForward(advance)
    BY <1>3, SessionAssumption
       DEF AckRecord, AckTrackers, SlideForward, WrappingSub, SeqNum
  <2>2. r = IF back \in 1 .. ACK_BITS
              THEN [t EXCEPT !.bitmap = @ \cup {back - 1}] ELSE t
    BY <1>3, <2>1 DEF AckRecord
  <2>3. r.anchor = t.anchor
    BY <2>2 DEF AckTrackers
  <2>4. AckRecord(r, s) = IF back \in 1 .. ACK_BITS
              THEN [r EXCEPT !.bitmap = @ \cup {back - 1}] ELSE r
    BY <1>3, <2>1, <2>3 DEF AckRecord
  <2>5. CASE back \in 1 .. ACK_BITS
    BY <2>2, <2>4, <2>5 DEF AckTrackers
  <2>6. CASE back \notin 1 .. ACK_BITS
    BY <2>2, <2>4, <2>6
  <2> QED
    BY <2>5, <2>6
<1> QED
  BY <1>1, <1>2, <1>3

LEMMA CheckAndRecordType ==
  ASSUME NEW rw \in ReplayWindows, NEW s \in SeqNum
  PROVE  CheckAndRecord(rw, s) \in ReplayWindows
BY SessionAssumption
   DEF CheckAndRecord, ReplayWindows, IsFresh, ShiftLeft, SeqNum

-----------------------------------------------------------------------------

LEMMA InitInv == Init => IInv
BY SessionAssumption, SessionRxAssumption
   DEF Init, IInv, TypeOK, LogOK, GotOK, DeliveredOK, AckExact, ReplayOK, ReplayExact,
       ControlOnce, NewReplayWindow, NewAckTracker, ReplayWindows,
       AckTrackers, Packet, SeqNum

LEMMA PeerSendInv == IInv /\ PeerSend => IInv'
<1> SUFFICES ASSUME IInv, PeerSend PROVE IInv'
  OBVIOUS
<1> USE SessionAssumption, SessionRxAssumption
<1>1. TypeOK' /\ last'.n <= MaxSent
  BY DEF IInv, TypeOK, PeerSend, Packet, WrappingInc, SeqNum
<1>2. LogOK'
  <2>1. /\ last' \in log' /\ last'.n # 0 /\ last'.n = last.n + 1
        /\ last'.seq = WrappingInc(last.seq)
        /\ \A p \in log' : p \in log \/ p = last'
        /\ last.seq \in SeqNum /\ last.n \in Nat
        /\ \A p \in log : p.seq \in SeqNum /\ p.n \in Nat
    BY DEF IInv, TypeOK, PeerSend, Packet
  <2>2. \A p \in log' : 1 <= p.n /\ p.n <= last'.n
    BY <2>1 DEF IInv, LogOK
  <2>3. \A p \in log' : p.n < SEQ_MOD => p.seq = p.n
    <3>1. last'.n < SEQ_MOD => last'.seq = last'.n
      <4>1. last'.n < SEQ_MOD => last.seq = last.n
        BY <2>1 DEF IInv, LogOK
      <4> QED
        BY <2>1, <4>1 DEF WrappingInc, SeqNum
    <3> QED
      BY <2>1, <3>1 DEF IInv, LogOK
  <2>4. ASSUME NEW p \in log', NEW q \in log',
               0 <= p.n - q.n, p.n - q.n < SEQ_MOD
        PROVE  WrappingSub(p.seq, q.seq) = p.n - q.n
    <3>1. CASE p \in log /\ q \in log
      BY <2>4, <3>1 DEF IInv, LogOK
    <3>2. CASE p = last' /\ q = last'
      BY <2>1, <3>2 DEF WrappingSub, WrappingInc, SeqNum
    <3>3. CASE p \in log /\ q = last'
      BY <2>1, <2>4, <3>3 DEF IInv, LogOK
    <3>4. CASE p = last' /\ q \in log
      <4>1. last.n # 0 /\ last \in log
        BY <2>1, <3>4 DEF IInv, LogOK
      <4>2. last.n - q.n \in Nat /\ last.n - q.n < SEQ_MOD
        BY <2>1, <2>4, <3>4 DEF IInv, LogOK
      <4>3. WrappingSub(last.seq, q.seq) = last.n - q.n
        BY <3>4, <4>1, <4>2 DEF IInv, LogOK
      <4>4. (last.n - q.n) + 1 < SEQ_MOD
        BY <2>1, <2>4, <3>4
      <4>5. WrappingSub(WrappingInc(last.seq), q.seq) = (last.n - q.n) + 1
        BY <2>1, <3>4, <4>2, <4>3, <4>4, WrappingSubInc
      <4> QED
        BY <2>1, <3>4, <4>5
    <3> QED
      BY <2>1, <3>1, <3>2, <3>3, <3>4
  <2> QED
    BY <2>1, <2>2, <2>3, <2>4 DEF LogOK
<1>3. GotOK' /\ DeliveredOK'
  BY DEF IInv, GotOK, DeliveredOK, PeerSend, TypeOK, Packet
<1>4. AckExact'
  BY DEF IInv, AckExact, PeerSend
<1>5. ReplayOK'
  BY DEF IInv, ReplayOK, PeerSend, DeliveredOK, TypeOK, Packet
<1>6. ReplayExact' /\ ControlOnce'
  <2>1. last.n \in Nat /\ last'.n = last.n + 1 /\ SEQ_MOD \in Nat
    BY SessionAssumption DEF IInv, TypeOK, Packet, PeerSend
  <2>2. last'.n < SEQ_MOD => last.n < SEQ_MOD
    BY <2>1
  <2> QED
    BY <2>2 DEF IInv, ReplayExact, ControlOnce, PeerSend
<1> QED
  BY <1>1, <1>2, <1>3, <1>4, <1>5, <1>6 DEF IInv

-----------------------------------------------------------------------------

(* The tracker after a packet, in terms of its distance from the anchor. *)
LEMMA AckRecordEffect ==
  ASSUME IInv, NEW p \in log, WithinLifetime(p), p.seq # 0, top # 0
  PROVE  /\ p.n = top => AckRecord(ack, p.seq) = ack
         /\ p.n > top => AckRecord(ack, p.seq) = SlideForward(ack, p.seq, p.n - top)
         /\ p.n < top => AckRecord(ack, p.seq) =
              IF top - p.n <= ACK_BITS
                THEN [ack EXCEPT !.bitmap = @ \cup {top - p.n - 1}] ELSE ack
<1> USE SessionAssumption
<1> DEFINE q == [n |-> top, seq |-> ack.anchor]
<1>1. /\ q \in log /\ ack.anchor # 0 /\ ack.anchor \in SeqNum /\ top \in Nat
      /\ p.seq \in SeqNum /\ p.n \in Nat
  BY DEF IInv, AckExact, TypeOK, AckTrackers, Packet
<1>2. CASE p.n = top
  <2>1. WrappingSub(p.seq, ack.anchor) = 0
    BY <1>1, <1>2 DEF IInv, LogOK, SeqNum
  <2> QED
    BY <1>1, <1>2, <2>1 DEF AckRecord
<1>3. CASE p.n > top
  <2>1. IsForward(p.n - top) /\ p.n - top < SEQ_MOD
    BY <1>1, <1>3 DEF WithinLifetime, IsForward
  <2>2. WrappingSub(p.seq, ack.anchor) = p.n - top
    BY <1>1, <1>3, <2>1 DEF IInv, LogOK
  <2> QED
    BY <1>1, <1>3, <2>1, <2>2 DEF AckRecord
<1>4. CASE p.n < top
  <2>1. ~IsForward(SEQ_MOD - (top - p.n)) /\ top - p.n < SEQ_MOD
    BY <1>1, <1>4 DEF WithinLifetime, IsForward
  <2>2. WrappingSub(ack.anchor, p.seq) = top - p.n
    BY <1>1, <1>4, <2>1 DEF IInv, LogOK
  <2>3. ack.anchor # p.seq
    BY <1>1, <1>4, <2>2 DEF WrappingSub, SeqNum
  <2>4. WrappingSub(p.seq, ack.anchor) = SEQ_MOD - (top - p.n)
    BY <1>1, <2>2, <2>3, WrappingSubFlip
  <2>5. top - p.n \in 1 .. ACK_BITS <=> top - p.n <= ACK_BITS
    BY <1>1, <1>4
  <2> QED
    BY <1>1, <1>4, <2>1, <2>2, <2>4, <2>5 DEF AckRecord
<1> QED
  BY <1>1, <1>2, <1>3, <1>4

LEMMA ReceiveInv ==
  ASSUME IInv, NEW p \in log, Receive(p)
  PROVE  IInv'
<1> USE SessionAssumption, SessionRxAssumption
<1> DEFINE fresh == p.n \in Control /\ IsFresh(replay, p.seq)
<1>1. /\ p.seq \in SeqNum /\ p.n \in Nat /\ 1 <= p.n /\ p.n <= last.n
      /\ last.n \in Nat /\ ack \in AckTrackers /\ replay \in ReplayWindows
      /\ top \in Nat /\ got \subseteq Nat /\ delivered \subseteq Nat
  BY DEF IInv, TypeOK, LogOK, Packet
<1>2. /\ ack' = AckRecord(ack, p.seq)
      /\ log' = log /\ last' = last
      /\ got' = IF p.seq = 0 THEN got ELSE got \cup {p.n}
      /\ top' = IF p.seq # 0 /\ p.n > top THEN p.n ELSE top
      /\ WithinLifetime(p)
  BY <1>1, AckRecordIdempotent DEF Receive
<1>3. /\ replay' = IF fresh THEN CheckAndRecord(replay, p.seq) ELSE replay
      /\ delivered' = IF fresh THEN delivered \cup {p.n} ELSE delivered
      /\ redelivered' = IF fresh /\ p.n \in delivered
                          THEN redelivered \cup {p.n} ELSE redelivered
  BY DEF Receive, CheckAndRecord
<1>4. TypeOK' /\ last'.n <= MaxSent
  <2>1. ack' \in AckTrackers /\ replay' \in ReplayWindows
    BY <1>1, <1>2, <1>3, AckRecordType, CheckAndRecordType
  <2> QED
    BY <1>1, <1>2, <1>3, <2>1 DEF IInv, TypeOK
<1>5. LogOK'
  BY <1>2 DEF IInv, LogOK
<1>6. GotOK' /\ DeliveredOK'
  BY <1>1, <1>2, <1>3 DEF IInv, GotOK, DeliveredOK
<1>7. AckExact'
  <2>1. CASE p.seq = 0
    BY <1>2, <2>1 DEF IInv, AckExact, AckRecord
  <2>2. CASE p.seq # 0 /\ top = 0
    <3>1. got = {}
      BY <1>1, <2>2 DEF IInv, GotOK, LogOK, TypeOK, Packet
    <3>2. ack.anchor = 0 /\ ack.bitmap = {}
      BY <2>2 DEF IInv, AckExact
    <3>3. ack' = [ack EXCEPT !.anchor = p.seq]
      BY <1>2, <2>2, <3>2 DEF AckRecord
    <3>4. ack'.anchor = p.seq /\ ack'.bitmap = {}
      BY <1>1, <3>2, <3>3 DEF AckTrackers
    <3>5. [n |-> p.n, seq |-> p.seq] = p
      BY DEF IInv, TypeOK, Packet
    <3> QED
      BY <1>1, <1>2, <2>2, <3>1, <3>4, <3>5 DEF AckExact
  <2>3. CASE p.seq # 0 /\ top # 0 /\ p.n = top
    BY <1>2, <2>3, AckRecordEffect DEF IInv, AckExact
  <2>4. CASE p.seq # 0 /\ top # 0 /\ p.n > top
    <3>1. ack' = SlideForward(ack, p.seq, p.n - top)
      BY <1>2, <2>4, AckRecordEffect
    <3>2. /\ ack'.anchor = p.seq
          /\ \A i \in 0 .. ACK_BITS - 1 :
               i \in ack'.bitmap <=> \/ i - (p.n - top) \in ack.bitmap
                                      \/ i = p.n - top - 1
      BY <1>1, <3>1 DEF SlideForward, ShiftLeft
    <3>3. ack.bitmap \subseteq 0 .. ACK_BITS - 1
      BY <1>1 DEF AckTrackers
    <3>4. \A g \in got : g <= top
      BY DEF IInv, GotOK
    <3>5. top \in got /\ \A i \in 0 .. ACK_BITS - 1 :
                             i \in ack.bitmap <=> top - 1 - i \in got
      BY <2>4 DEF IInv, AckExact
    <3>6. ASSUME NEW i \in 0 .. ACK_BITS - 1
          PROVE  i \in ack'.bitmap <=> p.n - 1 - i \in got \cup {p.n}
      <4>1. CASE i < p.n - top - 1
        BY <1>1, <2>4, <3>2, <3>3, <3>4, <4>1
      <4>2. CASE i = p.n - top - 1
        BY <1>1, <2>4, <3>2, <3>5, <4>2
      <4>3. CASE i > p.n - top - 1
        <5>1. i - (p.n - top) \in 0 .. ACK_BITS - 1
          BY <1>1, <2>4, <4>3
        <5>2. top - 1 - (i - (p.n - top)) = p.n - 1 - i
          BY <1>1
        <5>3. p.n - 1 - i # p.n
          BY <1>1
        <5> QED
          BY <3>2, <3>5, <4>3, <5>1, <5>2, <5>3, <1>1
      <4> QED
        BY <1>1, <4>1, <4>2, <4>3
    <3>7. [n |-> p.n, seq |-> p.seq] = p
      BY DEF IInv, TypeOK, Packet
    <3> QED
      BY <1>1, <1>2, <2>4, <3>2, <3>6, <3>7 DEF AckExact
  <2>5. CASE p.seq # 0 /\ top # 0 /\ p.n < top
    <3>1. ack' = IF top - p.n <= ACK_BITS
                   THEN [ack EXCEPT !.bitmap = @ \cup {top - p.n - 1}] ELSE ack
      BY <1>2, <2>5, AckRecordEffect
    <3>2. /\ ack'.anchor = ack.anchor
          /\ \A i \in 0 .. ACK_BITS - 1 :
               i \in ack'.bitmap <=> i \in ack.bitmap \/ i = top - p.n - 1
      BY <1>1, <2>5, <3>1 DEF AckTrackers
    <3>3. /\ top \in got /\ [n |-> top, seq |-> ack.anchor] \in log
          /\ ack.anchor # 0
          /\ \A i \in 0 .. ACK_BITS - 1 : i \in ack.bitmap <=> top - 1 - i \in got
      BY <2>5 DEF IInv, AckExact
    <3>4. \A i \in 0 .. ACK_BITS - 1 : i = top - p.n - 1 <=> top - 1 - i = p.n
      BY <1>1
    <3> QED
      BY <1>1, <1>2, <2>5, <3>2, <3>3, <3>4 DEF AckExact
  <2> QED
    BY <1>1, <2>1, <2>2, <2>3, <2>4, <2>5
<1>8. ControlOnce'
  <2>1. p.n \in delivered => ~IsFresh(replay, p.seq)
    BY <1>1 DEF IInv, ReplayOK, IsFresh, ReplayWindows, SeqNum
  <2> QED
    BY <1>3, <2>1 DEF IInv, ControlOnce
<1>9. ReplayOK'
  <2>1. CASE ~fresh
    BY <1>2, <1>3, <2>1 DEF IInv, ReplayOK
  <2>2. CASE fresh
    <3>1. \A q \in log : /\ q.n \in Nat /\ q.seq \in SeqNum
                         /\ q.n = p.n => q.seq = p.seq
      BY <1>1 DEF IInv, LogOK, TypeOK, Packet, WrappingSub, SeqNum
    <3>2. p.seq # 0
      BY <2>2 DEF IsFresh
    <3>3. CASE p.seq > replay.highest
      <4>1. /\ replay'.highest = p.seq
            /\ replay'.bits = {0} \cup
                 ShiftLeft(replay.bits, p.seq - replay.highest, WINDOW)
        BY <1>3, <2>2, <3>3 DEF CheckAndRecord
      <4>2. ASSUME NEW q \in log, q.n \in delivered'
            PROVE  /\ q.seq # 0 /\ q.seq <= p.seq
                   /\ p.seq - q.seq < WINDOW => p.seq - q.seq \in replay'.bits
        <5>1. CASE q.n = p.n
          BY <1>1, <3>1, <3>2, <4>1, <5>1 DEF SeqNum
        <5>2. CASE q.n # p.n
          <6>1. /\ q.seq # 0 /\ q.seq <= replay.highest
                /\ replay.highest - q.seq < WINDOW =>
                     replay.highest - q.seq \in replay.bits
            BY <1>3, <2>2, <4>2, <5>2 DEF IInv, ReplayOK
          <6>2. replay.highest \in Nat /\ q.seq \in Nat /\ p.seq \in Nat
            BY <1>1, <3>1 DEF ReplayWindows, SeqNum
          <6> QED
            BY <3>3, <4>1, <6>1, <6>2 DEF ShiftLeft
        <5> QED
          BY <5>1, <5>2
      <4> QED
        BY <1>2, <4>1, <4>2 DEF ReplayOK
    <3>4. CASE ~(p.seq > replay.highest)
      <4>1. /\ replay'.highest = replay.highest
            /\ replay'.bits = replay.bits \cup {replay.highest - p.seq}
        BY <1>1, <1>3, <2>2, <3>4 DEF CheckAndRecord, ReplayWindows
      <4> QED
        BY <1>1, <1>2, <1>3, <2>2, <3>1, <3>2, <3>4, <4>1
           DEF IInv, ReplayOK, ReplayWindows, SeqNum
    <3> QED
      BY <3>3, <3>4
  <2> QED
    BY <2>1, <2>2
<1>10. ReplayExact'
  <2> SUFFICES ASSUME last.n < SEQ_MOD
               PROVE  /\ replay'.highest # 0 => replay'.highest \in delivered'
                      /\ \A b \in replay'.bits : replay'.highest - b \in delivered'
    BY <1>2 DEF ReplayExact
  <2>1. p.seq = p.n
    BY <1>1 DEF IInv, LogOK
  <2>2. /\ replay.highest # 0 => replay.highest \in delivered
        /\ \A b \in replay.bits : replay.highest - b \in delivered
    BY DEF IInv, ReplayExact
  <2>3. CASE ~fresh
    BY <1>3, <2>2, <2>3
  <2>4. CASE fresh /\ p.seq > replay.highest
    <3>1. /\ replay'.highest = p.seq
          /\ replay'.bits = {0} \cup
               ShiftLeft(replay.bits, p.seq - replay.highest, WINDOW)
      BY <1>3, <2>4 DEF CheckAndRecord
    <3>2. replay.highest \in Nat
      BY <1>1 DEF ReplayWindows, SeqNum
    <3>3. ASSUME NEW b \in replay'.bits PROVE p.seq - b \in delivered'
      <4>1. CASE b = 0
        BY <1>1, <1>3, <2>1, <2>4, <4>1
      <4>2. CASE b # 0
        <5>1. b \in 0 .. WINDOW - 1 /\ b - (p.seq - replay.highest) \in replay.bits
          BY <3>1, <3>3, <4>2 DEF ShiftLeft
        <5>2. replay.highest - (b - (p.seq - replay.highest)) = p.seq - b
          BY <1>1, <2>1, <3>2, <5>1
        <5> QED
          BY <1>3, <2>2, <2>4, <5>1, <5>2
      <4> QED
        BY <4>1, <4>2
    <3> QED
      BY <1>3, <2>1, <2>4, <3>1, <3>3
  <2>5. CASE fresh /\ ~(p.seq > replay.highest)
    <3>1. /\ replay'.highest = replay.highest
          /\ replay'.bits = replay.bits \cup {replay.highest - p.seq}
      BY <1>1, <1>3, <2>5 DEF CheckAndRecord, ReplayWindows
    <3> QED
      BY <1>1, <1>3, <2>1, <2>2, <2>5, <3>1 DEF ReplayWindows, SeqNum
  <2> QED
    BY <2>3, <2>4, <2>5
<1> QED
  BY <1>4, <1>5, <1>6, <1>7, <1>8, <1>9, <1>10 DEF IInv

-----------------------------------------------------------------------------

LEMMA InductiveInvariant == Spec => []IInv
<1>1. IInv /\ [Next]_vars => IInv'
  <2> SUFFICES ASSUME IInv, [Next]_vars PROVE IInv'
    OBVIOUS
  <2>1. CASE PeerSend
    BY <2>1, PeerSendInv
  <2>2. CASE \E p \in log : Receive(p)
    BY <2>2, ReceiveInv
  <2>3. CASE UNCHANGED vars
    BY <2>3 DEF vars, IInv, TypeOK, LogOK, GotOK, DeliveredOK, AckExact,
                ReplayOK, ReplayExact, ControlOnce
  <2> QED
    BY <2>1, <2>2, <2>3 DEF Next
<1> QED
  BY <1>1, InitInv, PTL DEF Spec

(* Type correctness of the receiving session's state. *)
THEOREM TypeCorrect == Spec => []TypeOK
<1>1. IInv => TypeOK
  BY DEF IInv
<1> QED
  BY <1>1, InductiveInvariant, PTL

(* A reliable control packet is acted on at most once, for every window    *)
(* width and across any number of sequence-number wraps                    *)
(* (ReplayWindow::check_and_record under handle_udp_datagram).             *)
THEOREM ControlAtMostOnce == Spec => []ControlOnce
<1>1. IInv => ControlOnce
  BY DEF IInv
<1> QED
  BY <1>1, InductiveInvariant, PTL

(* The advertised selective ack is exact, for every bitmap width and       *)
(* across wraps: it never acknowledges a packet that did not arrive and    *)
(* misses none in its window (AckTracker::record, snapshot).               *)
THEOREM AdvertisementExact == Spec => []AckExact
<1>1. IInv => AckExact
  BY DEF IInv
<1> QED
  BY <1>1, InductiveInvariant, PTL

(* As long as the sequence numbers have not wrapped, no unseen control     *)
(* packet inside the window is refused, in whatever order the packets      *)
(* arrive (ReplayWindow::check_and_record).                                *)
THEOREM FreshAcceptedBeforeWrap == Spec => []FreshNotRefused
<1>1. IInv => FreshNotRefused
  <2> SUFFICES ASSUME IInv, last.n < SEQ_MOD, NEW p \in log,
                      p.n \in Control \ delivered, p.seq # 0,
                      \A d \in delivered : d - p.n < WINDOW
               PROVE  IsFresh(replay, p.seq)
    BY DEF FreshNotRefused
  <2>1. /\ p.seq = p.n /\ p.n \in Nat /\ replay.highest \in Nat
        /\ replay.bits \subseteq 0 .. WINDOW - 1
    BY SessionAssumption, SessionRxAssumption
       DEF IInv, LogOK, TypeOK, Packet, ReplayWindows, SeqNum
  <2>2. CASE p.n > replay.highest
    BY <2>1, <2>2 DEF IsFresh
  <2>3. CASE p.n <= replay.highest
    <3>1. replay.highest \in delivered
      BY <2>1, <2>3 DEF IInv, ReplayExact
    <3>2. replay.highest - p.n \notin replay.bits
      <4>1. replay.highest - (replay.highest - p.n) = p.n
        BY <2>1
      <4> QED
        BY <4>1 DEF IInv, ReplayExact
    <3> QED
      BY <2>1, <2>3, <3>1, <3>2 DEF IsFresh
  <2> QED
    BY <2>1, <2>2, <2>3
<1> QED
  BY <1>1, InductiveInvariant, PTL

=============================================================================
