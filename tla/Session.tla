------------------------------ MODULE Session ------------------------------
(***************************************************************************)
(* The pure bookkeeping of protocol/session.rs: sequence numbers of a      *)
(* fixed width, the replay window, the selective-ack tracker, and the      *)
(* sender's reading of the peer's last ack advertisement.                  *)
(*                                                                         *)
(* A bitmap is the set of its one-bits: bit b of ReplayWindow.bits stands  *)
(* for the sequence number highest - b, bit i of AckTracker.bitmap for     *)
(* anchor - 1 - i.                                                         *)
(***************************************************************************)
EXTENDS Integers

CONSTANTS SEQ_MOD,   \* 2^32: sequence numbers are u32 and wrap
          WINDOW,    \* width of ReplayWindow.bits (64)
          ACK_BITS   \* width of AckTracker.bitmap (32)

ASSUME SessionAssumption ==
  /\ WINDOW \in Nat \ {0}
  /\ ACK_BITS \in Nat \ {0}
  /\ SEQ_MOD \in Nat
  /\ 2 * ACK_BITS < SEQ_MOD

-----------------------------------------------------------------------------
(* u32 arithmetic.  The three operators are linear so that they can be     *)
(* reasoned about for every modulus.                                       *)

SeqNum == 0 .. SEQ_MOD - 1

(* A bug: no wrap. *)
PlainInc(s) == s + 1

WrappingInc(s) == IF s = SEQ_MOD - 1 THEN 0 ELSE s + 1

WrappingSub(a, b) == IF a >= b THEN a - b ELSE a - b + SEQ_MOD

(* d <= u32::MAX >> 1: the wrapped difference d points forward. *)
IsForward(d) == 2 * d < SEQ_MOD

(* bits << n in a word of the given width. *)
ShiftLeft(bits, n, width) == {b \in 0 .. width - 1 : b - n \in bits}

-----------------------------------------------------------------------------
(* ReplayWindow *)

NewReplayWindow == [highest |-> 0, bits |-> {}]

ReplayWindows == [highest : SeqNum, bits : SUBSET (0 .. WINDOW - 1)]

(* A bug: the window is one short. *)
IsFreshNarrow(rw, seq) ==
  /\ seq # 0
  /\ \/ seq > rw.highest
     \/ /\ rw.highest - seq < WINDOW - 1
        /\ rw.highest - seq \notin rw.bits

(* The value check_and_record returns.  No wrap handling: the comparison   *)
(* is on the raw u32, unlike AckTracker's.                                 *)
IsFresh(rw, seq) ==
  /\ seq # 0
  /\ \/ seq > rw.highest
     \/ /\ rw.highest - seq < WINDOW
        /\ rw.highest - seq \notin rw.bits

(* A bug: the old bits are not shifted. *)
RecordUnshifted(rw, seq) ==
  IF ~IsFresh(rw, seq) THEN rw
  ELSE IF seq > rw.highest
    THEN [highest |-> seq, bits |-> {0} \cup rw.bits]
    ELSE [rw EXCEPT !.bits = @ \cup {rw.highest - seq}]

(* The window check_and_record leaves behind. *)
CheckAndRecord(rw, seq) ==
  IF ~IsFresh(rw, seq) THEN rw
  ELSE IF seq > rw.highest
    THEN [highest |-> seq,
          bits    |-> {0} \cup ShiftLeft(rw.bits, seq - rw.highest, WINDOW)]
    ELSE [rw EXCEPT !.bits = @ \cup {rw.highest - seq}]

-----------------------------------------------------------------------------
(* AckTracker *)

NewAckTracker == [anchor |-> 0, bitmap |-> {}]

AckTrackers == [anchor : SeqNum, bitmap : SUBSET (0 .. ACK_BITS - 1)]

(* Bugs: the old anchor is forgotten, or always lands next to the new. *)
SlideForgetsAnchor(t, seq, advance) ==
  [anchor |-> seq, bitmap |-> ShiftLeft(t.bitmap, advance, ACK_BITS)]

SlideAnchorLow(t, seq, advance) ==
  [anchor |-> seq, bitmap |-> ShiftLeft(t.bitmap, advance, ACK_BITS) \cup {0}]

(* The tracker after the window slid forward: the old anchor, received by  *)
(* definition, lands at bit advance - 1 when that is still in the word.    *)
SlideForward(t, seq, advance) ==
  [anchor |-> seq,
   bitmap |-> ShiftLeft(t.bitmap, advance, ACK_BITS)
                \cup ({advance - 1} \cap (0 .. ACK_BITS - 1))]

AckRecord(t, seq) ==
  LET advance == WrappingSub(seq, t.anchor)
      back    == WrappingSub(t.anchor, seq)
  IN  IF seq = 0 THEN t
      ELSE IF t.anchor = 0 THEN [t EXCEPT !.anchor = seq]
      ELSE IF advance = 0 THEN t
      ELSE IF IsForward(advance) THEN SlideForward(t, seq, advance)
      ELSE IF back \in 1 .. ACK_BITS
        THEN [t EXCEPT !.bitmap = @ \cup {back - 1}]
        ELSE t

(* Session::peer_acked, on the last advertisement observe_acks stored. *)
PeerAcked(adv, s) ==
  /\ s # 0
  /\ adv.anchor # 0
  /\ \/ s = adv.anchor
     \/ WrappingSub(adv.anchor, s) - 1 \in adv.bitmap

=============================================================================
