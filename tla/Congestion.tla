----------------------------- MODULE Congestion -----------------------------
(***************************************************************************)
(* The byte window of congestion/tcp.rs.  A controller is a record of its  *)
(* cwnd, ssthresh and in_flight.  The pacer is time and is modelled where  *)
(* it is used; u64 saturation is never reached and is left out, the        *)
(* saturating subtractions are not.                                        *)
(***************************************************************************)
EXTENDS Integers

CONSTANTS MIN_CWND,          \* MIN_CWND_BYTES
          INITIAL_CWND,      \* INITIAL_CWND_BYTES
          INITIAL_SSTHRESH,  \* INITIAL_SSTHRESH_BYTES
          MTU                \* the device MTU, as set_mtu stored it

ASSUME CongestionAssumption ==
  /\ MIN_CWND \in Nat \ {0}
  /\ INITIAL_CWND \in Nat \ {0}
  /\ INITIAL_SSTHRESH \in Nat
  /\ MTU \in Nat \ {0}

SatSub(a, b) == IF a > b THEN a - b ELSE 0

AtLeast(a, b) == IF a < b THEN b ELSE a

AtMost(a, b) == IF a > b THEN b ELSE a

NewController ==
  [cwnd |-> INITIAL_CWND, ssthresh |-> INITIAL_SSTHRESH, in_flight |-> 0]

Controllers == [cwnd : Nat, ssthresh : Nat, in_flight : Nat]

SendBudget(c) == SatSub(c.cwnd, c.in_flight)

(* Reserve len bytes; the clamp to cwnd would lose bytes if the admission  *)
(* test had not been passed first.                                         *)
OnSendBytes(c, len) ==
  [c EXCEPT !.in_flight = AtMost(@ + AtLeast(len, 1), AtLeast(c.cwnd, 1))]

Release(c, bytes) == [c EXCEPT !.in_flight = SatSub(@, bytes)]

(* ack_common: retire, then slow start or congestion avoidance. *)
OnAckBytes(c, bytes) ==
  LET n == AtLeast(bytes, 1)
  IN  [c EXCEPT !.in_flight = SatSub(@, n),
                !.cwnd = IF c.cwnd < c.ssthresh
                           THEN @ + n
                           ELSE @ + ((n * MTU) \div AtLeast(@, 1))]

(* Multiplicative decrease by (1 - lost/total/2), at most 7/8 of cwnd is   *)
(* kept.  lost <= total, so the lower clamp of 1/2 never bites.            *)
OnLoss(c, lost, total) ==
  IF total = 0 \/ lost = 0 THEN c
  ELSE LET reduced == IF 4 * lost < total
                        THEN (c.cwnd * 7) \div 8
                        ELSE (c.cwnd * (2 * total - lost)) \div (2 * total)
           cut     == AtLeast(reduced, MIN_CWND)
       IN  [c EXCEPT !.ssthresh = cut, !.cwnd = cut]

=============================================================================
