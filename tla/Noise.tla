------------------------------- MODULE Noise -------------------------------
(***************************************************************************)
(* The Noise IK key exchange (crypto/noise.rs) with symbolic cryptography: *)
(* a hash is what was mixed into it, a Diffie-Hellman result the pair of   *)
(* keys it came from, and a ciphertext opens under exactly the key, nonce  *)
(* and associated data it was sealed with.  A key pair is named by its     *)
(* public key; who uses one as its own holds the secret.  An operation     *)
(* that fails gives Failed.                                                *)
(***************************************************************************)
EXTENDS Integers, Sequences

Failed == [failed |-> TRUE]

DH(a, b) == {a, b}

(* NoiseHandshake::new.  The cipher's key and the chaining key come out of *)
(* one derivation, so ck stands for both. *)
NewState(local, peer) ==
  [ck |-> <<>>, h |-> <<>>, n |-> 0, local |-> local, peer |-> peer, eph |-> <<>>]

MixHash(s, item) == [s EXCEPT !.h = Append(@, item)]

MixKey(s, ss) == [s EXCEPT !.ck = Append(@, ss), !.n = 0]

Seal(s, pt) == [key |-> s.ck, n |-> s.n, ad |-> s.h, pt |-> pt]

Opens(s, c) == c.key = s.ck /\ c.n = s.n /\ c.ad = s.h

(* encrypt_and_hash and decrypt_and_hash mix the same ciphertext in.  Its  *)
(* associated data is the hash it goes into. *)
Hashed(s, c) ==
  MixHash([s EXCEPT !.n = @ + 1], [key |-> c.key, n |-> c.n, pt |-> c.pt])

-----------------------------------------------------------------------------
(* Message 1: e, es, s, ss, and the offer if there is one. *)

WriteMessage1(s, e, offer) ==
  LET s1 == MixKey(MixHash(s, [pub |-> e]), DH(e, s.peer))
      cs == Seal(s1, s.local)
      s2 == MixKey(Hashed(s1, cs), DH(s.local, s.peer))
      co == Seal(s2, offer)
  IN  [msg   |-> [e |-> e, s |-> cs, offer |-> IF offer = <<>> THEN <<>> ELSE <<co>>],
       state |-> [(IF offer = <<>> THEN s2 ELSE Hashed(s2, co)) EXCEPT !.eph = e]]

ReadMessage1(s, m) ==
  LET s1 == MixKey(MixHash(s, [pub |-> m.e]), DH(s.local, m.e))
      s2 == MixKey(Hashed(s1, m.s), DH(s.local, m.s.pt))
  IN  IF ~Opens(s1, m.s) THEN Failed
      ELSE IF m.offer = <<>>
        THEN [static |-> m.s.pt, offer |-> <<>>,
              state |-> [s2 EXCEPT !.peer = m.s.pt, !.eph = m.e]]
      ELSE IF ~Opens(s2, m.offer[1]) THEN Failed
      ELSE [static |-> m.s.pt, offer |-> m.offer[1].pt,
            state |-> [Hashed(s2, m.offer[1]) EXCEPT !.peer = m.s.pt, !.eph = m.e]]

-----------------------------------------------------------------------------
(* Message 2: e, ee, se, and the payload.  Here eph is the initiator's. *)

WriteMessage2(s, e, payload) ==
  LET s1 == MixKey(MixKey(MixHash(s, [pub |-> e]), DH(e, s.eph)), DH(e, s.peer))
      c  == Seal(s1, payload)
  IN  [msg |-> [e |-> e, payload |-> c], state |-> Hashed(s1, c)]

ReadMessage2(s, m) ==
  LET s1 == MixKey(MixKey(MixHash(s, [pub |-> m.e]), DH(s.eph, m.e)), DH(s.local, m.e))
  IN  IF ~Opens(s1, m.payload) THEN Failed
      ELSE [payload |-> m.payload.pt, state |-> Hashed(s1, m.payload)]

(* split: one key per direction, bound to the cipher's key schedule. *)
Split(s, schedule) ==
  [i2r |-> [ck |-> s.ck, schedule |-> schedule, dir |-> "i2r"],
   r2i |-> [ck |-> s.ck, schedule |-> schedule, dir |-> "r2i"],
   hash |-> s.h]

=============================================================================
