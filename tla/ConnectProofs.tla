--------------------------- MODULE ConnectProofs ---------------------------
(***************************************************************************)
(* How a client gets a session, for all files and command lines of the two *)
(* ends, every number of attempts, connections and stop requests, and      *)
(* every loss, delay and repetition of the handshake's messages.           *)
(***************************************************************************)
EXTENDS Connect, SequenceTheorems, WellFoundedInduction, NaturalsInduction, TLAPS

-----------------------------------------------------------------------------
(* Least elements *)

LEMMA LeastNat ==
  ASSUME NEW T, T \subseteq Nat, T # {}
  PROVE  \E x \in T : \A y \in T : x <= y
<1> DEFINE Less == {ss \in Nat \X Nat : ss[1] < ss[2]}
<1>1. IsWellFoundedOn(Less, Nat)
  BY NatLessThanWellFounded DEF OpToRel
<1>2. PICK x \in T : \A y \in T : ~(<<y, x>> \in Less)
  <2> HIDE DEF Less
  <2> QED
    BY <1>1, WFMin
<1>3. ASSUME NEW y \in T PROVE x <= y
  <2>1. <<y, x>> \in Nat \X Nat
    OBVIOUS
  <2>2. ~(<<y, x>>[1] < <<y, x>>[2])
    BY <1>2, <2>1
  <2> QED
    BY <2>2
<1> QED
  BY <1>3

LEMMA MinTwo ==
  ASSUME NEW a, NEW b, a \in Int, b \in Int
  PROVE  Min({a, b}) = IF a <= b THEN a ELSE b
<1>1. CASE a <= b
  BY <1>1 DEF Min
<1>2. CASE ~(a <= b)
  BY <1>2 DEF Min
<1> QED
  BY <1>1, <1>2

-----------------------------------------------------------------------------
(* Powers of two *)

Powers(j, f) == f = [i \in 0 .. j |-> IF i = 0 THEN 1 ELSE 2 * f[i - 1]]

LEMMA PowersExist ==
  ASSUME NEW j \in Nat
  PROVE  \E f : Powers(j, f)
<1> SUFFICES ASSUME ~\E f : Powers(j, f) PROVE FALSE
  OBVIOUS
<1> DEFINE T == {i \in Nat : ~\E f : Powers(i, f)}
<1>1. T \subseteq Nat /\ T # {}
  OBVIOUS
<1>2. PICK x \in T : \A y \in T : x <= y
  <2> HIDE DEF T
  <2> QED
    BY <1>1, LeastNat
<1>3. x # 0
  <2>1. Powers(0, [i \in 0 .. 0 |-> 1])
    BY DEF Powers
  <2> QED
    BY <1>2, <2>1
<1>4. x - 1 \in Nat /\ x - 1 \notin T
  BY <1>2, <1>3
<1>5. PICK f : Powers(x - 1, f)
  BY <1>4
<1> DEFINE g == [i \in 0 .. x |-> IF i = x THEN 2 * f[x - 1] ELSE f[i]]
<1>6. ASSUME NEW i \in 0 .. x PROVE g[i] = IF i = 0 THEN 1 ELSE 2 * g[i - 1]
  <2>1. CASE i = x
    BY <1>2, <1>3, <2>1
  <2>2. CASE i # x
    <3>1. i \in 0 .. x - 1
      BY <1>2, <2>2
    <3>2. f[i] = IF i = 0 THEN 1 ELSE 2 * f[i - 1]
      BY <1>5, <3>1 DEF Powers
    <3> QED
      BY <1>2, <2>2, <3>1, <3>2
  <2> QED
    BY <2>1, <2>2
<1>7. Powers(x, g)
  <2>1. g = [i \in 0 .. x |-> g[i]]
    OBVIOUS
  <2> HIDE DEF g
  <2> QED
    BY <1>6, <2>1 DEF Powers
<1> QED
  BY <1>2, <1>7

LEMMA PowersAgree ==
  ASSUME NEW j \in Nat, NEW k \in Nat, NEW f, NEW g, Powers(j, f), Powers(k, g),
         NEW i \in Nat, i <= j, i <= k
  PROVE  f[i] = g[i]
<1> SUFFICES ASSUME f[i] # g[i] PROVE FALSE
  OBVIOUS
<1> DEFINE T == {h \in 0 .. i : f[h] # g[h]}
<1>1. T \subseteq Nat /\ T # {}
  OBVIOUS
<1>2. PICK x \in T : \A y \in T : x <= y
  <2> HIDE DEF T
  <2> QED
    BY <1>1, LeastNat
<1>3. /\ x \in Nat /\ x \in 0 .. j /\ x \in 0 .. k
      /\ f[x] = IF x = 0 THEN 1 ELSE 2 * f[x - 1]
      /\ g[x] = IF x = 0 THEN 1 ELSE 2 * g[x - 1]
  BY <1>2 DEF Powers
<1>4. x # 0 => f[x - 1] = g[x - 1]
  BY <1>2, <1>3
<1> QED
  BY <1>2, <1>3, <1>4

LEMMA PowerLaw ==
  /\ PowerOfTwo[0] = 1
  /\ \A n \in Nat : PowerOfTwo[n + 1] = 2 * PowerOfTwo[n]
<1> DEFINE G(n) == CHOOSE f : Powers(n, f)
           F == [n \in Nat |-> G(n)[n]]
<1>1. ASSUME NEW n \in Nat PROVE Powers(n, G(n))
  BY PowersExist
<1>2. ASSUME NEW n \in Nat PROVE F[n] = IF n = 0 THEN 1 ELSE 2 * F[n - 1]
  <2>1. G(n)[n] = IF n = 0 THEN 1 ELSE 2 * G(n)[n - 1]
    <3> HIDE DEF G
    <3> QED
      BY <1>1 DEF Powers
  <2>2. ASSUME n # 0 PROVE G(n)[n - 1] = G(n - 1)[n - 1]
    <3>1. n - 1 \in Nat /\ n - 1 <= n /\ n - 1 <= n - 1
      BY <2>2
    <3>2. Powers(n, G(n)) /\ Powers(n - 1, G(n - 1))
      BY <1>1, <3>1
    <3> HIDE DEF G
    <3> QED
      BY <3>1, <3>2, PowersAgree
  <2>3. n # 0 => n - 1 \in Nat
    OBVIOUS
  <2> HIDE DEF G
  <2> QED
    BY <2>1, <2>2, <2>3
<1>3. F = [n \in Nat |-> IF n = 0 THEN 1 ELSE 2 * F[n - 1]]
  <2>1. F = [n \in Nat |-> F[n]]
    OBVIOUS
  <2> HIDE DEF F
  <2> QED
    BY <1>2, <2>1
<1> DEFINE P == PowerOfTwo
<1>4. P = [n \in Nat |-> IF n = 0 THEN 1 ELSE 2 * P[n - 1]]
  <2> HIDE DEF F
  <2> QED
    BY <1>3 DEF PowerOfTwo
<1> HIDE DEF P
<1>5. P[0] = 1
  BY <1>4
<1>6. ASSUME NEW n \in Nat PROVE P[n + 1] = 2 * P[n]
  <2>1. n + 1 \in Nat /\ n + 1 # 0 /\ (n + 1) - 1 = n
    OBVIOUS
  <2> QED
    BY <1>4, <2>1
<1> QED
  BY <1>5, <1>6 DEF P

LEMMA PowerNat ==
  ASSUME NEW n \in Nat
  PROVE  PowerOfTwo[n] \in Nat
<1> SUFFICES ASSUME PowerOfTwo[n] \notin Nat PROVE FALSE
  OBVIOUS
<1> DEFINE T == {i \in Nat : PowerOfTwo[i] \notin Nat}
<1>1. T \subseteq Nat /\ T # {}
  OBVIOUS
<1>2. PICK x \in T : \A y \in T : x <= y
  <2> HIDE DEF T
  <2> QED
    BY <1>1, LeastNat
<1>3. x \in Nat /\ x # 0
  BY <1>2, PowerLaw
<1>4. x - 1 \in Nat /\ x - 1 \notin T /\ (x - 1) + 1 = x
  BY <1>2, <1>3
<1>5. PowerOfTwo[(x - 1) + 1] = 2 * PowerOfTwo[x - 1]
  BY <1>4, PowerLaw
<1>6. PowerOfTwo[x - 1] \in Nat
  BY <1>4
<1>7. PowerOfTwo[x] \in Nat
  BY <1>4, <1>5, <1>6
<1> QED
  BY <1>2, <1>7

-----------------------------------------------------------------------------
(* The backoff *)

(* The delay after n failures in a row. *)
Delay(n) == Min({RECONNECT_INITIAL_BACKOFF * PowerOfTwo[n], RECONNECT_MAX_BACKOFF})

Limited(d) == IF d <= RECONNECT_MAX_BACKOFF THEN d ELSE RECONNECT_MAX_BACKOFF

LEMMA MaxBackoff ==
  /\ RECONNECT_MAX_BACKOFF \in Nat /\ RECONNECT_INITIAL_BACKOFF \in Nat
  /\ RECONNECT_INITIAL_BACKOFF <= RECONNECT_MAX_BACKOFF
BY ConnectAssumption

LEMMA DelayIs ==
  ASSUME NEW n \in Nat
  PROVE  /\ Delay(n) = Limited(RECONNECT_INITIAL_BACKOFF * PowerOfTwo[n])
         /\ Delay(n) \in Nat
<1> DEFINE d == RECONNECT_INITIAL_BACKOFF * PowerOfTwo[n]
<1>1. d \in Nat
  BY PowerNat, MaxBackoff
<1>2. Delay(n) = Min({d, RECONNECT_MAX_BACKOFF})
  BY DEF Delay
<1> HIDE DEF d
<1>3. Delay(n) = Limited(d)
  BY <1>1, <1>2, MinTwo, MaxBackoff DEF Limited
<1>4. Limited(d) \in Nat
  BY <1>1, MaxBackoff DEF Limited
<1> QED
  BY <1>3, <1>4 DEF d

LEMMA DelayInitial == Delay(0) = RECONNECT_INITIAL_BACKOFF
<1>1. Delay(0) = Limited(RECONNECT_INITIAL_BACKOFF * PowerOfTwo[0])
  BY DelayIs
<1>2. RECONNECT_INITIAL_BACKOFF * PowerOfTwo[0] = RECONNECT_INITIAL_BACKOFF
  BY PowerLaw, MaxBackoff
<1> QED
  BY <1>1, <1>2, MaxBackoff DEF Limited

LEMMA DoubledIs ==
  ASSUME NEW d \in Nat
  PROVE  Doubled(d) = Limited(d * 2) /\ Doubled(d) \in Nat
<1> DEFINE e == d * 2
<1>1. e \in Nat /\ Doubled(d) = Min({e, RECONNECT_MAX_BACKOFF})
  BY DEF Doubled
<1> HIDE DEF e
<1>2. Doubled(d) = Limited(e)
  BY <1>1, MinTwo, MaxBackoff DEF Limited
<1>3. Limited(e) \in Nat
  BY <1>1, MaxBackoff DEF Limited
<1> QED
  BY <1>2, <1>3 DEF e

LEMMA DelayDoubles ==
  ASSUME NEW n \in Nat
  PROVE  Doubled(Delay(n)) = Delay(n + 1)
<1> DEFINE d == RECONNECT_INITIAL_BACKOFF * PowerOfTwo[n]
           e == RECONNECT_INITIAL_BACKOFF * PowerOfTwo[n + 1]
<1>1. d \in Nat /\ n + 1 \in Nat
  BY PowerNat, MaxBackoff
<1>2. e = 2 * d
  <2>1. PowerOfTwo[n + 1] = 2 * PowerOfTwo[n]
    BY PowerLaw
  <2> DEFINE r == PowerOfTwo[n]
             s == PowerOfTwo[n + 1]
             k == RECONNECT_INITIAL_BACKOFF
  <2>2. r \in Nat /\ k \in Nat
    BY PowerNat, MaxBackoff
  <2>3. s = 2 * r
    BY <2>1
  <2> HIDE DEF r, s, k
  <2>4. k * s = 2 * (k * r)
    BY <2>2, <2>3
  <2> QED
    BY <2>4 DEF r, s, k
<1>3. Delay(n) = Limited(d) /\ Delay(n) \in Nat
  BY DelayIs
<1>4. Delay(n + 1) = Limited(e)
  BY <1>1, DelayIs
<1>5. Doubled(Delay(n)) = Limited(Delay(n) * 2)
  BY <1>3, DoubledIs
<1> HIDE DEF d, e
<1>6. Limited(Limited(d) * 2) = Limited(2 * d)
  BY <1>1, MaxBackoff DEF Limited
<1> QED
  BY <1>2, <1>3, <1>4, <1>5, <1>6

(* The delay is that of the failures so far; while run_client sleeps it    *)
(* has yet to be doubled for the last. *)
Paced ==
  /\ failures \in Nat
  /\ pc = "Sleep" => failures # 0 /\ backoff = Delay(failures - 1)
  /\ pc \notin {"Sleep", "Exited"} => backoff = Delay(failures)

LEMMA FinalizeIs ==
  ASSUME NEW r, Finalize(r) # Failed
  PROVE  /\ r # Failed /\ Check(ReadSelection(r.payload))
         /\ Finalize(r) = ClientSession(ReadSelection(r.payload),
                            Split(r.state, Schedule(ReadSelection(r.payload))))
         /\ Finalize(r) # NoSession
<1>1. /\ r # Failed /\ Check(ReadSelection(r.payload))
      /\ Finalize(r) = ClientSession(ReadSelection(r.payload),
                            Split(r.state, Schedule(ReadSelection(r.payload))))
  BY DEF Finalize, Checked
<1>2. \A sel, keys : ClientSession(sel, keys) # NoSession
  <2> SUFFICES ASSUME NEW sel, NEW keys PROVE ClientSession(sel, keys) # NoSession
    OBVIOUS
  <2>1. "send" \in DOMAIN ClientSession(sel, keys)
    BY DEF ClientSession, SessionOf
  <2>2. "send" \notin DOMAIN NoSession
    BY DEF NoSession
  <2> QED
    BY <2>1, <2>2
<1> QED
  BY <1>1, <1>2

TInv == TypeOK /\ Paced

LEMMA InitTInv ==
  ASSUME Init
  PROVE  TInv
<1>1. TypeOK
  BY MaxBackoff, ConnectAssumption DEF Init, TypeOK
<1>2. Paced
  BY DelayInitial DEF Init, Paced
<1> QED
  BY <1>1, <1>2 DEF TInv

LEMMA DisconnectedTInv ==
  ASSUME TInv, NEW why, Disconnected(why), pc \in {"Top", "Handshake"},
         carrier' \in 0 .. MaxCarriers, UNCHANGED <<stop, seen, tseen, attempt, losses, backoff, est>>
  PROVE  TInv'
<1>1. /\ failures' = failures + 1 /\ failures \in Nat /\ backoff = Delay(failures)
      /\ (pc' = "Sleep" /\ exit' = exit) \/ (pc' = "Exited" /\ exit' = "Err")
  <2>1. failures' = failures + 1 /\ failures \in Nat /\ backoff = Delay(failures)
    BY DEF Disconnected, TInv, Paced
  <2>2. (pc' = "Sleep" /\ exit' = exit) \/ (pc' = "Exited" /\ exit' = "Err")
    BY DEF Disconnected, Leave
  <2> QED
    BY <2>1, <2>2
<1>2. failures' \in Nat /\ failures' # 0 /\ failures' - 1 = failures
  BY <1>1
<1>3. TypeOK'
  BY <1>1 DEF TInv, TypeOK
<1>4. Paced'
  BY <1>1, <1>2 DEF Paced
<1> QED
  BY <1>3, <1>4 DEF TInv

LEMMA NextTInv ==
  ASSUME TInv, [Next]_vars
  PROVE  TInv'
<1> USE DEF confVars, stopVars, netVars, hsVars
<1>1. TypeOK /\ Paced
  BY DEF TInv
<1>2. CASE Start
  BY <1>1, <1>2 DEF Start, TypeOK, Paced, TInv
<1>3. CASE StopAtTop
  BY <1>1, <1>3 DEF StopAtTop, Leave, TypeOK, Paced, TInv
<1>4. CASE OpenCarrier
  BY <1>1, <1>4, ConnectAssumption DEF OpenCarrier, TypeOK, Paced, TInv
<1>5. CASE StopInHandshake
  BY <1>1, <1>5 DEF StopInHandshake, Changed, Leave, TypeOK, Paced, TInv
<1>6. CASE SendMessage1
  BY <1>1, <1>6, ConnectAssumption DEF SendMessage1, InHandshake, TypeOK, Paced, TInv
<1>7. CASE GiveUp
  <2>1. carrier' \in 0 .. MaxCarriers
    BY <1>1, <1>7 DEF GiveUp, TypeOK
  <2>2. Disconnected("timeout") /\ pc \in {"Top", "Handshake"}
        /\ UNCHANGED <<stop, seen, tseen, attempt, losses, backoff, est>>
    BY <1>7 DEF GiveUp, InHandshake, HandshakeFails
  <2> QED
    BY <2>1, <2>2, DisconnectedTInv
<1>8. ASSUME NEW w \in s2c, Answer(w) PROVE TInv'
  <2> DEFINE e == IF w.wrapping = Wrapping(cc) THEN Finalize(ReadMessage2(hs, w.msg)) ELSE Failed
  <2>1. CASE e = Failed
    <3>1. UNCHANGED <<pc, est, backoff, failures, counters, stop, carrier, attempt, losses, exit, seen, tseen>>
      BY <1>8, <2>1 DEF Answer
    <3> QED
      BY <1>1, <3>1 DEF TypeOK, Paced, TInv
  <2>2. CASE e # Failed
    <3>1. /\ pc' = "Established" /\ est' = e
          /\ backoff' = RECONNECT_INITIAL_BACKOFF /\ failures' = 0
          /\ pc = "Handshake"
          /\ UNCHANGED <<stop, carrier, attempt, losses, exit, seen, tseen>>
      BY <1>8, <2>2 DEF Answer, Awaiting, InHandshake
    <3>2. e # NoSession
      BY <2>2, FinalizeIs
    <3> HIDE DEF e
    <3>3. TypeOK'
      BY <1>1, <3>1, <3>2, MaxBackoff DEF TypeOK
    <3>4. Paced'
      BY <3>1, DelayInitial DEF Paced
    <3> QED
      BY <3>3, <3>4 DEF TInv
  <2> QED
    BY <2>1, <2>2
<1>9. CASE AttemptLost
  BY <1>1, <1>9 DEF AttemptLost, TypeOK, Paced, TInv
<1>10. CASE SleepEnds
  <2>1. /\ pc \in {"Sleep", "Pause"} /\ pc' = "Top"
        /\ backoff' = IF pc = "Sleep" THEN Doubled(backoff) ELSE backoff
        /\ UNCHANGED <<stop, carrier, attempt, losses, exit, seen, tseen, failures, est>>
    BY <1>10 DEF SleepEnds
  <2>2. backoff' = Delay(failures)
    <3>1. CASE pc = "Sleep"
      <4>1. failures - 1 \in Nat /\ (failures - 1) + 1 = failures
            /\ backoff = Delay(failures - 1)
        BY <1>1, <3>1 DEF Paced
      <4> QED
        BY <2>1, <3>1, <4>1, DelayDoubles
    <3>2. CASE pc = "Pause"
      BY <1>1, <2>1, <3>2 DEF Paced
    <3> QED
      BY <2>1, <3>1, <3>2
  <2>3. backoff' \in Nat
    BY <1>1, <2>2, DelayIs DEF Paced
  <2> QED
    BY <1>1, <2>1, <2>2, <2>3 DEF TypeOK, Paced, TInv
<1>11. CASE StopInSleep
  BY <1>1, <1>11 DEF StopInSleep, Leave, TypeOK, Paced, TInv
<1>12. CASE StartTunnel
  BY <1>1, <1>12 DEF StartTunnel, TypeOK, Paced, TInv
<1>13. CASE TunnelStops
  BY <1>1, <1>13 DEF TunnelStops, Ended, Leave, TypeOK, Paced, TInv
<1>14. CASE CarrierFails
  <2>1. carrier' \in 0 .. MaxCarriers
    <3>1. carrier < MaxCarriers /\ carrier' = carrier + 1
      BY <1>14 DEF CarrierFails
    <3>2. carrier \in 0 .. MaxCarriers /\ MaxCarriers \in Nat
      BY <1>1, ConnectAssumption DEF TypeOK
    <3> QED
      BY <3>1, <3>2
  <2>2. Disconnected("bind failed") /\ pc \in {"Top", "Handshake"}
        /\ UNCHANGED <<stop, seen, tseen, attempt, losses, backoff, est>>
    BY <1>14 DEF CarrierFails
  <2> QED
    BY <2>1, <2>2, DisconnectedTInv
<1>15. CASE SendFails
  <2>1. carrier' \in 0 .. MaxCarriers
    BY <1>1, <1>15 DEF SendFails, TypeOK
  <2>2. Disconnected("io") /\ pc \in {"Top", "Handshake"}
        /\ UNCHANGED <<stop, seen, tseen, attempt, losses, backoff, est>>
    BY <1>15 DEF SendFails, InHandshake, HandshakeFails
  <2> QED
    BY <2>1, <2>2, DisconnectedTInv
<1>16. CASE TunnelEnds
  BY <1>1, <1>16 DEF TunnelEnds, Ended, Leave, TypeOK, Paced, TInv
<1>17. ASSUME NEW w \in c2s, RespondMessage1(w) PROVE TInv'
  BY <1>1, <1>17 DEF RespondMessage1, TypeOK, Paced, TInv
<1>18. CASE IpcStop
  BY <1>1, <1>18, ConnectAssumption DEF IpcStop, Send, TypeOK, Paced, TInv
<1>19. CASE CtrlC
  BY <1>1, <1>19, ConnectAssumption DEF CtrlC, Send, TypeOK, Paced, TInv
<1>20. CASE UNCHANGED vars
  BY <1>1, <1>20 DEF vars, TypeOK, Paced, TInv
<1>21. CASE Lose
  <2>1. UNCHANGED <<stop, seen, tseen, carrier, attempt, backoff, est, pc, exit, failures>>
    BY <1>21 DEF Lose
  <2>2. losses' \in 0 .. HANDSHAKE_MAX_ATTEMPTS - 1
    BY <1>1, <1>21, ConnectAssumption DEF Lose, TypeOK
  <2> QED
    BY <1>1, <2>1, <2>2 DEF TypeOK, Paced, TInv
<1> QED
  BY <1>2, <1>3, <1>4, <1>5, <1>6, <1>7, <1>8, <1>9, <1>10, <1>11, <1>12, <1>13, <1>14,
     <1>15, <1>16, <1>17, <1>18, <1>19, <1>20, <1>21 DEF Next, Client, Faults

LEMMA AlwaysTInv == Spec => []TInv
<1>1. Init => TInv
  BY InitTInv
<1>2. TInv /\ [Next]_vars => TInv'
  BY NextTInv
<1> QED
  BY <1>1, <1>2, PTL DEF Spec

(* The delay of run_client doubles from its initial value with every       *)
(* failure since the last session and stops at its limit, over any mixture *)
(* of failures, sessions and stops. *)
THEOREM BackoffIsExponential == Spec => []BackoffLaw
<1>1. TInv => BackoffLaw
  BY DEF TInv, Paced, BackoffLaw, Delay
<1> QED
  BY <1>1, AlwaysTInv, PTL

-----------------------------------------------------------------------------
(* The key exchange *)

IsState(s) ==
  s = [ck |-> s.ck, h |-> s.h, n |-> s.n, local |-> s.local, peer |-> s.peer,
       eph |-> s.eph]

(* What a ciphertext leaves in the hash. *)
Item(c) == [key |-> c.key, n |-> c.n, pt |-> c.pt]

LEMMA MixHashIs ==
  ASSUME NEW s, IsState(s), NEW item
  PROVE  /\ IsState(MixHash(s, item))
         /\ MixHash(s, item).h = Append(s.h, item) /\ MixHash(s, item).ck = s.ck
<1> DEFINE x == Append(s.h, item)
           t == MixHash(s, item)
<1>1. t = [s EXCEPT !.h = x]
  BY DEF MixHash
<1> HIDE DEF x, t
<1>2. t = [ck |-> s.ck, h |-> x, n |-> s.n, local |-> s.local, peer |-> s.peer, eph |-> s.eph]
  BY <1>1 DEF IsState
<1>3. IsState(t) /\ t.h = x /\ t.ck = s.ck
  BY <1>2 DEF IsState
<1> QED
  BY <1>3 DEF x, t

LEMMA MixKeyIs ==
  ASSUME NEW s, IsState(s), NEW ss
  PROVE  IsState(MixKey(s, ss))
<1> DEFINE x == Append(s.ck, ss)
           t == MixKey(s, ss)
<1>1. t = [s EXCEPT !.ck = x, !.n = 0]
  BY DEF MixKey
<1> HIDE DEF x, t
<1>2. t = [ck |-> x, h |-> s.h, n |-> 0, local |-> s.local, peer |-> s.peer, eph |-> s.eph]
  BY <1>1 DEF IsState
<1> QED
  BY <1>2 DEF IsState, t

LEMMA HashedIs ==
  ASSUME NEW s, IsState(s), NEW c
  PROVE  /\ IsState(Hashed(s, c))
         /\ Hashed(s, c).h = Append(s.h, Item(c)) /\ Hashed(s, c).ck = s.ck
<1> DEFINE t == [s EXCEPT !.n = @ + 1]
<1>1. IsState(t) /\ t.h = s.h /\ t.ck = s.ck
  BY DEF IsState
<1>2. Hashed(s, c) = MixHash(t, Item(c))
  BY DEF Hashed, Item
<1> HIDE DEF t
<1> QED
  BY <1>1, <1>2, MixHashIs

LEMMA NewStateIs ==
  ASSUME NEW a, NEW b
  PROVE  IsState(NewState(a, b))
BY DEF NewState, IsState

LEMMA WriteMessage1Is ==
  ASSUME NEW s, IsState(s), NEW e, NEW offer
  PROVE  LET w == WriteMessage1(s, e, offer)
         IN  /\ IsState(w.state)
             /\ offer = <<>> => w.msg.offer = <<>>
             /\ offer # <<>> => w.msg.offer # <<>> /\ w.msg.offer[1].pt = offer
<1> DEFINE w  == WriteMessage1(s, e, offer)
           s1 == MixKey(MixHash(s, [pub |-> e]), DH(e, s.peer))
           cs == Seal(s1, s.local)
           s2 == MixKey(Hashed(s1, cs), DH(s.local, s.peer))
           co == Seal(s2, offer)
           s3 == IF offer = <<>> THEN s2 ELSE Hashed(s2, co)
<1>1. IsState(s1)
  BY MixHashIs, MixKeyIs
<1>2. IsState(s2)
  <2> HIDE DEF s1, cs
  <2> QED
    BY <1>1, HashedIs, MixKeyIs
<1>3. IsState(s3)
  <2> HIDE DEF s2, co
  <2> QED
    BY <1>2, HashedIs
<1>4. w = [msg |-> [e |-> e, s |-> cs, offer |-> IF offer = <<>> THEN <<>> ELSE <<co>>],
           state |-> [s3 EXCEPT !.eph = e]]
  BY DEF WriteMessage1
<1>5. co.pt = offer
  BY DEF Seal
<1> HIDE DEF s3, co, cs
<1>6. IsState([s3 EXCEPT !.eph = e])
  BY <1>3 DEF IsState
<1> QED
  BY <1>4, <1>5, <1>6

LEMMA ReadMessage1Is ==
  ASSUME NEW s, IsState(s), NEW msg, ReadMessage1(s, msg) # Failed
  PROVE  LET r == ReadMessage1(s, msg)
         IN  /\ IsState(r.state)
             /\ r.offer = IF msg.offer = <<>> THEN <<>> ELSE msg.offer[1].pt
<1> DEFINE r  == ReadMessage1(s, msg)
           s1 == MixKey(MixHash(s, [pub |-> msg.e]), DH(s.local, msg.e))
           s2 == MixKey(Hashed(s1, msg.s), DH(s.local, msg.s.pt))
           s3 == IF msg.offer = <<>> THEN s2 ELSE Hashed(s2, msg.offer[1])
           s4 == [s3 EXCEPT !.peer = msg.s.pt, !.eph = msg.e]
<1>1. IsState(s1)
  BY MixHashIs, MixKeyIs
<1>2. IsState(s2)
  <2> HIDE DEF s1
  <2> QED
    BY <1>1, HashedIs, MixKeyIs
<1>3. IsState(s3)
  <2> HIDE DEF s2
  <2> QED
    BY <1>2, HashedIs
<1>4. IsState(s4)
  <2> DEFINE x == msg.s.pt
             y == msg.e
  <2> HIDE DEF s3, x, y
  <2>1. s4 = [s3 EXCEPT !.peer = x, !.eph = y]
    BY DEF s4, x, y
  <2> HIDE DEF s4
  <2>2. s4 = [ck |-> s3.ck, h |-> s3.h, n |-> s3.n, local |-> s3.local, peer |-> x, eph |-> y]
    BY <1>3, <2>1 DEF IsState
  <2> QED
    BY <2>2 DEF IsState
<1>5. r = [static |-> msg.s.pt, offer |-> IF msg.offer = <<>> THEN <<>> ELSE msg.offer[1].pt,
           state |-> s4]
  BY DEF ReadMessage1
<1> HIDE DEF s4
<1> QED
  BY <1>4, <1>5

(* The hash and the keys of an end that wrote or opened the payload c. *)
Follows(state, c) == state.ck = c.key /\ state.h = Append(c.ad, Item(c))

LEMMA WriteMessage2Is ==
  ASSUME NEW s, IsState(s), NEW e, NEW payload
  PROVE  LET w == WriteMessage2(s, e, payload)
         IN  w.msg.payload.pt = payload /\ Follows(w.state, w.msg.payload)
<1> DEFINE s1 == MixKey(MixKey(MixHash(s, [pub |-> e]), DH(e, s.eph)), DH(e, s.peer))
           c  == Seal(s1, payload)
<1>1. IsState(s1)
  BY MixHashIs, MixKeyIs
<1>2. WriteMessage2(s, e, payload) = [msg |-> [e |-> e, payload |-> c], state |-> Hashed(s1, c)]
  BY DEF WriteMessage2
<1>3. c.key = s1.ck /\ c.ad = s1.h /\ c.pt = payload
  BY DEF Seal
<1> HIDE DEF s1, c
<1>4. Follows(Hashed(s1, c), c)
  BY <1>1, <1>3, HashedIs DEF Follows
<1> QED
  BY <1>2, <1>3, <1>4

LEMMA ReadMessage2Is ==
  ASSUME NEW s, IsState(s), NEW msg, ReadMessage2(s, msg) # Failed
  PROVE  LET r == ReadMessage2(s, msg)
         IN  r.payload = msg.payload.pt /\ Follows(r.state, msg.payload)
<1> DEFINE s1 == MixKey(MixKey(MixHash(s, [pub |-> msg.e]), DH(s.eph, msg.e)), DH(s.local, msg.e))
           c == msg.payload
<1>1. IsState(s1)
  BY MixHashIs, MixKeyIs
<1>2. Opens(s1, c) /\ ReadMessage2(s, msg) = [payload |-> c.pt, state |-> Hashed(s1, c)]
  BY DEF ReadMessage2
<1>3. c.key = s1.ck /\ c.ad = s1.h
  BY <1>2 DEF Opens
<1> HIDE DEF s1, c
<1>4. Follows(Hashed(s1, c), c)
  BY <1>1, <1>3, HashedIs DEF Follows
<1> QED
  BY <1>2, <1>4 DEF c

-----------------------------------------------------------------------------
(* What the ends make of each other's messages *)

(* The responder's selection, its payload, and the session it makes with   *)
(* the payload sealed as c. *)
Chosen == Selects(OfferBytes)

Reply == Payload(Chosen)

SessionFor(c) ==
  SessionOf(sc, Chosen, Append(c.ad, Item(c)),
            [ck |-> c.key, schedule |-> Schedule(Chosen), dir |-> "r2i"],
            [ck |-> c.key, schedule |-> Schedule(Chosen), dir |-> "i2r"])

Asked(msg) ==
  IF OfferBytes = <<>> THEN msg.offer = <<>>
  ELSE msg.offer # <<>> /\ msg.offer[1].pt = OfferBytes

LEMMA RespondIs ==
  ASSUME NEW w, Asked(w.msg), Respond(w) # Failed
  PROVE  /\ Reached /\ Chosen # Malformed
         /\ Respond(w).msg.payload.pt = Reply
         /\ Respond(w).session = SessionFor(Respond(w).msg.payload)
<1> DEFINE r == ReadMessage1(NewState(Static("server"), <<>>), w.msg)
           e == <<"server", Cardinality(sessions) + 1>>
           o == WriteMessage2(r.state, e, Reply)
<1>1. Reached /\ Respond(w) = Authorized(r)
  BY DEF Respond
<1>2. r # Failed /\ Authorized(r) = Message2(r, Selects(r.offer))
  BY <1>1 DEF Authorized
<1>3. IsState(r.state) /\ r.offer = IF w.msg.offer = <<>> THEN <<>> ELSE w.msg.offer[1].pt
  BY <1>2, NewStateIs, ReadMessage1Is
<1> HIDE DEF r
<1>4. r.offer = OfferBytes
  BY <1>3 DEF Asked
<1>5. Respond(w) = Message2(r, Chosen)
  BY <1>1, <1>2, <1>4 DEF Chosen
<1>6. Chosen # Malformed /\ Respond(w) = Sealed2(Chosen, o)
  BY <1>5 DEF Message2, Reply
<1>7. o.msg.payload.pt = Reply /\ Follows(o.state, o.msg.payload)
  BY <1>3, WriteMessage2Is
<1> HIDE DEF o
<1>8. Respond(w) = Answered(Chosen, o.msg, Split(o.state, Schedule(Chosen)))
  BY <1>6 DEF Sealed2
<1>9. /\ Respond(w).msg = o.msg
      /\ Respond(w).session = SessionOf(sc, Chosen, o.state.h,
            [ck |-> o.state.ck, schedule |-> Schedule(Chosen), dir |-> "r2i"],
            [ck |-> o.state.ck, schedule |-> Schedule(Chosen), dir |-> "i2r"])
  BY <1>8 DEF Answered, Split
<1> QED
  BY <1>1, <1>6, <1>7, <1>9 DEF SessionFor, Follows

(* The client's session when it opens the payload c of such an answer. *)
LEMMA FinalizedIs ==
  ASSUME NEW msg, IsState(hs), msg.payload.pt = Reply, ReadSelection(Reply) = Chosen,
         Finalize(ReadMessage2(hs, msg)) # Failed
  PROVE  LET c == msg.payload
         IN  Finalize(ReadMessage2(hs, msg)) =
               SessionOf(cc, Chosen, Append(c.ad, Item(c)),
                 [ck |-> c.key, schedule |-> Schedule(Chosen), dir |-> "i2r"],
                 [ck |-> c.key, schedule |-> Schedule(Chosen), dir |-> "r2i"])
<1> DEFINE r == ReadMessage2(hs, msg)
           c == msg.payload
<1>1. r # Failed /\ Finalize(r) = ClientSession(ReadSelection(r.payload),
                                    Split(r.state, Schedule(ReadSelection(r.payload))))
  BY FinalizeIs
<1>2. r.payload = Reply /\ Follows(r.state, c)
  BY <1>1, ReadMessage2Is
<1> HIDE DEF r, c
<1>3. Finalize(r) = ClientSession(Chosen, Split(r.state, Schedule(Chosen)))
  BY <1>1, <1>2
<1>4. Finalize(r) = SessionOf(cc, Chosen, r.state.h,
                 [ck |-> r.state.ck, schedule |-> Schedule(Chosen), dir |-> "i2r"],
                 [ck |-> r.state.ck, schedule |-> Schedule(Chosen), dir |-> "r2i"])
  BY <1>3 DEF ClientSession, Split
<1> QED
  BY <1>2, <1>4 DEF Follows, r, c

(* Two sessions that agree. *)
Crossed(s, t) ==
  /\ s.hash = t.hash
  /\ s.send = t.recv /\ s.recv = t.send
  /\ s.profile = t.profile

LEMMA CrossedOver ==
  ASSUME NEW msg, IsState(hs), msg.payload.pt = Reply, ReadSelection(Reply) = Chosen,
         Finalize(ReadMessage2(hs, msg)) # Failed, Wrapping(cc) = Wrapping(sc)
  PROVE  /\ Crossed(SessionFor(msg.payload), Finalize(ReadMessage2(hs, msg)))
         /\ Finalize(ReadMessage2(hs, msg)).selection = Chosen
<1> DEFINE c == msg.payload
           t == Finalize(ReadMessage2(hs, msg))
           a == [ck |-> c.key, schedule |-> Schedule(Chosen), dir |-> "i2r"]
           b == [ck |-> c.key, schedule |-> Schedule(Chosen), dir |-> "r2i"]
           h == Append(c.ad, Item(c))
<1>1. t = SessionOf(cc, Chosen, h, a, b)
  BY FinalizedIs
<1>2. SessionFor(c) = SessionOf(sc, Chosen, h, b, a)
  BY DEF SessionFor
<1>3. HandshakeEnvelope(cc) = HandshakeEnvelope(sc)
  BY DEF Wrapping
<1>4. Resolved(Chosen, cc) = Resolved(Chosen, sc)
  BY <1>3 DEF Resolved
<1> HIDE DEF a, b, h, c, t
<1>5. /\ t.hash = h /\ t.send = a /\ t.recv = b /\ t.profile = Resolved(Chosen, cc)
      /\ t.selection = Chosen
  BY <1>1 DEF SessionOf
<1>6. /\ SessionFor(c).hash = h /\ SessionFor(c).send = b /\ SessionFor(c).recv = a
      /\ SessionFor(c).profile = Resolved(Chosen, sc)
  BY <1>2 DEF SessionOf
<1> QED
  BY <1>4, <1>5, <1>6 DEF Crossed, c, t

-----------------------------------------------------------------------------
(* Selections *)

LEMMA ServerEndIs ==
  ASSUME NEW c
  PROVE  LET s == ServerEnd(c)
         IN  /\ \E h : s.tag = ParseTag(h)
             /\ s.up => ValidConfig(s)
<1> DEFINE conf == MergeServerConfig(c.file, c.cli)
           end == FromRoleConfig(conf)
           u == conf.key_path # "" /\ conf.carrier.name \in Carriers /\ ValidConfig(end)
           s == ServerEnd(c)
<1>1. /\ s.up = u /\ s.kex = end.kex /\ s.envelope = end.envelope /\ s.tag = end.tag
      /\ s.congestion = end.congestion /\ s.names = end.names
  BY DEF ServerEnd
<1>2. end.tag = ParseTag(conf.transport.tag_hex)
  BY DEF FromRoleConfig
<1> HIDE DEF conf, end, u, s
<1>3. u => ValidConfig(s)
  BY <1>1 DEF ValidConfig, u
<1> QED
  BY <1>1, <1>2, <1>3 DEF s

LEMMA TagIs ==
  ASSUME NEW h, ParseTag(h) # <<>>
  PROVE  \E a, b : ParseTag(h) = <<a, b>>
<1> DEFINE d == IF h = {} THEN <<>> ELSE CHOOSE d \in h : TRUE
           a == 16 * d[1] + d[2]
           b == 16 * d[3] + d[4]
<1>1. ParseTag(h) = DEFAULT_TAG \/ ParseTag(h) = <<a, b>>
  BY DEF ParseTag
<1> HIDE DEF a, b
<1>2. DEFAULT_TAG = <<82, 78>>
  BY DEF DEFAULT_TAG
<1> QED
  BY <1>1, <1>2

IsSelection(s) ==
  \E a, b : s = [cipher |-> s.cipher, transport |-> s.transport, fec |-> s.fec,
                 frame |-> s.frame, tag |-> <<a, b>>]

(* Seven bytes, and the six that older builds have. *)
LEMMA EncodeIs ==
  ASSUME NEW c, NEW t, NEW f, NEW a, NEW b, NEW r, NEW s,
         s = [cipher |-> c, transport |-> t, fec |-> f, frame |-> r, tag |-> <<a, b>>]
  PROVE  EncodeSelection(s) = <<1, c, t, f, a, b, r>>
<1> DEFINE S == {1, c, t, f, a, b, r}
           x == <<1, c, t, f>>
           y == <<a, b>>
           z == <<r>>
<1>1. EncodeSelection(s) = (x \o y) \o z
  BY DEF EncodeSelection, NEGOTIATION_VERSION
<1>2. x \in Seq(S) /\ y \in Seq(S) /\ z \in Seq(S) /\ Len(x) = 4 /\ Len(y) = 2 /\ Len(z) = 1
  OBVIOUS
<1>3. /\ x[1] = 1 /\ x[2] = c /\ x[3] = t /\ x[4] = f
      /\ y[1] = a /\ y[2] = b /\ z[1] = r
  OBVIOUS
<1> DEFINE v == x \o y
           w == v \o z
           u == <<1, c, t, f, a, b, r>>
<1>4. u \in Seq(S) /\ Len(u) = 7
  OBVIOUS
<1>5. u[1] = 1 /\ u[2] = c /\ u[3] = t /\ u[4] = f /\ u[5] = a /\ u[6] = b /\ u[7] = r
  OBVIOUS
<1> HIDE DEF S, x, y, z, u
<1>6. /\ v \in Seq(S) /\ Len(v) = 6
      /\ v[1] = 1 /\ v[2] = c /\ v[3] = t /\ v[4] = f /\ v[5] = a /\ v[6] = b
  <2>1. /\ v \in Seq(S) /\ Len(v) = Len(x) + Len(y)
        /\ \A i \in 1 .. Len(x) + Len(y) : v[i] = IF i <= Len(x) THEN x[i] ELSE y[i - Len(x)]
    BY <1>2, ConcatProperties
  <2> HIDE DEF v
  <2>2. \A i \in 1 .. 6 : v[i] = IF i <= 4 THEN x[i] ELSE y[i - 4]
    BY <1>2, <2>1
  <2> QED
    BY <1>2, <1>3, <2>1, <2>2
<1> HIDE DEF v
<1>7. /\ w \in Seq(S) /\ Len(w) = 7
      /\ w[1] = 1 /\ w[2] = c /\ w[3] = t /\ w[4] = f /\ w[5] = a /\ w[6] = b /\ w[7] = r
  <2>1. /\ w \in Seq(S) /\ Len(w) = Len(v) + Len(z)
        /\ \A i \in 1 .. Len(v) + Len(z) : w[i] = IF i <= Len(v) THEN v[i] ELSE z[i - Len(v)]
    BY <1>2, <1>6, ConcatProperties
  <2> HIDE DEF w
  <2>2. \A i \in 1 .. 7 : w[i] = IF i <= 6 THEN v[i] ELSE z[i - 6]
    BY <1>2, <1>6, <2>1
  <2> QED
    BY <1>2, <1>3, <1>6, <2>1, <2>2
<1> HIDE DEF w
<1>8. \A i \in 1 .. 7 : w[i] = u[i]
  <2> SUFFICES ASSUME NEW i \in 1 .. 7 PROVE w[i] = u[i]
    OBVIOUS
  <2>1. i = 1 \/ i = 2 \/ i = 3 \/ i = 4 \/ i = 5 \/ i = 6 \/ i = 7
    OBVIOUS
  <2> QED
    BY <1>5, <1>7, <2>1
<1>9. w = u
  BY <1>4, <1>7, <1>8, SeqEqual
<1> QED
  BY <1>1, <1>9 DEF w, v, u

LEMMA DecodeIs ==
  ASSUME NEW c, NEW t, NEW f, NEW a, NEW b, NEW r
  PROVE  /\ DecodeSelection(<<1, c, t, f, a, b, r>>)
              = [cipher |-> c, transport |-> t, fec |-> f, frame |-> r, tag |-> <<a, b>>]
         /\ SubSeq(<<1, c, t, f, a, b, r>>, 1, SELECTION_LEGACY_LEN) = <<1, c, t, f, a, b>>
         /\ DecodeSelection(<<1, c, t, f, a, b>>)
              = [cipher |-> c, transport |-> t, fec |-> f, frame |-> FRAME_V1_FIXED,
                 tag |-> <<a, b>>]
         /\ DecodeSelection([<<1, c, t, f, a, b, r>> EXCEPT ![1] = 2]) = Malformed
<1> DEFINE u == <<1, c, t, f, a, b, r>>
           v == <<1, c, t, f, a, b>>
           S == {1, c, t, f, a, b, r}
<1>1. /\ u # <<>> /\ u \in Seq(S) /\ Len(u) = 7 /\ u[1] = 1 /\ u[2] = c /\ u[3] = t /\ u[4] = f
      /\ u[5] = a /\ u[6] = b /\ u[7] = r
  OBVIOUS
<1>2. /\ v # <<>> /\ v \in Seq(S) /\ Len(v) = 6 /\ v[1] = 1 /\ v[2] = c /\ v[3] = t /\ v[4] = f
      /\ v[5] = a /\ v[6] = b
  OBVIOUS
<1> HIDE DEF u, v, S
<1>3. DecodeSelection(u)
        = [cipher |-> c, transport |-> t, fec |-> f, frame |-> r, tag |-> <<a, b>>]
  BY <1>1 DEF DecodeSelection, NEGOTIATION_VERSION, SELECTION_LEGACY_LEN
<1>4. DecodeSelection(v)
        = [cipher |-> c, transport |-> t, fec |-> f, frame |-> FRAME_V1_FIXED,
           tag |-> <<a, b>>]
  BY <1>2 DEF DecodeSelection, NEGOTIATION_VERSION, SELECTION_LEGACY_LEN
<1>5. SubSeq(u, 1, 6) = v
  <2> DEFINE x == SubSeq(u, 1, 6)
  <2>1. \A i \in 1 .. 6 : u[i] \in S
    <3>1. \A i \in 1 .. Len(u) : u[i] \in S
      BY <1>1, ElementOfSeq
    <3> QED
      BY <1>1, <3>1
  <2>2. /\ x \in Seq(S) /\ Len(x) = 6 /\ \A i \in 1 .. 6 : x[i] = u[i]
    BY <1>1, <2>1
  <2> HIDE DEF x
  <2>3. ASSUME NEW i \in 1 .. 6 PROVE x[i] = v[i]
    <3>1. i = 1 \/ i = 2 \/ i = 3 \/ i = 4 \/ i = 5 \/ i = 6
      OBVIOUS
    <3>2. x[i] = u[i]
      BY <2>2
    <3> QED
      BY <1>1, <1>2, <3>1, <3>2
  <2>4. x = v
    BY <1>2, <2>2, <2>3, SeqEqual
  <2> QED
    BY <2>4 DEF x
<1>6. DecodeSelection([u EXCEPT ![1] = 2]) = Malformed
  <2> DEFINE y == [u EXCEPT ![1] = 2]
  <2>1. y[1] = 2 /\ 1 \in DOMAIN y
    BY <1>1
  <2> HIDE DEF y
  <2>2. y # <<>>
    BY <2>1
  <2> QED
    BY <2>1, <2>2 DEF DecodeSelection, NEGOTIATION_VERSION, y
<1> QED
  BY <1>3, <1>4, <1>5, <1>6 DEF u, v, SELECTION_LEGACY_LEN

(* What the server reads in an offer, and what negotiate makes of it. *)
Heard(b) == IF DecodeOffer(b) = Malformed THEN NoOffer ELSE DecodeOffer(b)

LEMMA NegotiateIs ==
  ASSUME NEW c, NEW b, Negotiate(c, b) # Malformed, NEW x, NEW y, c.tag = <<x, y>>
  PROVE  LET s == Negotiate(c, b)
             id(p) == Pick(p, CandidateIds(c.names, p), Heard(b)[p])
         IN  /\ s = [cipher |-> id("cipher"), transport |-> id("transport"),
                     fec |-> id("fec"), frame |-> id("frame"), tag |-> <<x, y>>]
             /\ \A p \in Part : s[p] = id(p)
<1> DEFINE id(p) == Pick(p, CandidateIds(c.names, p), Heard(b)[p])
           f == [p \in Part |-> id(p)]
           s == Selection(f, c.tag)
<1>1. Negotiate(c, b) = Selected(s)
  BY DEF Negotiate, NegotiateOffer, Heard
<1>2. Negotiate(c, b) = s
  <2> HIDE DEF s
  <2> QED
    BY <1>1 DEF Selected
<1>3. /\ f.cipher = id("cipher") /\ f.transport = id("transport") /\ f.fec = id("fec")
      /\ f.frame = id("frame")
  <2> HIDE DEF id
  <2> QED
    BY DEF Part
<1> HIDE DEF f, id
<1>4. s = [cipher |-> id("cipher"), transport |-> id("transport"),
           fec |-> id("fec"), frame |-> id("frame"), tag |-> <<x, y>>]
  BY <1>3 DEF Selection
<1> HIDE DEF s
<1>5. \A p \in Part : s[p] = id(p)
  BY <1>4 DEF Part
<1> QED
  BY <1>2, <1>4, <1>5 DEF id

LEMMA NoFrame == \A v : [Malformed EXCEPT !.frame = v] = Malformed
<1> SUFFICES ASSUME NEW v PROVE [Malformed EXCEPT !.frame = v] = Malformed
  OBVIOUS
<1> DEFINE f == [malformed |-> TRUE]
           g == [f EXCEPT !.frame = v]
<1>1. DOMAIN f = {"malformed"} /\ f = [x \in DOMAIN f |-> f[x]]
  OBVIOUS
<1> HIDE DEF f
<1>2. g = [x \in DOMAIN f |-> IF x = "frame" THEN v ELSE f[x]]
  BY <1>1
<1>3. \A x \in DOMAIN f : (IF x = "frame" THEN v ELSE f[x]) = f[x]
  BY <1>1
<1>4. g = f
  BY <1>1, <1>2, <1>3
<1> QED
  BY <1>4 DEF f, Malformed

Builds == {"this", "older", "phase1", "newer", "next"}

LEMMA ChosenIs ==
  ASSUME sc.kind \in Builds, NEW x, NEW y, sc.tag = <<x, y>>, Chosen # Malformed
  PROVE  /\ IsSelection(Chosen)
         /\ sc.kind = "older" => Chosen.frame = FRAME_V1_FIXED
         /\ sc.kind = "phase1" => Chosen = Defaults
         /\ sc.kind = "this" => Chosen = Negotiate(sc, OfferBytes)
<1> DEFINE n == Negotiate(sc, OfferBytes)
<1>1. Chosen = OfBuild(n)
  BY DEF Chosen, Selects
<1>2. ASSUME n # Malformed
      PROVE  n = [cipher |-> n.cipher, transport |-> n.transport, fec |-> n.fec,
                  frame |-> n.frame, tag |-> <<x, y>>]
  <2> DEFINE id(p) == Pick(p, CandidateIds(sc.names, p), Heard(OfferBytes)[p])
  <2>1. n = [cipher |-> id("cipher"), transport |-> id("transport"),
           fec |-> id("fec"), frame |-> id("frame"), tag |-> <<x, y>>]
    BY <1>2, NegotiateIs
  <2> HIDE DEF n, id
  <2> QED
    BY <2>1
<1> HIDE DEF n
<1>3. CASE sc.kind \in {"this", "next"}
  <2>1. Chosen = n
    BY <1>1, <1>3 DEF OfBuild
  <2> QED
    BY <1>2, <1>3, <2>1 DEF IsSelection, n
<1>4. ASSUME NEW v, Chosen = [n EXCEPT !.frame = v]
      PROVE  IsSelection(Chosen) /\ Chosen.frame = v
  <2>1. n # Malformed
    BY <1>4, NoFrame
  <2>2. n = [cipher |-> n.cipher, transport |-> n.transport, fec |-> n.fec,
                  frame |-> n.frame, tag |-> <<x, y>>]
    BY <1>2, <2>1
  <2>3. Chosen = [cipher |-> n.cipher, transport |-> n.transport, fec |-> n.fec,
                  frame |-> v, tag |-> <<x, y>>]
    BY <1>4, <2>2
  <2> QED
    BY <2>3 DEF IsSelection
<1>5. CASE sc.kind = "older"
  BY <1>1, <1>4, <1>5 DEF OfBuild
<1>6. CASE sc.kind = "newer"
  BY <1>1, <1>4, <1>6 DEF OfBuild
<1>7. CASE sc.kind = "phase1"
  <2>1. Chosen = Defaults
    BY <1>1, <1>7 DEF OfBuild
  <2>2. IsSelection(Defaults)
    <3> DEFINE d == Defaults
    <3>1. d = [cipher |-> 1, transport |-> 0, fec |-> 1, frame |-> 1, tag |-> <<82, 78>>]
      BY DEF Defaults, DEFAULT_TAG, SAME_ID, FRAME_V1_FIXED
    <3> HIDE DEF d
    <3>2. /\ d.cipher = 1 /\ d.transport = 0 /\ d.fec = 1 /\ d.frame = 1
      BY <3>1
    <3>3. d = [cipher |-> d.cipher, transport |-> d.transport, fec |-> d.fec,
               frame |-> d.frame, tag |-> <<82, 78>>]
      BY <3>1, <3>2
    <3> QED
      BY <3>3 DEF IsSelection, d
  <2> QED
    BY <1>7, <2>1, <2>2
<1> QED
  BY <1>3, <1>5, <1>6, <1>7 DEF Builds

-----------------------------------------------------------------------------
(* Lists of candidates *)

Filters(l, j, f) ==
  f = [i \in 0 .. j |-> IF i = 0 THEN <<>>
                        ELSE IF l[i] = SAME THEN f[i - 1] ELSE Append(f[i - 1], l[i])]

LEMMA FiltersExist ==
  ASSUME NEW l, NEW j \in Nat
  PROVE  \E f : Filters(l, j, f)
<1> SUFFICES ASSUME ~\E f : Filters(l, j, f) PROVE FALSE
  OBVIOUS
<1> DEFINE T == {i \in Nat : ~\E f : Filters(l, i, f)}
<1>1. T \subseteq Nat /\ T # {}
  OBVIOUS
<1>2. PICK x \in T : \A y \in T : x <= y
  <2> HIDE DEF T
  <2> QED
    BY <1>1, LeastNat
<1>3. x # 0
  <2>1. Filters(l, 0, [i \in 0 .. 0 |-> <<>>])
    BY DEF Filters
  <2> QED
    BY <1>2, <2>1
<1>4. x - 1 \in Nat /\ x - 1 \notin T
  BY <1>2, <1>3
<1>5. PICK f : Filters(l, x - 1, f)
  BY <1>4
<1> DEFINE z == IF l[x] = SAME THEN f[x - 1] ELSE Append(f[x - 1], l[x])
           g == [i \in 0 .. x |-> IF i = x THEN z ELSE f[i]]
<1>6. ASSUME NEW i \in 0 .. x
      PROVE  g[i] = IF i = 0 THEN <<>>
                    ELSE IF l[i] = SAME THEN g[i - 1] ELSE Append(g[i - 1], l[i])
  <2>1. CASE i = x
    <3>1. g[i] = z
      BY <2>1
    <3>2. x - 1 \in 0 .. x /\ x - 1 # x
      BY <1>2, <1>3
    <3>3. g[x - 1] = f[x - 1]
      BY <3>2
    <3> HIDE DEF g
    <3> QED
      BY <1>3, <2>1, <3>1, <3>3 DEF z
  <2>2. CASE i # x
    <3>1. i \in 0 .. x - 1 /\ (i # 0 => i - 1 \in 0 .. x /\ i - 1 # x)
      BY <1>2, <2>2
    <3>2. f[i] = IF i = 0 THEN <<>>
                 ELSE IF l[i] = SAME THEN f[i - 1] ELSE Append(f[i - 1], l[i])
      BY <1>5, <3>1 DEF Filters
    <3>3. g[i] = f[i] /\ (i # 0 => g[i - 1] = f[i - 1])
      <4> HIDE DEF z
      <4> QED
        BY <2>2, <3>1
    <3> HIDE DEF g
    <3> QED
      BY <3>2, <3>3
  <2> QED
    BY <2>1, <2>2
<1>7. Filters(l, x, g)
  <2>1. g = [i \in 0 .. x |-> g[i]]
    OBVIOUS
  <2> HIDE DEF g
  <2> QED
    BY <1>6, <2>1 DEF Filters
<1> QED
  BY <1>2, <1>7

(* The names without the marker are names of the list. *)
LEMMA RealIs ==
  ASSUME NEW A, NEW l \in Seq(A), NEW S, \A i \in 1 .. Len(l) : l[i] # SAME => l[i] \in S
  PROVE  Real(l) \in Seq(S)
<1> DEFINE f == CHOOSE g : Filters(l, Len(l), g)
<1>1. Len(l) \in Nat
  OBVIOUS
<1>2. Filters(l, Len(l), f)
  BY <1>1, FiltersExist
<1>3. Real(l) = f[Len(l)]
  BY DEF Real, Filters
<1> HIDE DEF f
<1> SUFFICES ASSUME f[Len(l)] \notin Seq(S) PROVE FALSE
  BY <1>3
<1> DEFINE T == {i \in 0 .. Len(l) : f[i] \notin Seq(S)}
<1>4. T \subseteq Nat /\ T # {}
  BY <1>1
<1>5. PICK x \in T : \A y \in T : x <= y
  <2> HIDE DEF T
  <2> QED
    BY <1>4, LeastNat
<1>6. /\ x \in Nat /\ x \in 0 .. Len(l)
      /\ f[x] = IF x = 0 THEN <<>>
                ELSE IF l[x] = SAME THEN f[x - 1] ELSE Append(f[x - 1], l[x])
  <2>1. x \in Nat /\ x \in 0 .. Len(l)
    BY <1>1, <1>5
  <2> DEFINE D == 0 .. Len(l)
             e(i) == IF i = 0 THEN <<>>
                     ELSE IF l[i] = SAME THEN f[i - 1] ELSE Append(f[i - 1], l[i])
  <2>2. f = [i \in D |-> e(i)] /\ x \in D
    BY <1>2, <2>1 DEF Filters
  <2> HIDE DEF D, e
  <2>3. f[x] = e(x)
    BY <2>2
  <2> QED
    BY <2>1, <2>3 DEF e
<1>7. x # 0 => f[x - 1] \in Seq(S)
  BY <1>1, <1>5, <1>6
<1>8. x # 0 => x \in 1 .. Len(l)
  BY <1>1, <1>6
<1>9. f[x] \in Seq(S)
  <2>1. CASE x = 0
    BY <1>6, <2>1
  <2>2. CASE x # 0 /\ l[x] = SAME
    BY <1>6, <1>7, <2>2
  <2>3. CASE x # 0 /\ l[x] # SAME
    <3>1. l[x] \in S /\ f[x] = Append(f[x - 1], l[x])
      BY <1>6, <1>8, <2>3
    <3> QED
      BY <1>7, <2>3, <3>1
  <2> QED
    BY <2>1, <2>2, <2>3
<1> QED
  BY <1>5, <1>9

LEMMA RegistryIs ==
  ASSUME NEW p \in Part, NEW n \in DOMAIN Registry[p]
  PROVE  Registry[p][n] \in Nat
<1>1. p = "cipher" \/ p = "transport" \/ p = "fec" \/ p = "frame"
  BY DEF Part
<1>2. CASE p = "cipher"
  BY <1>2 DEF Registry, CipherIds
<1>3. CASE p = "transport"
  BY <1>3 DEF Registry, TransportIds
<1>4. CASE p = "fec"
  BY <1>4 DEF Registry, FecIds
<1>5. CASE p = "frame"
  BY <1>5 DEF Registry, FrameIds
<1> QED
  BY <1>1, <1>2, <1>3, <1>4, <1>5

Listed(c) == \A p \in Part : c.names[p] \in Seq(STRING)

LEMMA CandidatesAre ==
  ASSUME NEW c, Listed(c), ValidConfig(c), NEW p \in Part
  PROVE  CandidateIds(c.names, p) \in Seq(Nat)
<1> DEFINE l == Prefs(c.names)[p]
           S == DOMAIN Registry[p]
           real == Real(l)
<1>1. l = IF c.names[p] = <<>> THEN <<DefaultName[p]>> ELSE c.names[p]
  BY DEF Prefs
<1>2. PICK A : l \in Seq(A)
  <2> DEFINE d == DefaultName[p]
  <2>1. <<d>> \in Seq({d})
    <3> HIDE DEF d
    <3> QED
      OBVIOUS
  <2> HIDE DEF l
  <2> QED
    BY <1>1, <2>1 DEF Listed
<1>3. Len(l) \in Nat /\ DOMAIN l = 1 .. Len(l)
  BY <1>2, LenProperties
<1>4. \A n \in Range(l) : KnownName(p, n)
  BY DEF ValidConfig
<1> HIDE DEF l
<1>5. ASSUME NEW i \in 1 .. Len(l), l[i] # SAME PROVE l[i] \in S
  <2>1. l[i] \in Range(l)
    BY <1>3 DEF Range
  <2> QED
    BY <1>4, <1>5, <2>1 DEF KnownName
<1>6. real \in Seq(S)
  <2> HIDE DEF S
  <2> QED
    BY <1>2, <1>5, RealIs
<1> HIDE DEF real
<1>7. DOMAIN real = 1 .. Len(real) /\ Len(real) \in Nat
  BY <1>6
<1>8. \A i \in 1 .. Len(real) : Registry[p][real[i]] \in Nat
  <2> SUFFICES ASSUME NEW i \in 1 .. Len(real) PROVE Registry[p][real[i]] \in Nat
    OBVIOUS
  <2>1. real[i] \in S
    BY <1>6, ElementOfSeq
  <2> QED
    BY <2>1, RegistryIs
<1>9. CandidateIds(c.names, p) = [i \in 1 .. Len(real) |-> Registry[p][real[i]]]
  BY <1>7 DEF CandidateIds, real, l
<1> DEFINE f == [i \in 1 .. Len(real) |-> Registry[p][real[i]]]
<1>10. f \in [1 .. Len(real) -> Nat]
  BY <1>8
<1> HIDE DEF f
<1>11. f \in Seq(Nat)
  BY <1>7, <1>10
<1> QED
  BY <1>9, <1>11 DEF f

-----------------------------------------------------------------------------
(* Offers *)

(* The bytes z stand in b from position i on. *)
At(b, i, z) == i + Len(z) - 1 <= Len(b) /\ \A j \in 1 .. Len(z) : b[i + j - 1] = z[j]

LEMMA AtConcat ==
  ASSUME NEW b \in Seq(Nat), NEW s \in Seq(Nat), NEW t \in Seq(Nat), At(b, 1, s \o t)
  PROVE  At(b, 1, s) /\ At(b, Len(s) + 1, t)
<1> DEFINE u == s \o t
<1>1. /\ u \in Seq(Nat) /\ Len(u) = Len(s) + Len(t)
      /\ \A i \in 1 .. Len(s) + Len(t) : u[i] = IF i <= Len(s) THEN s[i] ELSE t[i - Len(s)]
  BY ConcatProperties
<1>2. Len(s) \in Nat /\ Len(t) \in Nat /\ Len(b) \in Nat
  OBVIOUS
<1>3. At(b, 1, u)
  OBVIOUS
<1> HIDE DEF u
<1>4. Len(s) + Len(t) <= Len(b)
  BY <1>1, <1>2, <1>3 DEF At
<1>5. ASSUME NEW j \in 1 .. Len(s) PROVE b[1 + j - 1] = s[j]
  <2>1. j \in 1 .. Len(s) + Len(t) /\ j <= Len(s)
    BY <1>2
  <2>2. j \in 1 .. Len(u)
    BY <1>1, <2>1
  <2> QED
    BY <1>1, <1>3, <2>1, <2>2 DEF At
<1>6. ASSUME NEW j \in 1 .. Len(t) PROVE b[(Len(s) + 1) + j - 1] = t[j]
  <2> DEFINE k == Len(s) + j
  <2>1. k \in 1 .. Len(s) + Len(t) /\ ~(k <= Len(s)) /\ k - Len(s) = j
    BY <1>2
  <2>2. (Len(s) + 1) + j - 1 = k /\ 1 + k - 1 = k
    BY <1>2
  <2>3. k \in 1 .. Len(u)
    BY <1>1, <2>1
  <2> HIDE DEF k
  <2>4. u[k] = t[j]
    BY <1>1, <2>1
  <2>5. b[1 + k - 1] = u[k]
    BY <1>3, <2>3 DEF At
  <2> QED
    BY <2>2, <2>4, <2>5
<1> QED
  BY <1>2, <1>4, <1>5, <1>6 DEF At

(* What is left of a list that is too long. *)
Kept(l) == SubSeq(l, 1, Min({Len(l), MAX_OFFER_ALTERNATIVES}))

LEMMA KeptIs ==
  ASSUME NEW l \in Seq(Nat)
  PROVE  /\ Kept(l) \in Seq(Nat)
         /\ Len(Kept(l)) = Min({Len(l), MAX_OFFER_ALTERNATIVES})
         /\ Len(Kept(l)) <= MAX_OFFER_ALTERNATIVES
         /\ Len(l) <= MAX_OFFER_ALTERNATIVES => Kept(l) = l
         /\ l # <<>> => Kept(l) # <<>>
<1> DEFINE n == Min({Len(l), MAX_OFFER_ALTERNATIVES})
           m == MAX_OFFER_ALTERNATIVES
<1>1. Len(l) \in Nat /\ m \in Nat \ {0}
  BY ProfileAssumption
<1>2. n = IF Len(l) <= m THEN Len(l) ELSE m
  <2> HIDE DEF m
  <2>1. Len(l) \in Int /\ m \in Int
    BY <1>1
  <2>2. Min({Len(l), m}) = IF Len(l) <= m THEN Len(l) ELSE m
    BY <2>1, MinTwo
  <2> QED
    BY <2>2 DEF m
<1>3. Kept(l) = SubSeq(l, 1, n)
  BY DEF Kept
<1> HIDE DEF n, m
<1>4. n \in Nat /\ n <= Len(l) /\ n <= m
  BY <1>1, <1>2
<1>5. ASSUME NEW i \in 1 .. n PROVE l[i] \in Nat
  <2>1. i \in 1 .. Len(l)
    BY <1>1, <1>4
  <2> QED
    BY <2>1, ElementOfSeq
<1>6. SubSeq(l, 1, n) \in Seq(Nat) /\ Len(SubSeq(l, 1, n)) = n
  BY <1>4, <1>5, SubSeqProperties
<1>7. Len(l) <= m => Kept(l) = l
  <2>1. Len(l) <= m => n = Len(l)
    BY <1>2
  <2>2. SubSeq(l, 1, Len(l)) = l
    BY SubSeqFull
  <2> QED
    BY <1>3, <2>1, <2>2
<1>8. l # <<>> => n # 0
  <2>1. l # <<>> => Len(l) # 0
    OBVIOUS
  <2> QED
    BY <1>1, <1>2, <2>1
<1> DEFINE k == SubSeq(l, 1, n)
<1> HIDE DEF k
<1>9. l # <<>> => k # <<>>
  BY <1>6, <1>8 DEF k
<1> QED
  BY <1>3, <1>4, <1>6, <1>7, <1>9 DEF n, m, k

LEMMA EncodeListIs ==
  ASSUME NEW l \in Seq(Nat)
  PROVE  /\ EncodeList(l) \in Seq(Nat)
         /\ Len(EncodeList(l)) = Len(Kept(l)) + 1
         /\ EncodeList(l)[1] = Len(Kept(l))
         /\ \A j \in 1 .. Len(Kept(l)) : EncodeList(l)[j + 1] = Kept(l)[j]
<1> DEFINE k == Kept(l)
           h == <<Len(k)>>
<1>1. k \in Seq(Nat) /\ Len(k) \in Nat /\ Len(k) = Min({Len(l), MAX_OFFER_ALTERNATIVES})
  BY KeptIs
<1>2. EncodeList(l) = h \o k
  BY <1>1 DEF EncodeList, Kept
<1> HIDE DEF k
<1>3. h \in Seq(Nat) /\ Len(h) = 1 /\ h[1] = Len(k)
  BY <1>1
<1> HIDE DEF h
<1>4. /\ h \o k \in Seq(Nat) /\ Len(h \o k) = Len(h) + Len(k)
      /\ \A i \in 1 .. Len(h) + Len(k) : (h \o k)[i] = IF i <= Len(h) THEN h[i] ELSE k[i - Len(h)]
  BY <1>1, <1>3, ConcatProperties
<1> DEFINE e == h \o k
<1>5. \A i \in 1 .. 1 + Len(k) : e[i] = IF i <= 1 THEN h[i] ELSE k[i - 1]
  BY <1>3, <1>4
<1>6. e \in Seq(Nat) /\ Len(e) = Len(k) + 1
  BY <1>1, <1>3, <1>4
<1> HIDE DEF e
<1>7. e[1] = Len(k)
  <2>1. 1 \in 1 .. 1 + Len(k) /\ 1 <= 1
    BY <1>1
  <2>2. e[1] = h[1]
    BY <1>5, <2>1
  <2> QED
    BY <1>3, <2>2
<1>8. ASSUME NEW j \in 1 .. Len(k) PROVE e[j + 1] = k[j]
  <2>1. j + 1 \in 1 .. 1 + Len(k) /\ ~(j + 1 <= 1) /\ (j + 1) - 1 = j
    BY <1>1
  <2> QED
    BY <1>5, <2>1
<1> QED
  BY <1>2, <1>6, <1>7, <1>8 DEF e, k

(* take_list gives back what put_list wrote. *)
LEMMA TakeAt ==
  ASSUME NEW b \in Seq(Nat), NEW i \in Nat \ {0}, NEW l \in Seq(Nat), At(b, i, EncodeList(l))
  PROVE  TakeList(b, i) = [list |-> Kept(l), next |-> i + Len(EncodeList(l))]
<1> DEFINE k == Kept(l)
           e == EncodeList(l)
           n == Len(k)
<1>1. /\ e \in Seq(Nat) /\ Len(e) = n + 1 /\ e[1] = n
      /\ \A j \in 1 .. n : e[j + 1] = k[j]
  BY EncodeListIs
<1>2. k \in Seq(Nat) /\ n \in Nat /\ n <= MAX_OFFER_ALTERNATIVES /\ Len(b) \in Nat
  <2>1. k \in Seq(Nat) /\ n <= MAX_OFFER_ALTERNATIVES
    BY KeptIs
  <2> HIDE DEF k
  <2> QED
    BY <2>1
<1>3. At(b, i, e)
  OBVIOUS
<1> HIDE DEF k, e, n
<1>4. i + n <= Len(b) /\ b[i] = n
  <2>1. i + (n + 1) - 1 <= Len(b) /\ \A j \in 1 .. n + 1 : b[i + j - 1] = e[j]
    BY <1>1, <1>3 DEF At
  <2>2. 1 \in 1 .. n + 1 /\ i + 1 - 1 = i
    BY <1>2
  <2>3. b[i + 1 - 1] = e[1]
    BY <2>1, <2>2
  <2> QED
    BY <1>1, <1>2, <2>1, <2>2, <2>3
<1>5. SubSeq(b, i + 1, i + n) = k
  <2> DEFINE t == SubSeq(b, i + 1, i + n)
  <2>1. ASSUME NEW j \in i + 1 .. i + n PROVE b[j] \in Nat
    <3>1. j \in 1 .. Len(b)
      BY <1>2, <1>4
    <3> QED
      BY <3>1, ElementOfSeq
  <2>2. i + 1 \in Int /\ i + n \in Int
    BY <1>2
  <2>3. /\ t \in Seq(Nat) /\ Len(t) = IF i + 1 <= i + n THEN (i + n) - (i + 1) + 1 ELSE 0
        /\ \A j \in 1 .. (i + n) - (i + 1) + 1 : t[j] = b[(i + 1) + j - 1]
    BY <2>1, <2>2, SubSeqProperties
  <2> HIDE DEF t
  <2>4. Len(t) = n /\ (i + n) - (i + 1) + 1 = n
    BY <1>2, <2>3
  <2>5. ASSUME NEW j \in 1 .. n PROVE t[j] = k[j]
    <3>1. t[j] = b[(i + 1) + j - 1]
      BY <2>3, <2>4
    <3>2. (i + 1) + j - 1 = i + (j + 1) - 1 /\ j + 1 \in 1 .. Len(e)
      BY <1>1, <1>2
    <3>3. b[i + (j + 1) - 1] = e[j + 1]
      BY <1>3, <3>2 DEF At
    <3> QED
      BY <1>1, <3>1, <3>2, <3>3
  <2>6. t = k
    BY <1>2, <2>3, <2>4, <2>5, SeqEqual DEF n
  <2> QED
    BY <2>6 DEF t
<1>6. ~(i > Len(b)) /\ ~(b[i] > MAX_OFFER_ALTERNATIVES) /\ ~(i + b[i] > Len(b))
  BY <1>2, <1>4, ProfileAssumption
<1>7. TakeList(b, i) = [list |-> SubSeq(b, i + 1, i + n), next |-> i + n + 1]
  BY <1>4, <1>6 DEF TakeList
<1>8. i + n + 1 = i + Len(e)
  BY <1>1, <1>2
<1> QED
  BY <1>5, <1>7, <1>8 DEF k, e

LEMMA Readable == \A x, y : [list |-> x, next |-> y] # Malformed /\ [lists |-> x, next |-> y] # Malformed
BY DEF Malformed

LEMMA TakeNextAt ==
  ASSUME NEW b \in Seq(Nat), NEW r, r # Malformed, r.next \in Nat \ {0},
         NEW l \in Seq(Nat), At(b, r.next, EncodeList(l))
  PROVE  TakeNext(b, r)
           = [lists |-> Append(r.lists, Kept(l)), next |-> r.next + Len(EncodeList(l))]
<1> DEFINE t == TakeList(b, r.next)
<1>1. t = [list |-> Kept(l), next |-> r.next + Len(EncodeList(l))]
  BY TakeAt
<1>2. t # Malformed
  BY <1>1, Readable
<1> HIDE DEF t
<1>3. TakeNext(b, r) = [lists |-> Append(r.lists, t.list), next |-> t.next]
  BY <1>2 DEF TakeNext, t
<1> QED
  BY <1>1, <1>3

LEMMA AppendIs ==
  ASSUME NEW S, NEW s \in Seq(S), NEW t \in Seq(S), NEW x \in S, Len(t) = Len(s) + 1,
         \A i \in 1 .. Len(s) : t[i] = s[i], t[Len(s) + 1] = x
  PROVE  Append(s, x) = t
<1> DEFINE u == Append(s, x)
<1>1. /\ u \in Seq(S) /\ Len(u) = Len(s) + 1 /\ u[Len(s) + 1] = x
      /\ \A i \in 1 .. Len(s) : u[i] = s[i]
  BY AppendProperties
<1> HIDE DEF u
<1>2. ASSUME NEW i \in 1 .. Len(u) PROVE u[i] = t[i]
  <2>1. i \in 1 .. Len(s) \/ i = Len(s) + 1
    BY <1>1
  <2> QED
    BY <1>1, <2>1
<1>3. u = t
  BY <1>1, <1>2, SeqEqual
<1> QED
  BY <1>3 DEF u

LEMMA Appends ==
  ASSUME NEW a, NEW b, NEW c
  PROVE  /\ Append(<<>>, a) = <<a>> /\ Append(<<a>>, b) = <<a, b>>
         /\ Append(<<a, b>>, c) = <<a, b, c>>
<1> DEFINE S == {a, b, c}
<1>1. Append(<<>>, a) = <<a>>
  OBVIOUS
<1>2. Append(<<a>>, b) = <<a, b>>
  <2> DEFINE s == <<a>>
             t == <<a, b>>
  <2>1. /\ s \in Seq(S) /\ t \in Seq(S) /\ Len(s) = 1 /\ Len(t) = 2 /\ s[1] = a /\ t[1] = a
        /\ t[2] = b
    OBVIOUS
  <2> HIDE DEF s, t
  <2>2. \A i \in 1 .. 1 : t[i] = s[i]
    BY <2>1
  <2>3. /\ s \in Seq(S) /\ t \in Seq(S) /\ b \in S
        /\ Len(t) = Len(s) + 1 /\ t[Len(s) + 1] = b
        /\ \A i \in 1 .. Len(s) : t[i] = s[i]
    BY <2>1, <2>2
  <2> HIDE DEF S
  <2>4. Append(s, b) = t
    BY <2>3, AppendIs
  <2> QED
    BY <2>4 DEF s, t
<1>3. Append(<<a, b>>, c) = <<a, b, c>>
  <2> DEFINE s == <<a, b>>
             t == <<a, b, c>>
  <2>1. /\ s \in Seq(S) /\ t \in Seq(S) /\ Len(s) = 2 /\ Len(t) = 3 /\ s[1] = a /\ t[1] = a
        /\ s[2] = b /\ t[2] = b /\ t[3] = c
    OBVIOUS
  <2> HIDE DEF s, t
  <2>2. ASSUME NEW i \in 1 .. 2 PROVE t[i] = s[i]
    <3>1. i = 1 \/ i = 2
      OBVIOUS
    <3> QED
      BY <2>1, <3>1
  <2>3. /\ s \in Seq(S) /\ t \in Seq(S) /\ c \in S
        /\ Len(t) = Len(s) + 1 /\ t[Len(s) + 1] = c
        /\ \A i \in 1 .. Len(s) : t[i] = s[i]
    BY <2>1, <2>2
  <2> HIDE DEF S
  <2>4. Append(s, c) = t
    BY <2>3, AppendIs
  <2> QED
    BY <2>4 DEF s, t
<1> QED
  BY <1>1, <1>2, <1>3

LEMMA Append4 ==
  ASSUME NEW a, NEW b, NEW c, NEW d
  PROVE  Append(<<a, b, c>>, d) = <<a, b, c, d>>
<1> DEFINE S == {a, b, c, d}
<1>1. Append(<<a, b, c>>, d) = <<a, b, c, d>>
  <2> DEFINE s == <<a, b, c>>
             t == <<a, b, c, d>>
  <2>1. /\ s \in Seq(S) /\ t \in Seq(S) /\ Len(s) = 3 /\ Len(t) = 4 /\ s[1] = a /\ t[1] = a
        /\ s[2] = b /\ t[2] = b /\ s[3] = c /\ t[3] = c /\ t[4] = d
    OBVIOUS
  <2> HIDE DEF s, t
  <2>2. ASSUME NEW i \in 1 .. 3 PROVE t[i] = s[i]
    <3>1. i = 1 \/ i = 2 \/ i = 3
      OBVIOUS
    <3> QED
      BY <2>1, <3>1
  <2>3. /\ s \in Seq(S) /\ t \in Seq(S) /\ d \in S
        /\ Len(t) = Len(s) + 1 /\ t[Len(s) + 1] = d
        /\ \A i \in 1 .. Len(s) : t[i] = s[i]
    BY <2>1, <2>2
  <2> HIDE DEF S
  <2>4. Append(s, d) = t
    BY <2>3, AppendIs
  <2> QED
    BY <2>4 DEF s, t
<1> QED
  BY <1>1

(* An offer up to the codecs, and all of it. *)
Head3(o) ==
  <<NEGOTIATION_VERSION>> \o EncodeList(o.cipher) \o EncodeList(o.transport)
    \o EncodeList(o.fec)

IsOffer(o) ==
  /\ o.cipher \in Seq(Nat) /\ o.transport \in Seq(Nat) /\ o.fec \in Seq(Nat)
  /\ o.frame \in Seq(Nat)

Read(b) == TakeNext(b, TakeNext(b, TakeNext(b, [lists |-> <<>>, next |-> 2])))

LEMMA Head3Is ==
  ASSUME NEW o, IsOffer(o)
  PROVE  /\ Head3(o) \in Seq(Nat) /\ Len(Head3(o)) \in Nat \ {0} /\ Head3(o)[1] = 1
         /\ \A b \in Seq(Nat) : At(b, 1, Head3(o)) =>
              Read(b) = [lists |-> <<Kept(o.cipher), Kept(o.transport), Kept(o.fec)>>,
                         next |-> Len(Head3(o)) + 1]
<1> DEFINE e1 == EncodeList(o.cipher)
           e2 == EncodeList(o.transport)
           e3 == EncodeList(o.fec)
           b0 == <<1>>
           b1 == b0 \o e1
           b2 == b1 \o e2
           b3 == b2 \o e3
<1>1. e1 \in Seq(Nat) /\ e2 \in Seq(Nat) /\ e3 \in Seq(Nat)
  BY EncodeListIs DEF IsOffer
<1>2. Head3(o) = b3
  BY DEF Head3, NEGOTIATION_VERSION
<1>3. b0 \in Seq(Nat) /\ Len(b0) = 1 /\ b0[1] = 1
  OBVIOUS
<1> HIDE DEF e1, e2, e3, b0
<1>4. b1 \in Seq(Nat) /\ Len(b1) = Len(b0) + Len(e1)
  BY <1>1, <1>3, ConcatProperties
<1> HIDE DEF b1
<1>5. b2 \in Seq(Nat) /\ Len(b2) = Len(b1) + Len(e2)
  BY <1>1, <1>4, ConcatProperties
<1> HIDE DEF b2
<1>6. b3 \in Seq(Nat) /\ Len(b3) = Len(b2) + Len(e3)
  BY <1>1, <1>5, ConcatProperties
<1>7. Len(e1) \in Nat /\ Len(e2) \in Nat /\ Len(e3) \in Nat
  BY <1>1
<1>8. ASSUME NEW b \in Seq(Nat), At(b, 1, b3)
      PROVE  /\ At(b, 1, b0) /\ At(b, 2, e1) /\ At(b, Len(b1) + 1, e2)
             /\ At(b, Len(b2) + 1, e3)
  <2>1. At(b, 1, b2) /\ At(b, Len(b2) + 1, e3)
    BY <1>1, <1>5, <1>8, AtConcat
  <2>2. At(b, 1, b1) /\ At(b, Len(b1) + 1, e2)
    BY <1>1, <1>4, <2>1, AtConcat DEF b2
  <2>3. At(b, 1, b0) /\ At(b, Len(b0) + 1, e1)
    BY <1>1, <1>3, <2>2, AtConcat DEF b1
  <2>4. Len(b0) + 1 = 2
    BY <1>3
  <2> QED
    BY <2>1, <2>2, <2>3, <2>4
<1> HIDE DEF b3
<1>9. b3[1] = 1
  <2>1. At(b3, 1, b3)
    BY <1>6 DEF At
  <2>2. At(b3, 1, b0)
    BY <1>6, <1>8, <2>1
  <2>3. 1 \in 1 .. Len(b0) /\ 1 + 1 - 1 = 1
    BY <1>3
  <2> QED
    BY <1>3, <2>2, <2>3 DEF At
<1>10. ASSUME NEW b \in Seq(Nat), At(b, 1, b3)
       PROVE  Read(b) = [lists |-> <<Kept(o.cipher), Kept(o.transport), Kept(o.fec)>>,
                         next |-> Len(b3) + 1]
  <2> DEFINE k1 == Kept(o.cipher)
             k2 == Kept(o.transport)
             k3 == Kept(o.fec)
             r0 == [lists |-> <<>>, next |-> 2]
             r1 == [lists |-> <<k1>>, next |-> Len(b1) + 1]
             r2 == [lists |-> <<k1, k2>>, next |-> Len(b2) + 1]
             r3 == [lists |-> <<k1, k2, k3>>, next |-> Len(b3) + 1]
  <2>1. At(b, 2, e1) /\ At(b, Len(b1) + 1, e2) /\ At(b, Len(b2) + 1, e3)
    BY <1>8, <1>10
  <2>2. /\ 2 + Len(e1) = Len(b1) + 1 /\ (Len(b1) + 1) + Len(e2) = Len(b2) + 1
        /\ (Len(b2) + 1) + Len(e3) = Len(b3) + 1
        /\ 2 \in Nat \ {0} /\ Len(b1) + 1 \in Nat \ {0} /\ Len(b2) + 1 \in Nat \ {0}
    <3>1. Len(b1) = 1 + Len(e1) /\ Len(b1) \in Nat
      BY <1>3, <1>4, <1>7
    <3>2. Len(b2) = Len(b1) + Len(e2) /\ Len(b2) \in Nat
      BY <3>1, <1>5, <1>7
    <3> QED
      BY <3>1, <3>2, <1>6, <1>7
  <2>3. o.cipher \in Seq(Nat) /\ o.transport \in Seq(Nat) /\ o.fec \in Seq(Nat)
    BY DEF IsOffer
  <2> HIDE DEF k1, k2, k3
  <2>4. /\ Append(<<>>, k1) = <<k1>> /\ Append(<<k1>>, k2) = <<k1, k2>>
        /\ Append(<<k1, k2>>, k3) = <<k1, k2, k3>>
    BY Appends
  <2>5. TakeNext(b, r0) = r1
    <3>1. r0.lists = <<>> /\ r0.next = 2 /\ r0 # Malformed
      BY Readable
    <3> HIDE DEF r0
    <3>2. r0.next \in Nat \ {0} /\ At(b, r0.next, EncodeList(o.cipher))
      BY <2>1, <2>2, <3>1 DEF e1
    <3>3. TakeNext(b, r0)
            = [lists |-> Append(r0.lists, Kept(o.cipher)), next |-> r0.next + Len(EncodeList(o.cipher))]
      BY <2>3, <3>1, <3>2, TakeNextAt
    <3>4. Append(r0.lists, Kept(o.cipher)) = <<k1>>
      BY <2>4, <3>1 DEF k1
    <3>5. r0.next + Len(EncodeList(o.cipher)) = Len(b1) + 1
      BY <2>2, <3>1 DEF e1
    <3> QED
      BY <3>3, <3>4, <3>5
  <2>6. TakeNext(b, r1) = r2
    <3>1. r1.lists = <<k1>> /\ r1.next = Len(b1) + 1 /\ r1 # Malformed
      BY Readable
    <3> HIDE DEF r1
    <3>2. r1.next \in Nat \ {0} /\ At(b, r1.next, EncodeList(o.transport))
      BY <2>1, <2>2, <3>1 DEF e2
    <3>3. TakeNext(b, r1)
            = [lists |-> Append(r1.lists, Kept(o.transport)), next |-> r1.next + Len(EncodeList(o.transport))]
      BY <2>3, <3>1, <3>2, TakeNextAt
    <3>4. Append(r1.lists, Kept(o.transport)) = <<k1, k2>>
      BY <2>4, <3>1 DEF k2
    <3>5. r1.next + Len(EncodeList(o.transport)) = Len(b2) + 1
      BY <2>2, <3>1 DEF e2
    <3> QED
      BY <3>3, <3>4, <3>5
  <2>7. TakeNext(b, r2) = r3
    <3>1. r2.lists = <<k1, k2>> /\ r2.next = Len(b2) + 1 /\ r2 # Malformed
      BY Readable
    <3> HIDE DEF r2
    <3>2. r2.next \in Nat \ {0} /\ At(b, r2.next, EncodeList(o.fec))
      BY <2>1, <2>2, <3>1 DEF e3
    <3>3. TakeNext(b, r2)
            = [lists |-> Append(r2.lists, Kept(o.fec)), next |-> r2.next + Len(EncodeList(o.fec))]
      BY <2>3, <3>1, <3>2, TakeNextAt
    <3>4. Append(r2.lists, Kept(o.fec)) = <<k1, k2, k3>>
      BY <2>4, <3>1 DEF k3
    <3>5. r2.next + Len(EncodeList(o.fec)) = Len(b3) + 1
      BY <2>2, <3>1 DEF e3
    <3> QED
      BY <3>3, <3>4, <3>5
  <2>8. Read(b) = TakeNext(b, TakeNext(b, TakeNext(b, r0)))
    BY DEF Read
  <2> HIDE DEF r0, r1, r2
  <2>9. Read(b) = r3
    BY <2>5, <2>6, <2>7, <2>8
  <2> QED
    BY <2>9 DEF k1, k2, k3
<1>11. Len(b3) \in Nat \ {0}
  BY <1>3, <1>4, <1>5, <1>6, <1>7
<1> QED
  BY <1>2, <1>6, <1>9, <1>10, <1>11

(* ClientOffer::decode of this build's offer, and of one without codecs. *)
LEMMA DecodeOfferIs ==
  ASSUME NEW o, IsOffer(o)
  PROVE  /\ DecodeOffer(EncodeOffer(o))
              = [cipher |-> Kept(o.cipher), transport |-> Kept(o.transport),
                 fec |-> Kept(o.fec), frame |-> Kept(o.frame)]
         /\ SubSeq(EncodeOffer(o), 1, Len(EncodeOffer(o)) - Len(EncodeList(o.frame))) = Head3(o)
         /\ DecodeOffer(Head3(o))
              = [cipher |-> Kept(o.cipher), transport |-> Kept(o.transport),
                 fec |-> Kept(o.fec), frame |-> <<FRAME_V1_FIXED>>]
<1> DEFINE h == Head3(o)
           e == EncodeList(o.frame)
           b == h \o e
           k1 == Kept(o.cipher)
           k2 == Kept(o.transport)
           k3 == Kept(o.fec)
           k4 == Kept(o.frame)
           ls == <<k1, k2, k3>>
           n == Len(h) + 1
           r == [lists |-> ls, next |-> n]
<1>1. h \in Seq(Nat) /\ Len(h) \in Nat \ {0} /\ h[1] = 1
  BY Head3Is
<1>2. \A c \in Seq(Nat) : At(c, 1, h) => Read(c) = r
  BY Head3Is
<1>3. e \in Seq(Nat) /\ Len(e) \in Nat \ {0}
  <2>1. e \in Seq(Nat) /\ Len(e) = Len(k4) + 1 /\ k4 \in Seq(Nat)
    BY EncodeListIs, KeptIs DEF IsOffer
  <2> HIDE DEF e, k4
  <2> QED
    BY <2>1
<1>4. EncodeOffer(o) = b
  BY DEF EncodeOffer, Head3
<1> HIDE DEF h
<1>5. r.lists = ls /\ r.next = n /\ r # Malformed
  BY Readable
<1>6. ASSUME NEW x PROVE Append(ls, x) = <<k1, k2, k3, x>>
  <2> HIDE DEF k1, k2, k3
  <2>1. Append(<<k1, k2, k3>>, x) = <<k1, k2, k3, x>>
    BY Append4
  <2> QED
    BY <2>1
<1>7. ASSUME NEW x, NEW y
      PROVE  ToOffer([lists |-> <<k1, k2, k3, x>>, next |-> y])
               = [cipher |-> k1, transport |-> k2, fec |-> k3, frame |-> x]
  <2> HIDE DEF k1, k2, k3
  <2> QED
    BY Readable DEF ToOffer
<1>8. ASSUME NEW c \in Seq(Nat), Len(c) \in Nat \ {0}, c[1] = 1, At(c, 1, h)
      PROVE  DecodeOffer(c) = ToOffer(TakeCodecs(c, r))
  <2>1. c # <<>>
    BY <1>8
  <2>2. Read(c) = r
    BY <1>2, <1>8
  <2> HIDE DEF r
  <2> QED
    BY <1>8, <2>1, <2>2 DEF DecodeOffer, NEGOTIATION_VERSION, Read
<1>9. DecodeOffer(h) = [cipher |-> k1, transport |-> k2, fec |-> k3, frame |-> <<FRAME_V1_FIXED>>]
  <2>1. At(h, 1, h)
    BY <1>1 DEF At
  <2>2. DecodeOffer(h) = ToOffer(TakeCodecs(h, r))
    BY <1>1, <1>8, <2>1
  <2>3. n > Len(h)
    BY <1>1
  <2> HIDE DEF r, n, ls
  <2>4. TakeCodecs(h, r) = [lists |-> Append(ls, <<FRAME_V1_FIXED>>), next |-> n]
    BY <1>5, <2>3 DEF TakeCodecs
  <2>5. TakeCodecs(h, r) = [lists |-> <<k1, k2, k3, <<FRAME_V1_FIXED>>>>, next |-> n]
    BY <1>6, <2>4
  <2> QED
    BY <1>7, <2>2, <2>5
<1>10. /\ b \in Seq(Nat) /\ Len(b) = Len(h) + Len(e)
       /\ \A i \in 1 .. Len(h) + Len(e) : b[i] = IF i <= Len(h) THEN h[i] ELSE e[i - Len(h)]
  BY <1>1, <1>3, ConcatProperties
<1>11. At(b, 1, h) /\ At(b, Len(h) + 1, e)
  <2>1. At(b, 1, b)
    <3> HIDE DEF b
    <3> QED
      BY <1>10 DEF At
  <2> QED
    BY <1>1, <1>3, <1>10, <2>1, AtConcat
<1>12. SubSeq(b, 1, Len(b) - Len(e)) = h
  <2>1. Len(b) - Len(e) = Len(h)
    BY <1>1, <1>3, <1>10
  <2>2. 1 \in 1 .. Len(h) /\ Len(h) \in 1 .. Len(h)
    BY <1>1
  <2>3. SubSeq(b, 1, Len(h)) = SubSeq(h, 1, Len(h))
    BY <1>1, <1>3, <2>2, SubSeqOfConcat1
  <2>4. SubSeq(h, 1, Len(h)) = h
    BY <1>1, SubSeqFull
  <2> QED
    BY <2>1, <2>3, <2>4
<1>13. DecodeOffer(b) = [cipher |-> k1, transport |-> k2, fec |-> k3, frame |-> k4]
  <2>1. Len(b) \in Nat \ {0} /\ b[1] = 1 /\ ~(n > Len(b)) /\ n \in Nat \ {0}
    BY <1>1, <1>3, <1>10
  <2>2. DecodeOffer(b) = ToOffer(TakeCodecs(b, r))
    BY <1>8, <1>10, <1>11, <2>1
  <2> HIDE DEF b
  <2>3. TakeCodecs(b, r) = TakeNext(b, r)
    <3> HIDE DEF r, n
    <3> QED
      BY <1>5, <2>1 DEF TakeCodecs
  <2>4. o.frame \in Seq(Nat) /\ At(b, n, EncodeList(o.frame))
    BY <1>11 DEF IsOffer
  <2>5. TakeNext(b, r) = [lists |-> Append(ls, k4), next |-> n + Len(e)]
    <3> HIDE DEF n, ls, r
    <3>1. r.next \in Nat \ {0} /\ At(b, r.next, EncodeList(o.frame)) /\ r # Malformed
      BY <1>5, <2>1, <2>4
    <3>2. TakeNext(b, r) = [lists |-> Append(r.lists, Kept(o.frame)),
                            next |-> r.next + Len(EncodeList(o.frame))]
      BY <1>10, <2>4, <3>1, TakeNextAt
    <3> QED
      BY <1>5, <3>2
  <2>6. TakeCodecs(b, r) = [lists |-> <<k1, k2, k3, k4>>, next |-> n + Len(e)]
    BY <1>6, <2>3, <2>5
  <2> HIDE DEF k1, k2, k3, k4, n, e, ls, r
  <2> QED
    BY <1>7, <2>2, <2>6
<1> QED
  BY <1>4, <1>9, <1>12, <1>13 DEF h

-----------------------------------------------------------------------------
(* What negotiate chooses *)

LEMMA MinIn ==
  ASSUME NEW T, T \subseteq Nat, T # {}
  PROVE  Min(T) \in T
<1>1. PICK x \in T : \A y \in T : x <= y
  BY LeastNat
<1> QED
  BY <1>1 DEF Min

LEMMA FirstIs ==
  ASSUME NEW A, NEW l \in Seq(A), NEW S, S \cap Range(l) # {}
  PROVE  First(l, S) \in S
<1> DEFINE T == {i \in DOMAIN l : l[i] \in S}
<1>1. DOMAIN l = 1 .. Len(l) /\ Len(l) \in Nat
  BY LenProperties
<1>2. PICK x \in Range(l) : x \in S
  OBVIOUS
<1>3. PICK i \in DOMAIN l : l[i] = x
  BY DEF Range
<1>4. T \subseteq Nat /\ T # {}
  BY <1>1, <1>2, <1>3
<1>5. Min(T) \in T
  <2> HIDE DEF T
  <2> QED
    BY <1>4, MinIn
<1>6. First(l, S) = l[Min(T)]
  BY DEF First
<1> QED
  BY <1>5, <1>6

LEMMA SingletonRange == \A x : Range(<<x>>) = {x} /\ <<x>> \in Seq({x}) /\ <<x>> # <<>>
<1> SUFFICES ASSUME NEW x PROVE Range(<<x>>) = {x} /\ <<x>> \in Seq({x}) /\ <<x>> # <<>>
  OBVIOUS
<1> DEFINE s == <<x>>
<1>1. s \in Seq({x}) /\ DOMAIN s = {1} /\ s[1] = x /\ s # <<>>
  OBVIOUS
<1> HIDE DEF s
<1>2. Range(s) = {x}
  BY <1>1 DEF Range
<1> QED
  BY <1>1, <1>2 DEF s

(* A client that lists one codec gets that one. *)
LEMMA PickOnly ==
  ASSUME NEW mine \in Seq(Nat), NEW x, Buildable("frame", x)
  PROVE  Pick("frame", mine, <<x>>) = x
<1> DEFINE t == <<x>>
           common == Range(mine) \cap Range(t)
           built == {id \in Range(t) : Buildable("frame", id)}
<1>1. Range(t) = {x} /\ t \in Seq({x}) /\ t # <<>>
  BY SingletonRange
<1> HIDE DEF t
<1>2. common \subseteq {x} /\ built = {x}
  BY <1>1
<1>3. common # {} => First(mine, common) \in common
  <2>1. common # {} => common \cap Range(mine) # {}
    OBVIOUS
  <2> HIDE DEF common
  <2> QED
    BY <2>1, FirstIs
<1>4. First(t, built) \in built
  <2>1. built \cap Range(t) # {}
    BY <1>1, <1>2
  <2> HIDE DEF built
  <2> QED
    BY <1>1, <2>1, FirstIs
<1>5. Pick("frame", mine, t) = IF common # {} THEN First(mine, common) ELSE First(t, built)
  BY <1>1, <1>2 DEF Pick
<1> HIDE DEF common, built
<1>6. Pick("frame", mine, t) = x
  BY <1>2, <1>3, <1>4, <1>5
<1> QED
  BY <1>6 DEF t

(* The server's order decides. *)
LEMMA PickMine ==
  ASSUME NEW p, NEW mine \in Seq(Nat), NEW theirs \in Seq(Nat),
         {i \in DOMAIN mine : mine[i] \in Range(theirs)} # {}
  PROVE  Pick(p, mine, theirs) = mine[Min({i \in DOMAIN mine : mine[i] \in Range(theirs)})]
<1> DEFINE common == Range(mine) \cap Range(theirs)
           T == {i \in DOMAIN mine : mine[i] \in common}
           U == {i \in DOMAIN mine : mine[i] \in Range(theirs)}
<1>1. \A i \in DOMAIN mine : mine[i] \in Range(mine)
  BY DEF Range
<1>2. T = U /\ common # {}
  BY <1>1
<1>3. theirs # <<>>
  BY <1>2 DEF Range
<1>4. First(mine, common) = mine[Min(T)]
  BY DEF First
<1>5. Pick(p, mine, theirs) = First(mine, common)
  BY <1>2, <1>3 DEF Pick
<1> QED
  BY <1>2, <1>4, <1>5

LEMMA OfferIs ==
  ASSUME NEW c, Listed(c), ValidConfig(c)
  PROVE  /\ IsOffer(OfferOf(c.names))
         /\ OfferOf(c.names).cipher = CandidateIds(c.names, "cipher")
         /\ OfferOf(c.names).transport = CandidateIds(c.names, "transport")
         /\ OfferOf(c.names).fec = CandidateIds(c.names, "fec")
         /\ OfferOf(c.names).frame = CandidateIds(c.names, "frame")
<1>1. /\ OfferOf(c.names).cipher = CandidateIds(c.names, "cipher")
      /\ OfferOf(c.names).transport = CandidateIds(c.names, "transport")
      /\ OfferOf(c.names).fec = CandidateIds(c.names, "fec")
      /\ OfferOf(c.names).frame = CandidateIds(c.names, "frame")
  BY DEF OfferOf, Part
<1>2. \A p \in Part : CandidateIds(c.names, p) \in Seq(Nat)
  BY CandidatesAre
<1>3. "cipher" \in Part /\ "transport" \in Part /\ "fec" \in Part /\ "frame" \in Part
  BY DEF Part
<1> QED
  BY <1>1, <1>2, <1>3 DEF IsOffer

LEMMA Legible == \A a, b, c, d : [cipher |-> a, transport |-> b, fec |-> c, frame |-> d] # Malformed
BY DEF Malformed

(* The offer of an older client lists the first codec only. *)
LEMMA OlderHeard ==
  ASSUME cc.kind = "older", cc.propose = TRUE, Listed(cc), ValidConfig(cc)
  PROVE  Heard(OfferBytes).frame = <<FRAME_V1_FIXED>>
<1> DEFINE o == OfferOf(cc.names)
           d == [cipher |-> Kept(o.cipher), transport |-> Kept(o.transport),
                 fec |-> Kept(o.fec), frame |-> <<FRAME_V1_FIXED>>]
<1>1. IsOffer(o)
  BY OfferIs
<1>2. OfferBytes = SubSeq(EncodeOffer(o), 1, Len(EncodeOffer(o)) - Len(EncodeList(o.frame)))
  BY DEF OfferBytes
<1> HIDE DEF o
<1>3. DecodeOffer(OfferBytes) = d
  BY <1>1, <1>2, DecodeOfferIs
<1>4. d # Malformed /\ d.frame = <<FRAME_V1_FIXED>>
  BY Legible
<1> HIDE DEF d
<1> QED
  BY <1>3, <1>4 DEF Heard

(* This build's offer, when no list is too long. *)
LEMMA ThisHeard ==
  ASSUME cc.kind = "this", cc.propose = TRUE, Listed(cc), ValidConfig(cc),
         NEW p \in Part, Len(CandidateIds(cc.names, p)) <= MAX_OFFER_ALTERNATIVES
  PROVE  Heard(OfferBytes)[p] = CandidateIds(cc.names, p)
<1> DEFINE o == OfferOf(cc.names)
           d == [cipher |-> Kept(o.cipher), transport |-> Kept(o.transport),
                 fec |-> Kept(o.fec), frame |-> Kept(o.frame)]
           l == CandidateIds(cc.names, p)
<1>1. /\ IsOffer(o)
      /\ o.cipher = CandidateIds(cc.names, "cipher")
      /\ o.transport = CandidateIds(cc.names, "transport")
      /\ o.fec = CandidateIds(cc.names, "fec")
      /\ o.frame = CandidateIds(cc.names, "frame")
  BY OfferIs
<1>2. OfferBytes = EncodeOffer(o)
  BY DEF OfferBytes
<1>3. l \in Seq(Nat)
  BY CandidatesAre
<1>4. Kept(l) = l
  <2> HIDE DEF l
  <2>1. Len(l) <= MAX_OFFER_ALTERNATIVES
    BY DEF l
  <2> QED
    BY <1>3, <2>1, KeptIs
<1> HIDE DEF o
<1>5. DecodeOffer(OfferBytes) = d
  BY <1>1, <1>2, DecodeOfferIs
<1>6. d # Malformed
  BY Legible
<1>7. d[p] = Kept(l)
  <2>1. CASE p = "cipher"
    BY <1>1, <2>1
  <2>2. CASE p = "transport"
    BY <1>1, <2>2
  <2>3. CASE p = "fec"
    BY <1>1, <2>3
  <2>4. CASE p = "frame"
    BY <1>1, <2>4
  <2> QED
    BY <2>1, <2>2, <2>3, <2>4 DEF Part
<1> HIDE DEF d
<1> QED
  BY <1>4, <1>5, <1>6, <1>7 DEF Heard

(* Two ends that can meet: one of them of this build; an older client      *)
(* meets it with an offer. *)
Fit(c, s) ==
  /\ c.kind \in {"this", "older", "newer"} /\ s.kind \in Builds
  /\ c.kind = "this" \/ s.kind = "this"
  /\ c.kind = "older" => c.propose = TRUE
  /\ Listed(c) /\ Listed(s)

(* The client understands by the payload what the server chose. *)
LEMMA Understood ==
  ASSUME Fit(cc, sc), ValidConfig(cc), ValidConfig(sc), NEW x, NEW y, sc.tag = <<x, y>>,
         Chosen # Malformed, Check(ReadSelection(Reply))
  PROVE  ReadSelection(Reply) = Chosen
<1>1. /\ IsSelection(Chosen)
      /\ sc.kind = "older" => Chosen.frame = FRAME_V1_FIXED
      /\ sc.kind = "phase1" => Chosen = Defaults
      /\ sc.kind = "this" => Chosen = Negotiate(sc, OfferBytes)
  BY ChosenIs DEF Fit
<1>2. PICK a, b : Chosen = [cipher |-> Chosen.cipher, transport |-> Chosen.transport,
                            fec |-> Chosen.fec, frame |-> Chosen.frame, tag |-> <<a, b>>]
  BY <1>1 DEF IsSelection
<1> DEFINE c == Chosen.cipher
           t == Chosen.transport
           f == Chosen.fec
           r == Chosen.frame
           u == <<1, c, t, f, a, b, r>>
           v == <<1, c, t, f, a, b>>
<1>3. EncodeSelection(Chosen) = u
  <2> HIDE DEF c, t, f, r
  <2>1. Chosen = [cipher |-> c, transport |-> t, fec |-> f, frame |-> r, tag |-> <<a, b>>]
    BY <1>2 DEF c, t, f, r
  <2> QED
    BY <2>1, EncodeIs
<1>4. /\ DecodeSelection(u) = Chosen
      /\ SubSeq(u, 1, SELECTION_LEGACY_LEN) = v
      /\ r = FRAME_V1_FIXED => DecodeSelection(v) = Chosen
      /\ DecodeSelection([u EXCEPT ![1] = 2]) = Malformed
  <2> HIDE DEF c, t, f, r
  <2>1. Chosen = [cipher |-> c, transport |-> t, fec |-> f, frame |-> r, tag |-> <<a, b>>]
    BY <1>2 DEF c, t, f, r
  <2>2. /\ DecodeSelection(<<1, c, t, f, a, b, r>>)
             = [cipher |-> c, transport |-> t, fec |-> f, frame |-> r, tag |-> <<a, b>>]
        /\ SubSeq(<<1, c, t, f, a, b, r>>, 1, SELECTION_LEGACY_LEN) = <<1, c, t, f, a, b>>
        /\ DecodeSelection(<<1, c, t, f, a, b>>)
             = [cipher |-> c, transport |-> t, fec |-> f, frame |-> FRAME_V1_FIXED,
                tag |-> <<a, b>>]
        /\ DecodeSelection([<<1, c, t, f, a, b, r>> EXCEPT ![1] = 2]) = Malformed
    BY DecodeIs
  <2> QED
    BY <2>1, <2>2
<1> HIDE DEF u, v
<1>5. CASE cc.kind # "older"
  <2>1. ReadSelection(Reply) = DecodeSelection(Reply)
    BY <1>5 DEF ReadSelection
  <2>2. CASE sc.kind \in {"this", "newer"}
    <3>1. Reply = u
      BY <1>3, <2>2 DEF Reply, Payload
    <3> QED
      BY <1>4, <2>1, <3>1
  <2>3. CASE sc.kind = "older"
    <3>1. Reply = v
      BY <1>3, <1>4, <2>3 DEF Reply, Payload
    <3> QED
      BY <1>1, <1>4, <2>1, <2>3, <3>1
  <2>4. CASE sc.kind = "phase1"
    <3>1. Reply = <<>>
      BY <2>4 DEF Reply, Payload
    <3> QED
      BY <1>1, <2>1, <2>4, <3>1 DEF DecodeSelection
  <2>5. CASE sc.kind = "next"
    <3>1. Reply = [u EXCEPT ![1] = 2]
      BY <1>3, <2>5 DEF Reply, Payload
    <3> QED
      BY <1>4, <2>1, <3>1 DEF Check
  <2> QED
    BY <2>2, <2>3, <2>4, <2>5 DEF Fit, Builds
<1>6. CASE cc.kind = "older"
  <2>1. sc.kind = "this" /\ cc.propose = TRUE /\ Listed(cc) /\ Listed(sc)
    BY <1>6 DEF Fit
  <2>2. Reply = u
    BY <1>3, <2>1 DEF Reply, Payload
  <2>3. ReadSelection(Reply) = DecodeSelection(v)
    BY <1>4, <1>6, <2>2 DEF ReadSelection
  <2>4. Heard(OfferBytes).frame = <<FRAME_V1_FIXED>>
    BY <1>6, <2>1, OlderHeard
  <2> DEFINE n == Negotiate(sc, OfferBytes)
             mine == CandidateIds(sc.names, "frame")
  <2>5. "frame" \in Part
    BY DEF Part
  <2>6. n.frame = Pick("frame", mine, Heard(OfferBytes).frame)
    <3>1. \A p \in Part : n[p] = Pick(p, CandidateIds(sc.names, p), Heard(OfferBytes)[p])
      BY <1>1, <2>1, NegotiateIs
    <3> HIDE DEF n
    <3> QED
      BY <2>5, <3>1
  <2>7. mine \in Seq(Nat)
    BY <2>1, <2>5, CandidatesAre
  <2>8. Buildable("frame", FRAME_V1_FIXED)
    <3>1. FrameIds["v1-fixed"] = 1 /\ "v1-fixed" \in DOMAIN FrameIds
      BY DEF FrameIds
    <3>2. Registry["frame"] = FrameIds
      BY DEF Registry
    <3> QED
      BY <3>1, <3>2 DEF Buildable, Range, FRAME_V1_FIXED
  <2> HIDE DEF n, mine
  <2>9. n.frame = FRAME_V1_FIXED
    BY <2>4, <2>6, <2>7, <2>8, PickOnly
  <2>10. r = FRAME_V1_FIXED
    BY <1>1, <2>1, <2>9 DEF n
  <2> QED
    BY <1>4, <2>3, <2>10
<1> QED
  BY <1>5, <1>6

-----------------------------------------------------------------------------
(* The handshake *)

Configured ==
  \E n \in Scenarios : cc = ClientEnd(n.client) /\ sc = ServerEnd(n.server)

(* What is under way: the client's offer, and the answers to it, each with *)
(* the session the responder made. *)
Exchange ==
  /\ pc \notin {"Start", "Exited"} => ValidConfig(cc)
  /\ hs # Failed => IsState(hs)
  /\ \A w \in c2s : Asked(w.msg)
  /\ \A w \in s2c :
       /\ Reached /\ Chosen # Malformed
       /\ w.wrapping = Wrapping(sc)
       /\ w.msg.payload.pt = Reply
       /\ SessionFor(w.msg.payload) \in sessions

(* The client runs what the responder chose, with a session it made. *)
Agreed ==
  est # NoSession =>
    /\ ValidConfig(cc) /\ Reached /\ Chosen # Malformed /\ est.selection = Chosen
    /\ \E s \in sessions : Crossed(s, est)

AInv == Configured /\ TInv /\ Exchange /\ Agreed

(* Ends that may meet. *)
Matching == \A n \in Scenarios : Fit(ClientEnd(n.client), ServerEnd(n.server))

(* No client lists more alternatives than an offer holds. *)
Short ==
  \A n \in Scenarios :
    LET c == ClientEnd(n.client)
    IN  ValidConfig(c) =>
          \A p \in Part : Len(CandidateIds(c.names, p)) <= MAX_OFFER_ALTERNATIVES

LEMMA InitAInv ==
  ASSUME Init
  PROVE  AInv
<1>1. TInv
  BY InitTInv
<1>2. Configured
  BY DEF Init, Configured
<1>3. Exchange /\ Agreed
  BY DEF Init, Exchange, Agreed
<1> QED
  BY <1>1, <1>2, <1>3 DEF AInv

(* The configuration does not change, nor what follows from it. *)
LEMMA Constant ==
  ASSUME UNCHANGED <<cc, sc>>
  PROVE  /\ Configured' = Configured /\ OfferBytes' = OfferBytes /\ Chosen' = Chosen
         /\ Reply' = Reply /\ Reached' = Reached
         /\ Wrapping(sc)' = Wrapping(sc) /\ ValidConfig(cc)' = ValidConfig(cc)
<1>1. OfferBytes' = OfferBytes
  BY DEF OfferBytes
<1>2. Chosen' = Chosen
  BY <1>1 DEF Chosen, Selects, OfBuild
<1>3. Reply' = Reply
  BY <1>2 DEF Reply, Payload
<1>4. Reached' = Reached
  BY DEF Reached
<1>5. Configured' = Configured
  BY DEF Configured
<1> QED
  BY <1>1, <1>2, <1>3, <1>4, <1>5

LEMMA ConstantSession ==
  ASSUME UNCHANGED <<cc, sc>>, NEW c
  PROVE  SessionFor(c)' = SessionFor(c)
BY Constant DEF SessionFor

LEMMA ConstantAsked ==
  ASSUME UNCHANGED <<cc, sc>>, NEW msg
  PROVE  Asked(msg)' = Asked(msg)
BY Constant DEF Asked

(* The server's configuration, once it is reached. *)
LEMMA ServerValid ==
  ASSUME Configured, Reached
  PROVE  ValidConfig(sc) /\ \E x, y : sc.tag = <<x, y>>
<1>1. PICK n \in Scenarios : sc = ServerEnd(n.server)
  BY DEF Configured
<1>2. (\E h : sc.tag = ParseTag(h)) /\ (sc.up => ValidConfig(sc))
  BY <1>1, ServerEndIs
<1>3. ValidConfig(sc)
  BY <1>2 DEF Reached
<1>4. sc.tag # <<>>
  BY <1>3 DEF ValidConfig
<1>5. PICK h : sc.tag = ParseTag(h)
  BY <1>2
<1>6. \E x, y : ParseTag(h) = <<x, y>>
  BY <1>4, <1>5, TagIs
<1> QED
  BY <1>3, <1>5, <1>6

(* Steps that send, answer and make nothing. *)
LEMMA Quiet ==
  ASSUME AInv, TInv', UNCHANGED <<cc, sc, sessions>>,
         c2s' \subseteq c2s, s2c' \subseteq s2c,
         hs' = hs \/ hs' = Failed, est' = est \/ est' = NoSession,
         pc' = pc \/ pc' = "Exited" \/ ValidConfig(cc)
  PROVE  AInv'
<1>1. Configured /\ Exchange /\ Agreed
  BY DEF AInv
<1>2. Configured'
  BY <1>1, Constant
<1>3. Exchange'
  <2>1. pc' \notin {"Start", "Exited"} => ValidConfig(cc)'
    BY <1>1, Constant DEF Exchange
  <2>2. hs' # Failed => IsState(hs')
    BY <1>1 DEF Exchange
  <2>3. ASSUME NEW w \in c2s' PROVE Asked(w.msg)'
    BY <1>1, ConstantAsked DEF Exchange
  <2>4. ASSUME NEW w \in s2c'
        PROVE  /\ Reached' /\ Chosen' # Malformed
               /\ w.wrapping = Wrapping(sc)'
               /\ w.msg.payload.pt = Reply'
               /\ SessionFor(w.msg.payload)' \in sessions'
    <3>1. SessionFor(w.msg.payload)' = SessionFor(w.msg.payload)
      BY ConstantSession
    <3> QED
      BY <1>1, <3>1, Constant DEF Exchange
  <2> QED
    BY <2>1, <2>2, <2>3, <2>4 DEF Exchange
<1>4. Agreed'
  BY <1>1, Constant DEF Agreed, Crossed
<1> QED
  BY <1>2, <1>3, <1>4 DEF AInv

LEMMA OpenCarrierAInv ==
  ASSUME AInv, TInv', OpenCarrier
  PROVE  AInv'
<1>1. /\ UNCHANGED <<cc, sc, est>> /\ pc = "Top" /\ hs' = Failed
      /\ c2s' = {} /\ s2c' = {} /\ sessions' = {}
  BY DEF OpenCarrier, confVars
<1>2. est = NoSession
  BY <1>1 DEF AInv, TInv, TypeOK
<1>3. Configured' /\ ValidConfig(cc)'
  BY <1>1, Constant DEF AInv, Exchange
<1>4. Exchange'
  BY <1>1, <1>3 DEF Exchange
<1>5. Agreed'
  BY <1>1, <1>2 DEF Agreed
<1> QED
  BY <1>3, <1>4, <1>5 DEF AInv

LEMMA SendMessage1AInv ==
  ASSUME AInv, TInv', SendMessage1
  PROVE  AInv'
<1> DEFINE w1 == WriteMessage1(NewState(Static("client"), Static(cc.server_pub)),
                               Ephemeral, OfferBytes)
           m == [attempt |-> attempt + 1, wrapping |-> Wrapping(cc), msg |-> w1.msg]
<1>1. /\ UNCHANGED <<cc, sc, est, pc, s2c, sessions>>
      /\ hs' = w1.state /\ c2s' = c2s \cup {m}
  BY DEF SendMessage1, confVars
<1>2. IsState(w1.state) /\ Asked(w1.msg)
  <2> DEFINE e == Ephemeral
             s == NewState(Static("client"), Static(cc.server_pub))
  <2>1. IsState(s)
    BY NewStateIs
  <2> HIDE DEF e, s
  <2>2. /\ IsState(WriteMessage1(s, e, OfferBytes).state)
        /\ OfferBytes = <<>> => WriteMessage1(s, e, OfferBytes).msg.offer = <<>>
        /\ OfferBytes # <<>> =>
             /\ WriteMessage1(s, e, OfferBytes).msg.offer # <<>>
             /\ WriteMessage1(s, e, OfferBytes).msg.offer[1].pt = OfferBytes
    BY <2>1, WriteMessage1Is
  <2> QED
    BY <2>2 DEF Asked, e, s
<1> HIDE DEF w1
<1>3. Configured /\ Exchange /\ Agreed
  BY DEF AInv
<1>4. m.msg = w1.msg
  OBVIOUS
<1> HIDE DEF m
<1>5. Exchange'
  <2>1. pc' \notin {"Start", "Exited"} => ValidConfig(cc)'
    BY <1>1, <1>3, Constant DEF Exchange
  <2>2. hs' # Failed => IsState(hs')
    BY <1>1, <1>2
  <2>3. ASSUME NEW w \in c2s' PROVE Asked(w.msg)'
    <3>1. Asked(w.msg)
      BY <1>1, <1>2, <1>3, <1>4 DEF Exchange
    <3> QED
      BY <1>1, <3>1, ConstantAsked
  <2>4. ASSUME NEW w \in s2c
        PROVE  /\ Reached' /\ Chosen' # Malformed
               /\ w.wrapping = Wrapping(sc)'
               /\ w.msg.payload.pt = Reply'
               /\ SessionFor(w.msg.payload)' \in sessions
    <3>1. SessionFor(w.msg.payload)' = SessionFor(w.msg.payload)
      BY <1>1, ConstantSession
    <3> QED
      BY <1>1, <1>3, <3>1, Constant DEF Exchange
  <2> QED
    BY <1>1, <2>1, <2>2, <2>3, <2>4 DEF Exchange
<1>6. Agreed'
  BY <1>1, <1>3, Constant DEF Agreed, Crossed
<1>7. Configured'
  BY <1>1, <1>3, Constant
<1> QED
  BY <1>5, <1>6, <1>7 DEF AInv

LEMMA RespondAInv ==
  ASSUME AInv, TInv', NEW w \in c2s, RespondMessage1(w)
  PROVE  AInv'
<1> DEFINE r == Respond(w)
           m == [attempt |-> w.attempt, wrapping |-> Wrapping(sc), msg |-> r.msg]
<1>1. UNCHANGED <<cc, sc, est, pc, hs>> /\ c2s' \subseteq c2s
  BY DEF RespondMessage1, confVars, hsVars
<1>2. Configured /\ Exchange /\ Agreed
  BY DEF AInv
<1>3. r = Failed => UNCHANGED <<s2c, sessions>>
  BY DEF RespondMessage1
<1>4. r # Failed => s2c' = s2c \cup {m} /\ sessions' = sessions \cup {r.session}
  BY DEF RespondMessage1
<1>5. r # Failed => /\ Reached /\ Chosen # Malformed
                    /\ r.msg.payload.pt = Reply
                    /\ r.session = SessionFor(r.msg.payload)
  <2>1. Asked(w.msg)
    BY <1>2 DEF Exchange
  <2> QED
    BY <2>1, RespondIs
<1> HIDE DEF r
<1>6. m.msg = r.msg /\ m.wrapping = Wrapping(sc)
  OBVIOUS
<1> HIDE DEF m
<1>7. sessions \subseteq sessions'
  BY <1>3, <1>4
<1>8. ASSUME NEW v \in s2c'
      PROVE  /\ Reached /\ Chosen # Malformed /\ v.wrapping = Wrapping(sc)
             /\ v.msg.payload.pt = Reply /\ SessionFor(v.msg.payload) \in sessions'
  <2>1. CASE v \in s2c
    BY <1>2, <1>7, <2>1 DEF Exchange
  <2>2. CASE v \notin s2c
    <3>1. r # Failed /\ v = m
      BY <1>3, <1>4, <1>8, <2>2
    <3> QED
      BY <1>4, <1>5, <1>6, <3>1
  <2> QED
    BY <2>1, <2>2
<1>9. Exchange'
  <2>1. pc' \notin {"Start", "Exited"} => ValidConfig(cc)'
    BY <1>1, <1>2, Constant DEF Exchange
  <2>2. hs' # Failed => IsState(hs')
    BY <1>1, <1>2 DEF Exchange
  <2>3. ASSUME NEW v \in c2s' PROVE Asked(v.msg)'
    <3>1. Asked(v.msg)
      BY <1>1, <1>2 DEF Exchange
    <3> QED
      BY <1>1, <3>1, ConstantAsked
  <2>4. ASSUME NEW v \in s2c'
        PROVE  /\ Reached' /\ Chosen' # Malformed
               /\ v.wrapping = Wrapping(sc)'
               /\ v.msg.payload.pt = Reply'
               /\ SessionFor(v.msg.payload)' \in sessions'
    <3>1. SessionFor(v.msg.payload)' = SessionFor(v.msg.payload)
      BY <1>1, ConstantSession
    <3> QED
      BY <1>1, <1>8, <3>1, Constant
  <2> QED
    BY <2>1, <2>2, <2>3, <2>4 DEF Exchange
<1>10. Agreed'
  BY <1>1, <1>2, <1>7, Constant DEF Agreed, Crossed
<1>11. Configured'
  BY <1>1, <1>2, Constant
<1> QED
  BY <1>9, <1>10, <1>11 DEF AInv

LEMMA AnswerAInv ==
  ASSUME Matching, AInv, TInv', NEW w \in s2c, Answer(w)
  PROVE  AInv'
<1> DEFINE t == Finalize(ReadMessage2(hs, w.msg))
           e == IF w.wrapping = Wrapping(cc) THEN t ELSE Failed
<1>1. /\ UNCHANGED <<cc, sc, c2s, sessions>> /\ s2c' \subseteq s2c
      /\ hs' = Failed /\ hs # Failed /\ pc = "Handshake"
      /\ e = Failed => UNCHANGED <<pc, est>>
      /\ e # Failed => est' = e /\ pc' = "Established"
  BY DEF Answer, Awaiting, InHandshake, confVars
<1>2. Configured /\ Exchange /\ Agreed
  BY DEF AInv
<1>3. ValidConfig(cc) /\ IsState(hs)
  BY <1>1, <1>2 DEF Exchange
<1>4. /\ Reached /\ Chosen # Malformed /\ w.wrapping = Wrapping(sc)
      /\ w.msg.payload.pt = Reply /\ SessionFor(w.msg.payload) \in sessions
  BY <1>2 DEF Exchange
<1>5. ASSUME e # Failed
      PROVE  est'.selection = Chosen /\ Crossed(SessionFor(w.msg.payload), est')
  <2>1. Wrapping(cc) = Wrapping(sc) /\ t # Failed /\ est' = t
    BY <1>1, <1>4, <1>5
  <2>2. ReadSelection(Reply) = Chosen
    <3>1. Fit(cc, sc)
      BY <1>2 DEF Configured, Matching
    <3>2. PICK x, y : sc.tag = <<x, y>>
      BY <1>2, <1>4, ServerValid
    <3>3. ValidConfig(sc)
      BY <1>2, <1>4, ServerValid
    <3>4. ReadMessage2(hs, w.msg) # Failed /\ Check(ReadSelection(ReadMessage2(hs, w.msg).payload))
      BY <2>1, FinalizeIs
    <3>5. ReadMessage2(hs, w.msg).payload = Reply
      BY <1>3, <1>4, <3>4, ReadMessage2Is
    <3>6. Check(ReadSelection(Reply))
      BY <3>4, <3>5
    <3> QED
      BY <1>3, <1>4, <3>1, <3>2, <3>3, <3>6, Understood
  <2>3. Crossed(SessionFor(w.msg.payload), t) /\ t.selection = Chosen
    BY <1>3, <1>4, <2>1, <2>2, CrossedOver
  <2> HIDE DEF t
  <2> QED
    BY <2>1, <2>3
<1> HIDE DEF e, t
<1>6. Exchange'
  <2>1. ValidConfig(cc)'
    BY <1>1, <1>3, Constant
  <2>3. ASSUME NEW v \in c2s PROVE Asked(v.msg)'
    BY <1>1, <1>2, ConstantAsked DEF Exchange
  <2>4. ASSUME NEW v \in s2c'
        PROVE  /\ Reached' /\ Chosen' # Malformed
               /\ v.wrapping = Wrapping(sc)'
               /\ v.msg.payload.pt = Reply'
               /\ SessionFor(v.msg.payload)' \in sessions
    <3>1. SessionFor(v.msg.payload)' = SessionFor(v.msg.payload)
      BY <1>1, ConstantSession
    <3>2. v \in s2c
      BY <1>1
    <3> QED
      BY <1>1, <1>2, <3>1, <3>2, Constant DEF Exchange
  <2> QED
    BY <1>1, <2>1, <2>3, <2>4 DEF Exchange
<1>7. Agreed'
  <2>1. CASE e = Failed
    BY <1>1, <1>2, <2>1, Constant DEF Agreed, Crossed
  <2>2. CASE e # Failed
    <3>1. ValidConfig(cc)' /\ Reached' /\ Chosen' # Malformed /\ est'.selection = Chosen'
      BY <1>1, <1>3, <1>4, <1>5, <2>2, Constant
    <3>2. \E s \in sessions' : Crossed(s, est')
      BY <1>1, <1>4, <1>5, <2>2
    <3> QED
      BY <3>1, <3>2 DEF Agreed, Crossed
  <2> QED
    BY <2>1, <2>2
<1>8. Configured'
  BY <1>1, <1>2, Constant
<1> QED
  BY <1>6, <1>7, <1>8 DEF AInv

LEMMA NextAInv ==
  ASSUME Matching, AInv, [Next]_vars
  PROVE  AInv'
<1> USE DEF confVars, stopVars, netVars, hsVars
<1>1. TInv /\ Exchange
  BY DEF AInv
<1>2. TInv'
  BY <1>1, NextTInv
<1>3. pc \notin {"Start", "Exited"} => ValidConfig(cc)
  BY <1>1 DEF Exchange
<1>4. CASE Start
  <2>1. UNCHANGED <<cc, sc, c2s, s2c, sessions, hs, est>> /\ (pc' = "Exited" \/ ValidConfig(cc))
    BY <1>4 DEF Start
  <2> QED
    BY <1>2, <2>1, Quiet
<1>5. CASE StopAtTop
  <2>1. UNCHANGED <<cc, sc, c2s, s2c, sessions, hs, est>> /\ pc' = "Exited"
    BY <1>5 DEF StopAtTop, Leave
  <2> QED
    BY <1>2, <2>1, Quiet
<1>6. CASE OpenCarrier
  BY <1>2, <1>6, OpenCarrierAInv
<1>7. CASE StopInHandshake
  <2>1. UNCHANGED <<cc, sc, c2s, s2c, sessions, hs, est>> /\ pc' = "Exited"
    BY <1>7 DEF StopInHandshake, Leave
  <2> QED
    BY <1>2, <2>1, Quiet
<1>8. CASE SendMessage1
  BY <1>2, <1>8, SendMessage1AInv
<1>9. CASE GiveUp
  <2>1. UNCHANGED <<cc, sc, c2s, s2c, sessions, hs, est>> /\ pc = "Handshake"
    BY <1>9 DEF GiveUp, HandshakeFails, InHandshake
  <2> QED
    BY <1>2, <1>3, <2>1, Quiet
<1>10. ASSUME NEW w \in s2c, Answer(w) PROVE AInv'
  BY <1>2, <1>10, AnswerAInv
<1>11. CASE AttemptLost
  <2>1. UNCHANGED <<cc, sc, c2s, s2c, sessions, est, pc>> /\ hs' = Failed
    BY <1>11 DEF AttemptLost
  <2> QED
    BY <1>2, <2>1, Quiet
<1>12. CASE SleepEnds
  <2>1. UNCHANGED <<cc, sc, c2s, s2c, sessions, hs, est>> /\ pc \in {"Sleep", "Pause"}
    BY <1>12 DEF SleepEnds
  <2> QED
    BY <1>2, <1>3, <2>1, Quiet
<1>13. CASE StopInSleep
  <2>1. UNCHANGED <<cc, sc, c2s, s2c, sessions, hs, est>> /\ pc' = "Exited"
    BY <1>13 DEF StopInSleep, Leave
  <2> QED
    BY <1>2, <2>1, Quiet
<1>14. CASE StartTunnel
  <2>1. UNCHANGED <<cc, sc, c2s, s2c, sessions, hs, est>> /\ pc = "Established"
    BY <1>14 DEF StartTunnel
  <2> QED
    BY <1>2, <1>3, <2>1, Quiet
<1>15. CASE TunnelStops \/ TunnelEnds
  <2>1. UNCHANGED <<cc, sc, c2s, s2c, sessions, hs>> /\ est' = NoSession /\ pc = "Running"
    BY <1>15 DEF TunnelStops, TunnelEnds, Ended
  <2> QED
    BY <1>2, <1>3, <2>1, Quiet
<1>16. CASE CarrierFails
  <2>1. UNCHANGED <<cc, sc, c2s, s2c, sessions, hs, est>> /\ pc = "Top"
    BY <1>16 DEF CarrierFails
  <2> QED
    BY <1>2, <1>3, <2>1, Quiet
<1>17. CASE SendFails
  <2>1. UNCHANGED <<cc, sc, c2s, s2c, sessions, hs, est>> /\ pc = "Handshake"
    BY <1>17 DEF SendFails, HandshakeFails, InHandshake
  <2> QED
    BY <1>2, <1>3, <2>1, Quiet
<1>18. ASSUME NEW w \in c2s, RespondMessage1(w) PROVE AInv'
  BY <1>2, <1>18, RespondAInv
<1>20. CASE Lose
  <2>1. /\ UNCHANGED <<cc, sc, sessions, hs, est, pc>>
        /\ c2s' \subseteq c2s /\ s2c' \subseteq s2c
    BY <1>20 DEF Lose
  <2> QED
    BY <1>2, <2>1, Quiet
<1>19. CASE IpcStop \/ CtrlC \/ UNCHANGED vars
  <2>1. UNCHANGED <<cc, sc, c2s, s2c, sessions, hs, est, pc>>
    BY <1>19 DEF IpcStop, CtrlC, vars
  <2> QED
    BY <1>2, <2>1, Quiet
<1> QED
  BY <1>4, <1>5, <1>6, <1>7, <1>8, <1>9, <1>10, <1>11, <1>12, <1>13, <1>14, <1>15, <1>16,
     <1>17, <1>18, <1>19, <1>20 DEF Next, Client, Faults

LEMMA AlwaysAInv ==
  ASSUME Matching
  PROVE  Spec => []AInv
<1>1. Init => AInv
  BY InitAInv
<1>2. AInv /\ [Next]_vars => AInv'
  BY NextAInv
<1> QED
  BY <1>1, <1>2, PTL DEF Spec

(* The client's session is one the responder made, with the same           *)
(* transcript, the same keys crossed over and the same profile, whatever   *)
(* the two ends configured and whatever builds they are, however the       *)
(* network loses, delays and repeats the messages of the attempts          *)
(* (client, client_finalize, respond_message_1, handle_handshake). *)
THEOREM EndsAlwaysAgree ==
  ASSUME Matching
  PROVE  Spec => []EndsAgree
<1>1. AInv => EndsAgree
  BY DEF AInv, TInv, Agreed, Crossed, EndsAgree
<1>2. Spec => []AInv
  BY AlwaysAInv
<1> QED
  BY <1>1, <1>2, PTL

(* Of the parts both ends configured a session runs the one the server     *)
(* lists first, when no client lists more than its offer holds (negotiate, *)
(* pick, ClientOffer::encode and decode, Selection::encode and decode). *)
THEOREM ServerOrderWins ==
  ASSUME Matching, Short
  PROVE  Spec => []ServerOrderDecides
<1>1. AInv => ServerOrderDecides
  <2> SUFFICES ASSUME AInv, est # NoSession, cc.kind = "this", sc.kind = "this", cc.propose,
                      NEW p \in Part,
                      {i \in DOMAIN CandidateIds(sc.names, p) :
                         CandidateIds(sc.names, p)[i] \in Range(CandidateIds(cc.names, p))} # {}
               PROVE  est.selection[p] =
                        CandidateIds(sc.names, p)[Min({i \in DOMAIN CandidateIds(sc.names, p) :
                         CandidateIds(sc.names, p)[i] \in Range(CandidateIds(cc.names, p))})]
    BY DEF ServerOrderDecides
  <2> DEFINE mine == CandidateIds(sc.names, p)
             theirs == CandidateIds(cc.names, p)
             n == Negotiate(sc, OfferBytes)
  <2>1. /\ Configured /\ ValidConfig(cc) /\ Reached /\ Chosen # Malformed
        /\ est.selection = Chosen
    BY DEF AInv, Agreed
  <2>2. ValidConfig(sc) /\ \E x, y : sc.tag = <<x, y>>
    BY <2>1, ServerValid
  <2>3. PICK x, y : sc.tag = <<x, y>>
    BY <2>2
  <2>4. /\ Listed(cc) /\ Listed(sc) /\ sc.kind \in Builds
        /\ Len(theirs) <= MAX_OFFER_ALTERNATIVES
    BY <2>1 DEF Configured, Matching, Fit, Short
  <2>5. Chosen = n
    BY <2>1, <2>3, <2>4, ChosenIs
  <2>6. n[p] = Pick(p, mine, Heard(OfferBytes)[p])
    BY <2>1, <2>3, <2>5, NegotiateIs
  <2>7. Heard(OfferBytes)[p] = theirs
    BY <2>1, <2>4, ThisHeard
  <2>8. mine \in Seq(Nat) /\ theirs \in Seq(Nat)
    BY <2>1, <2>2, <2>4, CandidatesAre
  <2> HIDE DEF mine, theirs, n
  <2>9. Pick(p, mine, theirs) = mine[Min({i \in DOMAIN mine : mine[i] \in Range(theirs)})]
    BY <2>8, PickMine DEF mine, theirs
  <2> QED
    BY <2>1, <2>5, <2>6, <2>7, <2>9 DEF mine, theirs
<1>2. Spec => []AInv
  BY AlwaysAInv
<1> QED
  BY <1>1, <1>2, PTL

=============================================================================
