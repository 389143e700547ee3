--------------------------- MODULE FecLinkProofs ---------------------------
(***************************************************************************)
(* Forward error correction end to end, for every erasure code that keeps  *)
(* CodeAssumption, every size of groups and amount of parity, every number *)
(* of packets that does not reuse a group id, and every order, loss and    *)
(* repetition of their datagrams.                                          *)
(***************************************************************************)
EXTENDS FecLink, FiniteSetTheorems, SequenceTheorems, WellFoundedInduction,
        NaturalsInduction, TLAPS

-----------------------------------------------------------------------------
(* The settings the theorems are about.  Groups of several packets keep    *)
(* their parity count (it may grow inside a group otherwise, see InBounds) *)
(* and no group id is used twice. *)
Steady ==
  \A c \in Shapes :
    LET f == ConfigureFec(c)
    IN  /\ Params(f).k > 0
        /\ c.data <= GROUP_MOD
        /\ \/ f.k = 1 /\ f.min_m < 255 /\ f.max_m < 255
           \/ f.min_m = f.max_m /\ f.current_m = f.min_m

-----------------------------------------------------------------------------
(* The inductive invariant. *)

(* h is the controller f after some samples of the loss. *)
Moved(f, h) ==
  h = [k |-> f.k, min_m |-> f.min_m, max_m |-> f.max_m,
       current_m |-> h.current_m, smoothed_loss |-> h.smoothed_loss,
       up |-> f.up, down |-> f.down]

(* The controller moves its count and its average, and the size of groups  *)
(* stays. *)
Tuned ==
  /\ shape \in Shapes
  /\ Moved(ConfigureFec(shape), fec)
  /\ fec.smoothed_loss \in 0 .. 1000
  /\ fec.current_m \in 0 .. MostParity
  /\ observed \in Nat
  /\ observed > 0 => fec.current_m \in fec.min_m .. Max({fec.min_m, fec.max_m})
  /\ K = Params(ConfigureFec(shape)).k
  /\ K > 1 => fec.current_m = ConfigureFec(shape).current_m

(* Plain types, and the counts of a packet that nobody offered. *)
Plain ==
  /\ group_id \in Slots(GROUP_MOD)
  /\ group_buffer \in Seq(Packets) /\ Len(group_buffer) < K
  /\ len \in Seq(Lens) /\ Len(len) <= shape.data
  /\ protected \subseteq Offered
  /\ writes \in [Source -> 0 .. 2]
  /\ \A n \in Source \ Offered : writes[n] = 0
  /\ rx_groups = [g \in Slots(GROUP_MOD) |-> rx_groups[g]]
  /\ ~panicked /\ ~garbage
  /\ panicked \in BOOLEAN /\ garbage \in BOOLEAN

IsDatagram(p) ==
  /\ p = [type |-> p.type, group |-> p.group, index |-> p.index, m |-> p.m,
          sym |-> p.sym]
  /\ p.type \in {"Data", "Fec"}
  /\ p.group \in Slots(GROUP_MOD)
  /\ p.m \in 0 .. MostParity
  /\ p.index \in Slots(K + p.m)
  /\ p.type = "Data" <=> p.index < K
  /\ K > 1 => p.m = fec.current_m

Carries(p, n) == p.type = "Data" /\ n \in Offered /\ p.sym = Packet(n, len[n])

(* A packet has one datagram, a slot one symbol, a group one size. *)
NetOK ==
  /\ \A p \in net : IsDatagram(p)
  /\ \A p \in net : p.type = "Data" =>
       \E n \in Offered : Carries(p, n) /\ (n \in protected <=> p.m > 0)
  /\ \A p, q \in net : p.type = "Data" /\ q.type = "Data" /\ p.sym = q.sym => p = q
  /\ \A p, q \in net : p.group = q.group =>
       p.m = q.m /\ (p.index = q.index => p = q)

(* The symbols of a group are those of one list of sources, and parity is  *)
(* only sent for sources that were. *)
Coded ==
  /\ \A p \in net : \E buf \in [1 .. K -> Packets] :
       \A q \in net : q.group = p.group => q.sym = Symbol(buf, q.index)
  /\ \A p \in net : p.type = "Fec" =>
       \A i \in Slots(K) : \E q \in net : q.group = p.group /\ q.index = i

(* While packets are to come, the open group is the newest and holds what  *)
(* was sent of it. *)
Open ==
  Len(len) < shape.data =>
    /\ group_id + (IF group_buffer = <<>> THEN 0 ELSE 1) <= Len(len)
    /\ \A p \in net : p.group <= group_id
    /\ \A p \in net : p.group = group_id =>
         p.index < Len(group_buffer) /\ p.sym = group_buffer[p.index + 1]
    /\ \A j \in Slots(Len(group_buffer)) :
         \E p \in net : p.group = group_id /\ p.index = j

(* A group of the receiver holds symbols of its group in the network, and  *)
(* counts as delivered what it has as data and what it has recovered. *)
GroupOK(r, g) ==
  /\ r = [m |-> r.m, symbols |-> r.symbols, delivered |-> r.delivered,
          decoded |-> r.decoded]
  /\ r.symbols = [i \in Slots(K + r.m) |-> r.symbols[i]]
  /\ r.delivered \subseteq Slots(K) /\ r.decoded \in BOOLEAN
  /\ r.m > 0
  /\ \E p \in net : p.group = g
  /\ \A p \in net : p.group = g => p.m = r.m
  /\ \A i \in Slots(K + r.m) : r.symbols[i] # Missing =>
       \E p \in net : p.group = g /\ p.index = i /\ p.sym = r.symbols[i]
  /\ \A i \in Slots(K) : r.symbols[i] # Missing => i \in r.delivered
  /\ \A i \in r.delivered : \E p \in net : p.group = g /\ p.index = i
  /\ r.decoded => r.delivered = Slots(K)

RxOK == \A g \in Slots(GROUP_MOD) : rx_groups[g] = NoGroup \/ GroupOK(rx_groups[g], g)

(* What was written is what the groups count as delivered. *)
Written ==
  /\ \A p \in net : \A n \in Offered : Carries(p, n) /\ p.m > 0 =>
       writes[n] = IF p.index \in rx_groups[p.group].delivered THEN 1 ELSE 0
  /\ suppressed \subseteq Source
  /\ \A n \in suppressed : writes[n] > 0

Complete ==
  \A g \in Slots(GROUP_MOD) :
    /\ rx_groups[g] # NoGroup
    /\ Cardinality(Present(rx_groups[g])) >= K
    /\ Alike(rx_groups[g])
    => rx_groups[g].delivered = Slots(K)

IInv ==
  Tuned /\ Plain /\ NetOK /\ Coded /\ Open /\ RxOK /\ Written /\ Complete

-----------------------------------------------------------------------------
(* Greatest and least elements *)

LEMMA LeastNat ==
  ASSUME NEW T, T \subseteq Nat, T # {}
  PROVE  \E x \in T : \A y \in T : x <= y
<1> DEFINE Less == {ss \in Nat \X Nat : ss[1] < ss[2]}
<1>1. IsWellFoundedOn(Less, Nat)
  BY NatLessThanWellFounded DEF OpToRel
<1>2. PICK x \in T : \A y \in T : ~(<<y, x>> \in Less)
  <2> HIDE DEF Less
  <2> QED
    BY <1>1, WFMin
<1>3. ASSUME NEW y \in T PROVE x <= y
  <2>1. <<y, x>> \in Nat \X Nat
    OBVIOUS
  <2>2. ~(<<y, x>>[1] < <<y, x>>[2])
    BY <1>2, <2>1
  <2> QED
    BY <2>2
<1> QED
  BY <1>3

LEMMA MinNat ==
  ASSUME NEW T, T \subseteq Nat, T # {}
  PROVE  Min(T) \in T /\ \A y \in T : Min(T) <= y
BY LeastNat DEF Min

LEMMA MaxNat ==
  ASSUME NEW T, T \subseteq Nat, T # {}, NEW b \in Nat, \A y \in T : y <= b
  PROVE  Max(T) \in T /\ \A y \in T : y <= Max(T)
<1> DEFINE D == {b - y : y \in T}
<1>1. D \subseteq Nat /\ D # {}
  <2>1. D \subseteq Nat
    OBVIOUS
  <2>2. D # {}
    OBVIOUS
  <2> QED
    BY <2>1, <2>2
<1>2. PICK d \in D : \A e \in D : d <= e
  <2> HIDE DEF D
  <2> QED
    BY <1>1, LeastNat
<1>3. PICK x \in T : d = b - x
  BY <1>2
<1>4. \A y \in T : x >= y
  <2> TAKE y \in T
  <2>1. b - y \in D
    OBVIOUS
  <2> QED
    BY <1>2, <1>3, <2>1
<1> QED
  BY <1>3, <1>4 DEF Max

LEMMA MaxTwo ==
  ASSUME NEW a, NEW b, a \in Int, b \in Int
  PROVE  Max({a, b}) = IF a >= b THEN a ELSE b
<1>1. CASE a >= b
  BY <1>1 DEF Max
<1>2. CASE ~(a >= b)
  BY <1>2 DEF Max
<1> QED
  BY <1>1, <1>2

LEMMA MinTwo ==
  ASSUME NEW a, NEW b, a \in Int, b \in Int
  PROVE  Min({a, b}) = IF a <= b THEN a ELSE b
<1>1. CASE a <= b
  BY <1>1 DEF Min
<1>2. CASE ~(a <= b)
  BY <1>2 DEF Min
<1> QED
  BY <1>1, <1>2

LEMMA MaxThree ==
  ASSUME NEW a, NEW b, NEW c, a \in Nat, b \in Nat, c \in Nat
  PROVE  /\ Max({a, b, c}) \in Nat
         /\ a <= Max({a, b, c}) /\ b <= Max({a, b, c}) /\ c <= Max({a, b, c})
<1> DEFINE T == {a, b, c}
<1>1. T \subseteq Nat /\ T # {} /\ a + b + c \in Nat /\ \A y \in T : y <= a + b + c
  OBVIOUS
<1>2. a \in T /\ b \in T /\ c \in T
  OBVIOUS
<1>3. Max(T) \in T /\ \A y \in T : y <= Max(T)
  <2> HIDE DEF T
  <2> QED
    BY <1>1, MaxNat
<1> HIDE DEF T
<1>4. Max(T) \in Nat /\ a <= Max(T) /\ b <= Max(T) /\ c <= Max(T)
  BY <1>1, <1>2, <1>3
<1> QED
  BY <1>4 DEF T

-----------------------------------------------------------------------------
(* The controller *)

(* What configure_fec builds. *)
IsController(f) ==
  /\ f = [k |-> f.k, min_m |-> f.min_m, max_m |-> f.max_m,
          current_m |-> f.current_m, smoothed_loss |-> f.smoothed_loss,
          up |-> f.up, down |-> f.down]
  /\ f.k \in Nat /\ f.k <= 255
  /\ f.min_m \in Nat /\ f.min_m <= 255
  /\ f.max_m \in Nat /\ f.max_m <= 255
  /\ f.current_m \in Nat /\ f.current_m <= 255
  /\ f.smoothed_loss \in 0 .. 1000
  /\ \E n \in Nat : DOMAIN f.up \subseteq 1 .. n /\ DOMAIN f.down \subseteq 1 .. n

LEMMA Average ==
  ASSUME NEW a, NEW b, a \in 0 .. 1000, b \in 0 .. 1000
  PROVE  (3 * a + b) \div 4 \in 0 .. 1000
OBVIOUS

LEMMA WithParamsType ==
  ASSUME NEW k, NEW a, NEW b, NEW i,
         k \in 0 .. 255, a \in 0 .. 255, b \in 0 .. 255, i \in 0 .. 255
  PROVE  /\ IsController(WithParams(k, a, b, i))
         /\ WithParams(k, a, b, i).smoothed_loss = 0
<1> DEFINE f == WithParams(k, a, b, i)
           n == Max({b, 1})
<1>1. n \in Nat
  BY MaxTwo
<1>2. /\ f.k = k /\ f.min_m = a /\ f.max_m = b /\ f.current_m = i
      /\ f.smoothed_loss = 0 /\ DOMAIN f.up = 1 .. n /\ DOMAIN f.down = 1 .. n
  BY DEF WithParams
<1>3. f = [k |-> f.k, min_m |-> f.min_m, max_m |-> f.max_m,
          current_m |-> f.current_m, smoothed_loss |-> f.smoothed_loss,
          up |-> f.up, down |-> f.down]
  BY DEF WithParams
<1> HIDE DEF f, n
<1>4. /\ k \in Nat /\ k <= 255 /\ a \in Nat /\ a <= 255
      /\ b \in Nat /\ b <= 255 /\ i \in Nat /\ i <= 255
  OBVIOUS
<1>5. \E x \in Nat : DOMAIN f.up \subseteq 1 .. x /\ DOMAIN f.down \subseteq 1 .. x
  BY <1>1, <1>2
<1>6. 0 \in 0 .. 1000
  OBVIOUS
<1>7. IsController(f) /\ f.smoothed_loss = 0
  BY <1>2, <1>3, <1>4, <1>5, <1>6 DEF IsController
<1> QED
  BY <1>7 DEF f

LEMMA ConfigureType ==
  ASSUME NEW c \in Shapes
  PROVE  IsController(ConfigureFec(c)) /\ ConfigureFec(c).smoothed_loss = 0
<1>1. /\ c.k \in 0 .. 255 /\ c.min_m \in 0 .. 255 /\ c.max_m \in 0 .. 255
      /\ c.initial_m \in 0 .. 255
  BY FecLinkAssumption
<1>2. IsController(DefaultForVpn) /\ DefaultForVpn.smoothed_loss = 0
  BY DEF IsController, DefaultForVpn
<1>3. /\ IsController(WithParams(c.k, c.min_m, c.max_m, c.initial_m))
      /\ WithParams(c.k, c.min_m, c.max_m, c.initial_m).smoothed_loss = 0
  BY <1>1, WithParamsType
<1>4. /\ IsController(WithParams(c.k, 0, 0, 0))
      /\ WithParams(c.k, 0, 0, 0).smoothed_loss = 0
  BY <1>1, WithParamsType
<1> QED
  BY <1>2, <1>3, <1>4 DEF ConfigureFec

(* observe clamps, whatever the bands say. *)
Clamps(f, h) ==
  /\ Moved(f, h)
  /\ h.smoothed_loss \in 0 .. 1000
  /\ h.current_m \in f.min_m .. Max({f.min_m, f.max_m})

IsRatio(loss) == loss \in 0 .. 1000

LEMMA ObserveType ==
  ASSUME NEW f, IsController(f), NEW loss, IsRatio(loss)
  PROVE  Clamps(f, Observe(f, loss))
<1> DEFINE s == (3 * f.smoothed_loss + loss) \div 4
           over == {i \in DOMAIN f.up : s > f.up[i]}
           crossed == Crossed(f, s)
           under == {i \in DOMAIN f.down : i < crossed /\ s < f.down[i]}
           mm == Lowered(f, s, crossed)
           asked == IF s < f.down[1] THEN f.min_m ELSE mm
<1>1. PICK n \in Nat : DOMAIN f.up \subseteq 1 .. n /\ DOMAIN f.down \subseteq 1 .. n
  BY DEF IsController
<1>2. /\ f.min_m \in Nat /\ f.max_m \in Nat /\ f.current_m \in Nat
      /\ f.smoothed_loss \in 0 .. 1000
  BY DEF IsController
<1>3. s \in 0 .. 1000
  <2>1. loss \in 0 .. 1000
    BY DEF IsRatio
  <2>2. \A a : a \in 0 .. 1000 => (3 * a + loss) \div 4 \in 0 .. 1000
    BY <2>1, Average
  <2> HIDE DEF s
  <2>3. s = (3 * f.smoothed_loss + loss) \div 4
    BY DEF s
  <2> QED
    BY <1>2, <2>2, <2>3
<1>4. crossed \in Nat
  <2>1. CASE over = {}
    BY <2>1, <1>2 DEF Crossed
  <2>2. CASE over # {}
    <3>1. over \subseteq Nat /\ \A y \in over : y <= n
      BY <1>1
    <3>2. Max(over) \in over
      <4> HIDE DEF over
      <4> QED
        BY <2>2, <3>1, MaxNat
    <3>3. Max(over) \in Nat
      BY <3>1, <3>2
    <3>4. Min({Max(over), f.max_m}) \in Nat
      <4> HIDE DEF over
      <4>1. Max(over) \in Int /\ f.max_m \in Int
        BY <3>3, <1>2
      <4>2. Min({Max(over), f.max_m})
              = IF Max(over) <= f.max_m THEN Max(over) ELSE f.max_m
        BY <4>1, MinTwo
      <4> QED
        BY <4>2, <3>3, <1>2
    <3> QED
      BY <2>2, <3>4 DEF Crossed
  <2> QED
    BY <2>1, <2>2
<1>5. mm \in Nat
  <2>1. CASE under = {}
    BY <2>1, <1>4 DEF Lowered
  <2>2. CASE under # {}
    <3>1. under \subseteq Nat
      BY <1>1
    <3>2. Min(under) \in under
      <4> HIDE DEF under
      <4> QED
        BY <2>2, <3>1, MinNat
    <3>3. Min(under) \in Nat
      BY <3>1, <3>2
    <3>4. Max({Min(under), f.min_m}) \in Nat
      <4> HIDE DEF under
      <4>1. Min(under) \in Int /\ f.min_m \in Int
        BY <3>3, <1>2
      <4>2. Max({Min(under), f.min_m})
              = IF Min(under) >= f.min_m THEN Min(under) ELSE f.min_m
        BY <4>1, MaxTwo
      <4> QED
        BY <4>2, <3>3, <1>2
    <3> QED
      BY <2>2, <3>4 DEF Lowered
  <2> QED
    BY <2>1, <2>2
<1>6. asked \in Nat
  BY <1>2, <1>5
<1>7. Observe(f, loss) = [f EXCEPT !.smoothed_loss = s, !.current_m = Clamped(f, asked)]
  BY DEF Observe
<1> HIDE DEF s, mm, asked
<1>8. Clamped(f, asked) \in f.min_m .. Max({f.min_m, f.max_m})
  <2>1. Min({asked, f.max_m}) = IF asked <= f.max_m THEN asked ELSE f.max_m
    BY <1>2, <1>6, MinTwo
  <2>2. Min({asked, f.max_m}) \in Nat /\ Min({asked, f.max_m}) <= f.max_m
    BY <2>1, <1>2, <1>6
  <2>3. Clamped(f, asked) = IF f.min_m >= Min({asked, f.max_m}) THEN f.min_m
                            ELSE Min({asked, f.max_m})
    BY <2>2, <1>2, MaxTwo DEF Clamped
  <2>4. Max({f.min_m, f.max_m}) = IF f.min_m >= f.max_m THEN f.min_m ELSE f.max_m
    BY <1>2, MaxTwo
  <2>5. Max({f.min_m, f.max_m}) \in Nat
    BY <1>2, <2>4
  <2>6. Clamped(f, asked) \in Nat
    BY <1>2, <2>2, <2>3
  <2>7. f.min_m <= Clamped(f, asked)
    BY <1>2, <2>2, <2>3
  <2>8. Clamped(f, asked) <= Max({f.min_m, f.max_m})
    <3>1. f.min_m <= Max({f.min_m, f.max_m}) /\ f.max_m <= Max({f.min_m, f.max_m})
      <4>1. CASE f.min_m >= f.max_m
        BY <1>2, <2>4, <4>1
      <4>2. CASE ~(f.min_m >= f.max_m)
        BY <1>2, <2>4, <4>2
      <4> QED
        BY <4>1, <4>2
    <3>2. CASE Clamped(f, asked) = f.min_m
      BY <3>1, <3>2
    <3>3. CASE Clamped(f, asked) = Min({asked, f.max_m})
      BY <3>1, <3>3, <1>2, <2>2, <2>5
    <3> QED
      BY <2>3, <3>2, <3>3
  <2> QED
    BY <1>2, <2>5, <2>6, <2>7, <2>8
<1>9. /\ Observe(f, loss).smoothed_loss = s
      /\ Observe(f, loss).current_m = Clamped(f, asked)
  <2>1. f = [k |-> f.k, min_m |-> f.min_m, max_m |-> f.max_m,
          current_m |-> f.current_m, smoothed_loss |-> f.smoothed_loss,
          up |-> f.up, down |-> f.down]
    BY DEF IsController
  <2> QED
    BY <1>7, <2>1
<1>10. Moved(f, Observe(f, loss))
  <2>1. f = [k |-> f.k, min_m |-> f.min_m, max_m |-> f.max_m,
          current_m |-> f.current_m, smoothed_loss |-> f.smoothed_loss,
          up |-> f.up, down |-> f.down]
    BY DEF IsController
  <2> QED
    BY <1>7, <1>9, <2>1 DEF Moved
<1> QED
  BY <1>3, <1>8, <1>9, <1>10 DEF Clamps

(* A controller that moved is one still. *)
LEMMA FecIsController ==
  ASSUME Tuned
  PROVE  /\ IsController(fec)
         /\ fec.k = ConfigureFec(shape).k
         /\ fec.min_m = ConfigureFec(shape).min_m
         /\ fec.max_m = ConfigureFec(shape).max_m
         /\ IsController(ConfigureFec(shape))
         /\ m = fec.current_m
<1> DEFINE C == ConfigureFec(shape)
<1>1. IsController(C)
  BY ConfigureType DEF Tuned
<1>2. C = [k |-> C.k, min_m |-> C.min_m, max_m |-> C.max_m,
          current_m |-> C.current_m, smoothed_loss |-> C.smoothed_loss,
          up |-> C.up, down |-> C.down]
  BY <1>1 DEF IsController
<1>3. Moved(C, fec)
  BY DEF Tuned
<1> HIDE DEF C
<1>4. fec = [k |-> C.k, min_m |-> C.min_m, max_m |-> C.max_m,
          current_m |-> fec.current_m, smoothed_loss |-> fec.smoothed_loss,
          up |-> C.up, down |-> C.down]
  BY <1>3 DEF Moved
<1>5. /\ fec.k = C.k /\ fec.min_m = C.min_m /\ fec.max_m = C.max_m
      /\ fec.up = C.up /\ fec.down = C.down
  BY <1>4
<1>6. MostParity \in Nat /\ MostParity <= 255
  <2>1. MostParity = Max({C.min_m, C.max_m, C.current_m})
    BY DEF MostParity, MaxParity, C
  <2>2. /\ C.min_m \in Nat /\ C.max_m \in Nat /\ C.current_m \in Nat
        /\ C.min_m <= 255 /\ C.max_m <= 255 /\ C.current_m <= 255
    BY <1>1 DEF IsController
  <2> DEFINE T == {C.min_m, C.max_m, C.current_m}
  <2>3. T \subseteq Nat /\ T # {} /\ \A y \in T : y <= 255
    BY <2>2
  <2> HIDE DEF T
  <2>4. Max(T) \in T
    <3>1. \A b \in Nat : (\A y \in T : y <= b) => Max(T) \in T
      BY <2>3, MaxNat
    <3>2. 255 \in Nat
      OBVIOUS
    <3>3. (\A y \in T : y <= 255) => Max(T) \in T
      BY <3>1, <3>2, Zenon
    <3> QED
      BY <2>3, <3>3
  <2>5. Max(T) \in Nat /\ Max(T) <= 255
    BY <2>3, <2>4
  <2> QED
    BY <2>1, <2>5 DEF T
<1>7. /\ fec.current_m \in Nat /\ fec.current_m <= 255
      /\ fec.smoothed_loss \in 0 .. 1000
  BY <1>6 DEF Tuned
<1>8. IsController(fec)
  BY <1>1, <1>4, <1>5, <1>7 DEF IsController
<1>9. m = fec.current_m
  BY DEF m, Params
<1> QED
  BY <1>1, <1>5, <1>8, <1>9 DEF C

(* What the rest of the proof needs to know of the settings. *)
Sized ==
  /\ K \in Nat /\ K > 0 /\ m \in Nat /\ m = fec.current_m
  /\ MostParity \in Nat /\ m <= MostParity
  /\ shape \in Shapes /\ shape.data \in Nat /\ shape.data <= GROUP_MOD
  /\ GROUP_MOD \in Nat /\ GROUP_MOD > 0
  /\ K = Params(ConfigureFec(shape)).k
  /\ Source = 1 .. Max({c.data : c \in Shapes})
  /\ shape.data <= Max({c.data : c \in Shapes}) /\ Max({c.data : c \in Shapes}) \in Nat

LEMMA SourceBound ==
  /\ Max({c.data : c \in Shapes}) \in Nat
  /\ \A c \in Shapes : c.data \in Nat /\ c.data <= Max({d.data : d \in Shapes})
<1> DEFINE T == {c.data : c \in Shapes}
<1>1. PICK b \in Shapes : \A c \in Shapes : c.data <= b.data
  BY FecLinkAssumption
<1>2. \A c \in Shapes : c.data \in Nat
  BY FecLinkAssumption
<1>3. T \subseteq Nat /\ b.data \in T /\ b.data \in Nat /\ \A y \in T : y <= b.data
  BY <1>1, <1>2
<1>4. \A c \in Shapes : c.data \in T
  OBVIOUS
<1> HIDE DEF T
<1>5. Max(T) \in T /\ \A y \in T : y <= Max(T)
  BY <1>3, MaxNat
<1>6. Max(T) \in Nat /\ \A c \in Shapes : c.data <= Max(T)
  BY <1>3, <1>4, <1>5
<1> QED
  BY <1>2, <1>6 DEF T

LEMMA ParityBounds ==
  ASSUME NEW f, IsController(f)
  PROVE  /\ MaxParity(f) \in Nat
         /\ f.min_m <= MaxParity(f) /\ f.max_m <= MaxParity(f)
         /\ f.current_m <= MaxParity(f)
<1>1. f.min_m \in Nat /\ f.max_m \in Nat /\ f.current_m \in Nat
  BY DEF IsController
<1> DEFINE a == f.min_m
           b == f.max_m
           c == f.current_m
<1>2. MaxParity(f) = Max({a, b, c})
  BY DEF MaxParity
<1> HIDE DEF a, b, c
<1>3. /\ Max({a, b, c}) \in Nat
      /\ a <= Max({a, b, c}) /\ b <= Max({a, b, c}) /\ c <= Max({a, b, c})
  <2>1. a \in Nat /\ b \in Nat /\ c \in Nat
    BY <1>1 DEF a, b, c
  <2> QED
    BY <2>1, MaxThree
<1> QED
  BY <1>2, <1>3 DEF a, b, c

LEMMA ParamsK ==
  ASSUME NEW f, IsController(f)
  PROVE  Params(f).k = IF f.k <= 255 - f.current_m THEN f.k ELSE 255 - f.current_m
<1> DEFINE a == f.k
           b == 255 - f.current_m
<1>1. a \in Int /\ b \in Int
  BY DEF IsController
<1>2. Params(f).k = Min({a, b})
  BY DEF Params
<1> HIDE DEF a, b
<1>3. Min({a, b}) = IF a <= b THEN a ELSE b
  BY <1>1, MinTwo
<1> QED
  BY <1>2, <1>3 DEF a, b

LEMMA SizedOK ==
  ASSUME Steady, Tuned
  PROVE  Sized
<1> DEFINE C == ConfigureFec(shape)
<1>1. shape \in Shapes
  BY DEF Tuned
<1>2. Params(C).k > 0 /\ shape.data <= GROUP_MOD
  BY <1>1 DEF Steady
<1>3. K = Params(C).k
  BY DEF Tuned
<1>4. IsController(C) /\ IsController(fec) /\ m = fec.current_m
  BY FecIsController
<1>5. K \in Nat
  <2> HIDE DEF C
  <2>1. Params(C).k = IF C.k <= 255 - C.current_m THEN C.k ELSE 255 - C.current_m
    BY <1>4, ParamsK
  <2>2. C.k \in Nat /\ C.current_m \in Nat /\ C.current_m <= 255
    BY <1>4 DEF IsController
  <2>3. Params(C).k \in Nat
    BY <2>1, <2>2
  <2> QED
    BY <1>3, <2>3
<1>6. MostParity \in Nat
  BY <1>4, ParityBounds DEF MostParity
<1>7. m \in Nat /\ m <= MostParity
  <2>1. fec.current_m \in 0 .. MostParity
    BY DEF Tuned
  <2> QED
    BY <1>4, <1>6, <2>1
<1>8. /\ shape.data \in Nat /\ shape.data <= Max({c.data : c \in Shapes})
      /\ Max({c.data : c \in Shapes}) \in Nat
  BY <1>1, SourceBound
<1>9. GROUP_MOD \in Nat /\ GROUP_MOD > 0
  BY FecLinkAssumption
<1> QED
  BY <1>1, <1>2, <1>3, <1>4, <1>5, <1>6, <1>7, <1>8, <1>9 DEF Sized, Source

(* Groups stay as large as they are. *)
LEMMA SizeStays ==
  ASSUME Steady, Tuned, NEW x \in Nat,
         x >= fec.min_m, x <= Max({fec.min_m, fec.max_m})
  PROVE  /\ (IF fec.k <= 255 - x THEN fec.k ELSE 255 - x) = K
         /\ K > 1 => x = ConfigureFec(shape).current_m
         /\ x <= MostParity
<1> DEFINE C == ConfigureFec(shape)
<1>1. /\ IsController(fec) /\ fec.k = C.k /\ fec.min_m = C.min_m
      /\ fec.max_m = C.max_m /\ IsController(C)
  BY FecIsController
<1>2. K = Params(C).k /\ shape \in Shapes
  BY DEF Tuned
<1>3. /\ Params(C).k > 0
      /\ \/ C.k = 1 /\ C.min_m < 255 /\ C.max_m < 255
         \/ C.min_m = C.max_m /\ C.current_m = C.min_m
  BY <1>2 DEF Steady
<1>4. MostParity = MaxParity(C)
  BY DEF MostParity
<1> HIDE DEF C
<1>5. /\ C.k \in Nat /\ C.current_m \in Nat /\ C.min_m \in Nat /\ C.max_m \in Nat
      /\ C.current_m <= 255 /\ C.min_m <= 255 /\ C.max_m <= 255
  BY <1>1 DEF IsController
<1>6. K = IF C.k <= 255 - C.current_m THEN C.k ELSE 255 - C.current_m
  BY <1>1, <1>2, ParamsK
<1>7. Max({C.min_m, C.max_m}) = IF C.min_m >= C.max_m THEN C.min_m ELSE C.max_m
  BY <1>5, MaxTwo
<1>8. x <= C.min_m \/ x <= C.max_m
  BY <1>1, <1>5, <1>7
<1>9. x <= MostParity
  <2>1. /\ MaxParity(C) \in Nat /\ C.min_m <= MaxParity(C) /\ C.max_m <= MaxParity(C)
    BY <1>1, ParityBounds
  <2> QED
    BY <1>4, <1>5, <1>8, <2>1
<1>10. CASE C.k = 1 /\ C.min_m < 255 /\ C.max_m < 255
  <2>1. x < 255
    BY <1>5, <1>8, <1>10
  <2>2. K = 1
    BY <1>2, <1>3, <1>5, <1>6, <1>10
  <2>3. fec.k = 1
    BY <1>1, <1>10
  <2>4. (IF fec.k <= 255 - x THEN fec.k ELSE 255 - x) = 1
    BY <2>1, <2>3
  <2> QED
    BY <1>9, <2>2, <2>4
<1>11. CASE C.min_m = C.max_m /\ C.current_m = C.min_m
  <2>1. x = C.current_m
    BY <1>1, <1>5, <1>8, <1>11
  <2>2. (IF fec.k <= 255 - x THEN fec.k ELSE 255 - x) = K
    BY <1>1, <1>6, <2>1
  <2> QED
    BY <1>9, <2>1, <2>2 DEF C
<1> QED
  BY <1>3, <1>10, <1>11

LEMMA TunedInit ==
  ASSUME Steady, Init
  PROVE  Tuned
<1> DEFINE C == ConfigureFec(shape)
<1>1. shape \in Shapes /\ fec = C /\ observed = 0
  BY DEF Init
<1>2. IsController(C) /\ C.smoothed_loss = 0
  BY <1>1, ConfigureType
<1>3. C = [k |-> C.k, min_m |-> C.min_m, max_m |-> C.max_m,
          current_m |-> C.current_m, smoothed_loss |-> C.smoothed_loss,
          up |-> C.up, down |-> C.down]
  BY <1>2 DEF IsController
<1>4. K = Params(C).k
  BY <1>1 DEF K
<1>5. MostParity = MaxParity(C)
  BY DEF MostParity
<1> HIDE DEF C
<1>6. Moved(C, C)
  BY <1>3 DEF Moved
<1>7. C.current_m \in 0 .. MostParity
  <2>1. C.current_m \in Nat
    BY <1>2 DEF IsController
  <2>2. MaxParity(C) \in Nat /\ C.current_m <= MaxParity(C)
    BY <1>2, ParityBounds
  <2> QED
    BY <1>5, <2>1, <2>2
<1>8. C.smoothed_loss \in 0 .. 1000 /\ ~(0 > 0)
  BY <1>2
<1> QED
  BY <1>1, <1>4, <1>6, <1>7, <1>8 DEF Tuned, C

LEMMA TunedStep ==
  ASSUME Steady, Tuned, NEW loss \in Samples, ApplyFecParams(loss)
  PROVE  Tuned' /\ K' = K /\ MostParity' = MostParity /\ (K > 1 => m' = m)
<1> DEFINE C == ConfigureFec(shape)
<1>1. IsController(fec) /\ IsController(C) /\ m = fec.current_m
  BY FecIsController
<1>2. loss \in 0 .. 1000
  BY FecLinkAssumption
<1>3. fec' = Observe(fec, loss) /\ shape' = shape /\ observed' = observed + 1
  BY DEF ApplyFecParams
<1>4. /\ Moved(fec, fec')
      /\ fec'.smoothed_loss \in 0 .. 1000
      /\ fec'.current_m \in fec.min_m .. Max({fec.min_m, fec.max_m})
  <2>1. Clamps(fec, Observe(fec, loss))
    BY <1>1, <1>2, ObserveType DEF IsRatio
  <2>2. Clamps(fec, fec')
    BY <1>3, <2>1
  <2> QED
    BY <2>2 DEF Clamps
<1>5. /\ shape \in Shapes
      /\ Moved(C, fec)
      /\ observed \in Nat
      /\ K = Params(C).k
      /\ K > 1 => fec.current_m = C.current_m
  BY DEF Tuned
<1>7. C' = C /\ MostParity' = MostParity
  BY <1>3 DEF MostParity
<1>8. MostParity \in Nat
  BY <1>1, ParityBounds DEF MostParity
<1> DEFINE x == fec'.current_m
<1>14. /\ fec'.k = fec.k /\ fec'.min_m = fec.min_m /\ fec'.max_m = fec.max_m
       /\ fec'.up = fec.up /\ fec'.down = fec.down
  BY <1>4 DEF Moved
<1>9. Moved(C, fec')
  <2>1. /\ fec.k = C.k /\ fec.min_m = C.min_m /\ fec.max_m = C.max_m
        /\ fec.up = C.up /\ fec.down = C.down
    BY <1>5 DEF Moved
  <2> HIDE DEF C
  <2> QED
    BY <1>4, <2>1 DEF Moved
<1>10. fec.min_m \in Nat /\ fec.max_m \in Nat /\ fec.k \in Nat
  BY <1>1 DEF IsController
<1>11. Max({fec.min_m, fec.max_m}) \in Nat
  <2>1. Max({fec.min_m, fec.max_m})
          = IF fec.min_m >= fec.max_m THEN fec.min_m ELSE fec.max_m
    BY <1>10, MaxTwo
  <2> QED
    BY <1>10, <2>1
<1>12. x \in Nat /\ x >= fec.min_m /\ x <= Max({fec.min_m, fec.max_m})
  BY <1>4, <1>10, <1>11
<1>13. /\ (IF fec.k <= 255 - x THEN fec.k ELSE 255 - x) = K
       /\ K > 1 => x = C.current_m
       /\ x <= MostParity
  <2> HIDE DEF x
  <2> QED
    BY <1>12, SizeStays
<1>15. K' = K
  <2>1. K' = Min({fec'.k, 255 - fec'.current_m})
    BY DEF K, Params
  <2> DEFINE a == fec'.k
             b == 255 - x
  <2>2. a \in Int /\ b \in Int
    BY <1>10, <1>12, <1>14
  <2>3. Min({a, b}) = IF a <= b THEN a ELSE b
    <3> HIDE DEF a, b
    <3> QED
      BY <2>2, MinTwo
  <2> QED
    BY <2>1, <2>3, <1>13, <1>14
<1>16. m' = x
  BY DEF m, Params
<1>17. K > 1 => m' = m
  BY <1>1, <1>5, <1>13, <1>16
<1>18. x \in 0 .. MostParity
  BY <1>8, <1>12, <1>13
<1>19. observed' \in Nat
  BY <1>3, <1>5
<1>20. x \in fec'.min_m .. Max({fec'.min_m, fec'.max_m})
  BY <1>4, <1>14
<1>21. K' = Params(C').k /\ (K' > 1 => x = C'.current_m)
  BY <1>5, <1>7, <1>13, <1>15
<1>22. Tuned'
  <2>1. shape' \in Shapes
    BY <1>3, <1>5
  <2>2. Moved(C', fec')
    BY <1>7, <1>9
  <2>3. x \in 0 .. MostParity'
    BY <1>7, <1>18
  <2> QED
    BY <1>4, <1>19, <1>20, <1>21, <2>1, <2>2, <2>3 DEF Tuned
<1> QED
  BY <1>7, <1>15, <1>17, <1>22

LEMMA TunedSame ==
  ASSUME Tuned, UNCHANGED <<shape, fec, observed>>
  PROVE  Tuned' /\ K' = K /\ MostParity' = MostParity /\ m' = m
BY DEF Tuned, K, m, MostParity

-----------------------------------------------------------------------------
(* Packets *)

LEMMA PacketBytes ==
  ASSUME NEW n, NEW l, n \in Nat, l \in Nat, l >= 1
  PROVE  /\ Packet(n, l) \in Seq(Nat) /\ Len(Packet(n, l)) = l
         /\ Packet(n, l)[1] = 16 * n + 1
<1> DEFINE f == [b \in 1 .. l |-> 16 * n + b]
<1>1. f \in Seq(Nat) /\ Len(f) = l
  OBVIOUS
<1>2. f[1] = 16 * n + 1
  OBVIOUS
<1> HIDE DEF f
<1>3. SubSeq(f, 1, l) = f
  BY <1>1, SubSeqFull
<1> QED
  BY <1>1, <1>2, <1>3 DEF f, Packet

LEMMA SamePacket ==
  ASSUME NEW n, NEW k, NEW l, NEW j, n \in Nat, k \in Nat,
         l \in Nat, l >= 1, j \in Nat, j >= 1, Packet(n, l) = Packet(k, j)
  PROVE  n = k
<1>1. Packet(n, l)[1] = 16 * n + 1
  BY PacketBytes
<1>2. Packet(k, j)[1] = 16 * k + 1
  BY PacketBytes
<1> QED
  BY <1>1, <1>2

LEMMA Behind ==
  ASSUME NEW s, NEW t, s \in Seq(Nat), t \in Seq(Nat)
  PROVE  /\ s \o t \in Seq(Nat) /\ Len(s \o t) = Len(s) + Len(t)
         /\ Len(s) >= 1 => (s \o t)[1] = s[1]
OBVIOUS

(* Bytes after a packet do not make it another one. *)
LEMMA FirstByte ==
  ASSUME NEW n, NEW k, NEW l, NEW j, n \in Nat, k \in Nat,
         l \in Nat, l >= 1, j \in Nat, j >= 1,
         NEW x, NEW y, x \in Seq(Nat), y \in Seq(Nat),
         Packet(n, l) \o x = Packet(k, j) \o y
  PROVE  n = k
<1>1. Packet(n, l) \in Seq(Nat) /\ Len(Packet(n, l)) = l /\ Packet(n, l)[1] = 16 * n + 1
  BY PacketBytes
<1>2. Packet(k, j) \in Seq(Nat) /\ Len(Packet(k, j)) = j /\ Packet(k, j)[1] = 16 * k + 1
  BY PacketBytes
<1>3. (Packet(n, l) \o x)[1] = Packet(n, l)[1]
  BY <1>1, Behind
<1>4. (Packet(k, j) \o y)[1] = Packet(k, j)[1]
  BY <1>2, Behind
<1> QED
  BY <1>1, <1>2, <1>3, <1>4

LEMMA Zeros ==
  ASSUME NEW d, d \in Int
  PROVE  /\ [b \in 1 .. d |-> 0] \in Seq(Nat)
         /\ Len([b \in 1 .. d |-> 0]) = IF d < 0 THEN 0 ELSE d
<1>1. CASE d >= 0
  <2>1. d \in Nat /\ ~(d < 0)
    BY <1>1
  <2>2. [b \in 1 .. d |-> 0] \in [1 .. d -> Nat]
    OBVIOUS
  <2> QED
    BY <2>1, <2>2
<1>2. CASE d < 0
  <2>1. [b \in 1 .. d |-> 0] = << >>
    BY <1>2
  <2>2. << >> \in Seq(Nat) /\ Len(<< >>) = 0
    OBVIOUS
  <2>3. Len([b \in 1 .. d |-> 0]) = 0 /\ [b \in 1 .. d |-> 0] \in Seq(Nat)
    BY <2>1, <2>2
  <2> QED
    BY <1>2, <2>3
<1>3. d >= 0 \/ d < 0
  OBVIOUS
<1> QED
  BY <1>1, <1>2, <1>3

(* Padding hides no packet: the header tells its length. *)
LEMMA PacketFound ==
  ASSUME len \in Seq(Lens), NEW n \in Offered, NEW d \in Int
  PROVE  PacketOf(Packet(n, len[n]) \o [b \in 1 .. d |-> 0]) = n
<1> DEFINE z == [b \in 1 .. d |-> 0]
           bytes == Packet(n, len[n]) \o z
           is(k) == /\ Len(bytes) >= len[k]
                    /\ bytes = Packet(k, len[k]) \o [b \in 1 .. Len(bytes) - len[k] |-> 0]
           who == {k \in Offered : is(k)}
<1>1. Len(len) \in Nat /\ Offered = 1 .. Len(len) /\ Offered \subseteq Nat
  BY DEF Offered
<1>2. \A k \in Offered : len[k] \in Nat /\ len[k] >= 1
  <2>1. \A k \in Offered : len[k] \in Lens
    BY <1>1
  <2>2. \A x \in Lens : x \in Nat /\ x >= 1
    BY FecLinkAssumption
  <2> QED
    BY <2>1, <2>2
<1>3. z \in Seq(Nat) /\ Len(z) = IF d < 0 THEN 0 ELSE d
  BY Zeros
<1>4. Packet(n, len[n]) \in Seq(Nat) /\ Len(Packet(n, len[n])) = len[n]
  BY <1>1, <1>2, PacketBytes
<1>5. bytes \in Seq(Nat) /\ Len(bytes) = len[n] + Len(z) /\ Len(bytes) \in Nat
  <2> HIDE DEF z
  <2>1. Packet(n, len[n]) \o z \in Seq(Nat)
    BY <1>3, <1>4, Behind
  <2>2. Len(Packet(n, len[n]) \o z) = len[n] + Len(z)
    BY <1>3, <1>4, Behind
  <2> QED
    BY <2>1, <2>2
<1>6. is(n)
  <2>1. Len(bytes) - len[n] = Len(z) /\ Len(bytes) >= len[n]
    <3>1. len[n] \in Nat
      BY <1>2
    <3>2. Len(z) \in Nat
      BY <1>3, LenProperties
    <3> HIDE DEF bytes, z
    <3> QED
      BY <3>1, <3>2, <1>5
  <2>2. 1 .. Len(z) = 1 .. d
    <3> HIDE DEF z
    <3>1. CASE d < 0
      <4>1. Len(z) = 0
        BY <1>3, <3>1
      <4> QED
        BY <4>1, <3>1
    <3>2. CASE ~(d < 0)
      BY <1>3, <3>2
    <3> QED
      BY <3>1, <3>2
  <2>3. [b \in 1 .. Len(bytes) - len[n] |-> 0] = z
    BY <2>1, <2>2
  <2> QED
    BY <2>1, <2>3
<1>7. ASSUME NEW k \in Offered, is(k) PROVE k = n
  <2> DEFINE y == [b \in 1 .. Len(bytes) - len[k] |-> 0]
  <2>1. Len(bytes) - len[k] \in Int
    <3>1. len[k] \in Nat
      BY <1>2
    <3>2. Len(bytes) \in Nat
      BY <1>5
    <3> HIDE DEF bytes
    <3> QED
      BY <3>1, <3>2
  <2>2. y \in Seq(Nat)
    BY <2>1, Zeros
  <2>3. Packet(n, len[n]) \o z = Packet(k, len[k]) \o y
    BY <1>7
  <2> HIDE DEF y, z
  <2>4. /\ n \in Nat /\ k \in Nat /\ len[n] \in Nat /\ len[n] >= 1
        /\ len[k] \in Nat /\ len[k] >= 1
    BY <1>1, <1>2
  <2> QED
    BY <1>3, <2>2, <2>3, <2>4, FirstByte
<1>8. who = {n}
  BY <1>6, <1>7
<1>9. PacketOf(bytes) = IF who = {} THEN 0 ELSE Min(who)
  BY DEF PacketOf
<1>10. Min({n}) = n
  <2>1. {n} \subseteq Nat /\ {n} # {}
    BY <1>1
  <2> QED
    BY <2>1, MinNat
<1> QED
  BY <1>8, <1>9, <1>10

ZeroPadded(x, d) == x \o [b \in 1 .. d |-> 0]

LEMMA PaddingKeeps ==
  ASSUME len \in Seq(Lens), NEW n, n \in Offered, NEW d, d \in Int
  PROVE  PacketOf(ZeroPadded(Packet(n, len[n]), d)) = n
BY PacketFound DEF ZeroPadded

LEMMA LensType ==
  \A l \in Lens : l \in Nat /\ l >= 1 /\ l <= 15
BY FecLinkAssumption

LEMMA PacketsType ==
  ASSUME NEW x \in Packets
  PROVE  x \in Seq(Nat) /\ Len(x) \in Lens
<1>1. PICK n \in Source, l \in Lens : x = Packet(n, l)
  BY DEF Packets
<1>2. n \in Nat /\ l \in Nat /\ l >= 1
  BY LensType DEF Source
<1>3. Packet(n, l) \in Seq(Nat) /\ Len(Packet(n, l)) = l
  BY <1>2, PacketBytes
<1> QED
  BY <1>1, <1>3

(* Source j of the padded group is its packet, then zeros. *)
LEMMA PaddedSource ==
  ASSUME NEW k, k \in Nat, NEW buf, buf \in [1 .. k -> Packets], NEW j, j \in 1 .. k
  PROVE  \E d \in Int : Padded(buf)[j] = ZeroPadded(buf[j], d)
<1> DEFINE T == {Len(buf[i]) : i \in DOMAIN buf}
           top == Max(T)
<1>1. DOMAIN buf = 1 .. k /\ \A i \in 1 .. k : buf[i] \in Packets
  OBVIOUS
<1>2. \A i \in 1 .. k : Len(buf[i]) \in Nat /\ Len(buf[i]) <= 15
  BY <1>1, PacketsType, LensType
<1>3. T \subseteq Nat /\ \A y \in T : y <= 15
  BY <1>1, <1>2
<1>4. Len(buf[j]) \in T
  BY <1>1
<1>5. top \in Nat
  <2> HIDE DEF T
  <2>1. T # {}
    BY <1>4
  <2>2. Max(T) \in T
    BY <1>3, <2>1, MaxNat
  <2> QED
    BY <1>3, <2>2
<1>6. Padded(buf)[j] = buf[j] \o [b \in 1 .. top - Len(buf[j]) |-> 0]
  BY <1>1 DEF Padded
<1>7. top - Len(buf[j]) \in Int
  <2> HIDE DEF top
  <2> QED
    BY <1>2, <1>5
<1> HIDE DEF top
<1> QED
  BY <1>6, <1>7 DEF ZeroPadded

LEMMA PaddedPacket ==
  ASSUME NEW k, k \in Nat, NEW buf, buf \in [1 .. k -> Packets], NEW j, j \in 1 .. k,
         len \in Seq(Lens), NEW n, n \in Offered, buf[j] = Packet(n, len[n])
  PROVE  PacketOf(Padded(buf)[j]) = n
<1>1. PICK d \in Int : Padded(buf)[j] = ZeroPadded(buf[j], d)
  BY PaddedSource
<1>2. PacketOf(ZeroPadded(Packet(n, len[n]), d)) = n
  BY PaddingKeeps
<1> QED
  BY <1>1, <1>2

LEMMA BufferLength ==
  ASSUME NEW k, k \in Nat, NEW S, NEW buf, buf \in [1 .. k -> S]
  PROVE  buf \in Seq(S) /\ Len(buf) = k
OBVIOUS

(* r holds some of the symbols of the group with the sources buf. *)
Holds(r, buf) ==
  /\ buf \in [1 .. K -> Packets]
  /\ r.m \in Nat /\ r.m <= MostParity
  /\ DOMAIN r.symbols = Slots(K + r.m)
  /\ \A i \in Slots(K + r.m) : r.symbols[i] = Missing \/ r.symbols[i] = Symbol(buf, i)

LEMMA DecodeHeld ==
  ASSUME Sized, NEW r, NEW buf, Holds(r, buf), Cardinality(Present(r)) >= K
  PROVE  \/ Decoded(r) = Padded(buf)
         \/ Decoded(r) = <<>> /\ ~Alike(r)
<1> DEFINE S == Present(r)
           k == Params(ConfigureFec(shape)).k
           mm == r.m
<1>1. K \in Nat /\ shape \in Shapes /\ K = k /\ MostParity \in Nat
  BY DEF Sized
<1>2. mm \in Nat /\ mm <= MostParity /\ DOMAIN r.symbols = Slots(K + mm)
  BY DEF Holds
<1>3. S \in SUBSET Slots(K + mm)
  BY <1>2 DEF Present
<1>4. [i \in 1 .. K + mm |-> r.symbols[i - 1]] = Held(buf, K + mm, S)
  <2>1. ASSUME NEW i \in 1 .. K + mm
        PROVE  r.symbols[i - 1] = IF i - 1 \in S THEN Symbol(buf, i - 1) ELSE Missing
    <3>1. i - 1 \in Slots(K + mm)
      BY <1>1, <1>2 DEF Slots
    <3>2. r.symbols[i - 1] = Missing \/ r.symbols[i - 1] = Symbol(buf, i - 1)
      BY <3>1 DEF Holds
    <3>3. i - 1 \in S <=> r.symbols[i - 1] # Missing
      BY <1>2, <3>1 DEF Present
    <3> QED
      BY <3>2, <3>3
  <2> QED
    BY <2>1 DEF Held
<1>5. Decoded(r) = DecodeSymbols(K, Held(buf, K + mm, S))
  BY <1>4 DEF Decoded
<1>6. mm \in 0 .. MaxParity(ConfigureFec(shape))
  BY <1>1, <1>2 DEF MostParity
<1>7. buf \in [1 .. K -> Packets]
  BY DEF Holds
<1> HIDE DEF mm, S
<1>8. LET d == DecodeSymbols(k, Held(buf, k + mm, S))
      IN  \/ d = Padded(buf)
          \/ d = <<>> /\ \E i, j \in S : Len(Symbol(buf, i)) # Len(Symbol(buf, j))
  <2>1. Cardinality(S) >= k
    BY <1>1 DEF S
  <2>2. buf \in [1 .. k -> Packets] /\ S \in SUBSET Slots(k + mm)
    BY <1>1, <1>3, <1>7
  <2> QED
    BY <1>1, <1>6, <2>1, <2>2, CodeAssumption
<1>9. \A i \in S : r.symbols[i] = Symbol(buf, i)
  BY <1>2 DEF S, mm, Holds, Present
<1>10. (\E i, j \in S : Len(Symbol(buf, i)) # Len(Symbol(buf, j))) => ~Alike(r)
  BY <1>9 DEF S, Alike
<1> HIDE DEF k
<1> QED
  BY <1>1, <1>5, <1>8, <1>10

LEMMA PaddedNotEmpty ==
  ASSUME Sized, NEW buf, buf \in [1 .. K -> Packets]
  PROVE  Padded(buf) # <<>>
<1>1. DOMAIN Padded(buf) = 1 .. K
  BY DEF Padded
<1>2. 1 \in 1 .. K
  BY DEF Sized
<1>3. DOMAIN <<>> = 1 .. 0 /\ 1 \notin 1 .. 0
  OBVIOUS
<1> QED
  BY <1>1, <1>2, <1>3, Zenon

-----------------------------------------------------------------------------
(* The steps *)

LEMMA InitIInv ==
  ASSUME Steady, Init
  PROVE  IInv
<1>1. Tuned
  BY TunedInit
<1>2. Sized
  BY <1>1, SizedOK
<1>3. K \in Nat /\ K > 0 /\ GROUP_MOD \in Nat /\ GROUP_MOD > 0
  BY <1>2 DEF Sized
<1>4. /\ group_id = 0 /\ group_buffer = <<>> /\ net = {} /\ len = <<>>
      /\ rx_groups = [g \in Slots(GROUP_MOD) |-> NoGroup]
      /\ panicked = FALSE /\ garbage = FALSE /\ protected = {} /\ suppressed = {}
      /\ writes = [n \in Source |-> 0]
  BY DEF Init
<1>5. Plain
  <2>1. group_id \in Slots(GROUP_MOD)
    BY <1>3, <1>4 DEF Slots
  <2>2. group_buffer \in Seq(Packets) /\ Len(group_buffer) < K
    BY <1>3, <1>4
  <2>3. len \in Seq(Lens) /\ Len(len) <= shape.data
    BY <1>2, <1>4 DEF Sized
  <2>4. writes \in [Source -> 0 .. 2] /\ \A n \in Source \ Offered : writes[n] = 0
    BY <1>4
  <2>5. rx_groups = [g \in Slots(GROUP_MOD) |-> rx_groups[g]]
    BY <1>4
  <2> QED
    BY <1>4, <2>1, <2>2, <2>3, <2>4, <2>5 DEF Plain
<1>6. NetOK /\ Coded
  BY <1>4 DEF NetOK, Coded
<1>7. Open
  <2>1. Slots(Len(group_buffer)) = {}
    BY <1>4 DEF Slots
  <2>2. group_id + (IF group_buffer = <<>> THEN 0 ELSE 1) <= Len(len)
    BY <1>4
  <2> QED
    BY <1>4, <2>1, <2>2 DEF Open
<1>8. RxOK /\ Complete
  BY <1>4 DEF RxOK, Complete
<1>9. Written
  BY <1>4 DEF Written
<1> QED
  BY <1>1, <1>5, <1>6, <1>7, <1>8, <1>9 DEF IInv

LEMMA ApplyIInv ==
  ASSUME Steady, IInv, NEW loss \in Samples, ApplyFecParams(loss)
  PROVE  IInv'
<1>1. Tuned' /\ K' = K /\ MostParity' = MostParity /\ (K > 1 => m' = m)
  BY TunedStep DEF IInv
<1>2. m = fec.current_m /\ m' = fec'.current_m
  BY DEF m, Params
<1>3. /\ shape' = shape /\ group_id' = group_id /\ group_buffer' = group_buffer
      /\ len' = len /\ protected' = protected /\ net' = net
      /\ rx_groups' = rx_groups /\ panicked' = panicked /\ writes' = writes
      /\ garbage' = garbage /\ suppressed' = suppressed
  BY DEF ApplyFecParams, rxVars
<1>4. Plain' /\ Open' /\ Written' /\ Coded' /\ Complete'
  BY <1>1, <1>3 DEF IInv, Plain, Open, Written, Coded, Complete, Offered, Carries,
                    Present, Alike
<1>5. NetOK'
  <2>1. \A p \in net : IsDatagram(p)'
    BY <1>1, <1>2 DEF IInv, NetOK, IsDatagram
  <2> QED
    BY <1>1, <1>3, <2>1 DEF IInv, NetOK, Offered, Carries
<1>6. RxOK'
  BY <1>1, <1>3 DEF IInv, RxOK, GroupOK
<1> QED
  BY <1>1, <1>4, <1>5, <1>6 DEF IInv

LEMMA NextGroupType ==
  ASSUME Sized, group_id \in Slots(GROUP_MOD)
  PROVE  /\ NextGroup \in Slots(GROUP_MOD)
         /\ group_id + 1 < GROUP_MOD => NextGroup = group_id + 1
<1>1. group_id \in Nat /\ group_id < GROUP_MOD /\ GROUP_MOD \in Nat /\ GROUP_MOD > 0
  BY DEF Sized, Slots
<1> QED
  BY <1>1 DEF NextGroup, Slots

LEMMA RxSame ==
  ASSUME IInv, K' = K, MostParity' = MostParity,
         UNCHANGED <<len, net, rx_groups, writes, suppressed>>
  PROVE  RxOK' /\ Written' /\ Complete'
<1>1. RxOK'
  BY DEF IInv, RxOK, GroupOK
<1>2. Offered' = Offered
  BY DEF Offered
<1>3. Written'
  BY <1>2 DEF IInv, Written, Carries
<1>4. Complete'
  BY DEF IInv, Complete, Present, Alike
<1> QED
  BY <1>1, <1>3, <1>4

LEMMA FlushIInv ==
  ASSUME Steady, IInv, FlushStale
  PROVE  IInv'
<1>1. /\ group_buffer # <<>> /\ group_buffer' = <<>> /\ group_id' = NextGroup
      /\ shape' = shape /\ fec' = fec /\ observed' = observed
      /\ len' = len /\ protected' = protected /\ net' = net
      /\ rx_groups' = rx_groups /\ panicked' = panicked /\ writes' = writes
      /\ garbage' = garbage /\ suppressed' = suppressed
  BY DEF FlushStale, rxVars
<1>2. Tuned' /\ K' = K /\ MostParity' = MostParity /\ m' = m
  BY <1>1, TunedSame DEF IInv
<1>3. Sized
  BY SizedOK DEF IInv
<1>4. group_id \in Slots(GROUP_MOD) /\ Len(len) \in Nat
  BY DEF IInv, Plain
<1>5. NextGroup \in Slots(GROUP_MOD) /\ (group_id + 1 < GROUP_MOD => NextGroup = group_id + 1)
  BY <1>3, <1>4, NextGroupType
<1>6. Plain'
  <2>1. <<>> \in Seq(Packets) /\ Len(<<>>) < K
    BY <1>3 DEF Sized
  <2> QED
    BY <1>1, <1>2, <1>5, <2>1 DEF IInv, Plain, Offered
<1>7. Open'
  <2> SUFFICES ASSUME Len(len) < shape.data PROVE Open'
    BY <1>1 DEF Open
  <2>1. /\ group_id + 1 <= Len(len) /\ \A p \in net : p.group <= group_id
    BY <1>1 DEF IInv, Open
  <2>2. shape.data \in Nat /\ shape.data <= GROUP_MOD /\ GROUP_MOD \in Nat
    BY <1>3 DEF Sized
  <2>3. group_id \in Nat
    BY <1>4 DEF Slots
  <2>4. group_id' = group_id + 1
    BY <1>1, <1>4, <1>5, <2>1, <2>2, <2>3
  <2>5. \A p \in net : p.group \in Nat
    BY DEF IInv, NetOK, IsDatagram, Slots
  <2>6. \A p \in net : p.group <= group_id' /\ p.group # group_id'
    BY <2>1, <2>3, <2>4, <2>5
  <2>7. Slots(Len(group_buffer')) = {}
    BY <1>1 DEF Slots
  <2>8. group_id' + (IF group_buffer' = <<>> THEN 0 ELSE 1) <= Len(len)
    BY <1>1, <1>4, <2>1, <2>3, <2>4
  <2> QED
    BY <1>1, <2>6, <2>7, <2>8 DEF Open
<1>8. NetOK' /\ Coded'
  <2>1. NetOK'
    BY <1>1, <1>2 DEF IInv, NetOK, IsDatagram, Offered, Carries
  <2>2. Coded'
    BY <1>1, <1>2 DEF IInv, Coded
  <2> QED
    BY <2>1, <2>2
<1>9. RxOK' /\ Written' /\ Complete'
  BY <1>1, <1>2, RxSame
<1> QED
  BY <1>2, <1>6, <1>7, <1>8, <1>9 DEF IInv

LEMMA EvictIInv ==
  ASSUME Steady, IInv, NEW g \in Slots(GROUP_MOD), Evict(g)
  PROVE  IInv'
<1>1. /\ group_buffer' = group_buffer /\ group_id' = group_id
      /\ shape' = shape /\ fec' = fec /\ observed' = observed
      /\ len' = len /\ protected' = protected /\ net' = {p \in net : p.group # g}
      /\ rx_groups' = [rx_groups EXCEPT ![g] = NoGroup] /\ panicked' = panicked
      /\ writes' = writes /\ garbage' = garbage /\ suppressed' = suppressed
      /\ ~(g = group_id /\ group_buffer # <<>>)
  BY DEF Evict, txVars
<1>2. Tuned' /\ K' = K /\ MostParity' = MostParity /\ m' = m
  BY <1>1, TunedSame DEF IInv
<1>3. /\ rx_groups = [h \in Slots(GROUP_MOD) |-> rx_groups[h]]
      /\ rx_groups' = [h \in Slots(GROUP_MOD) |-> rx_groups'[h]]
      /\ rx_groups'[g] = NoGroup
      /\ \A h \in Slots(GROUP_MOD) \ {g} : rx_groups'[h] = rx_groups[h]
  BY <1>1 DEF IInv, Plain
<1>4. Plain'
  BY <1>1, <1>2, <1>3 DEF IInv, Plain, Offered
<1>5. net' \subseteq net /\ \A p \in net : p.group # g => p \in net'
  BY <1>1
<1>6. NetOK'
  BY <1>1, <1>2, <1>5 DEF IInv, NetOK, IsDatagram, Offered, Carries
<1>7. Coded'
  <2>1. ASSUME NEW p \in net'
        PROVE  \E buf \in [1 .. K -> Packets] :
                 \A q \in net' : q.group = p.group => q.sym = Symbol(buf, q.index)
    BY <1>5 DEF IInv, Coded
  <2>2. ASSUME NEW p \in net', p.type = "Fec", NEW i \in Slots(K)
        PROVE  \E q \in net' : q.group = p.group /\ q.index = i
    BY <1>1, <1>5, <2>2 DEF IInv, Coded
  <2> QED
    BY <1>2, <2>1, <2>2 DEF Coded
<1>8. Open'
  <2> SUFFICES ASSUME Len(len) < shape.data PROVE Open'
    BY <1>1 DEF Open
  <2>1. \A j \in Slots(Len(group_buffer)) :
         \E p \in net' : p.group = group_id /\ p.index = j
    <3>1. CASE g = group_id
      BY <1>1, <3>1 DEF Slots
    <3>2. CASE g # group_id
      BY <1>5, <3>2 DEF IInv, Open
    <3> QED
      BY <3>1, <3>2
  <2> QED
    BY <1>1, <1>5, <2>1 DEF IInv, Open
<1>9. RxOK'
  <2> SUFFICES ASSUME NEW h \in Slots(GROUP_MOD), h # g, rx_groups[h] # NoGroup
               PROVE  GroupOK(rx_groups[h], h)'
    BY <1>3 DEF RxOK
  <2>1. GroupOK(rx_groups[h], h)
    BY DEF IInv, RxOK
  <2>2. \A p \in net : p.group = h => p \in net'
    BY <1>5
  <2> QED
    BY <1>2, <1>3, <1>5, <2>1, <2>2 DEF GroupOK
<1>10. Written'
  <2>1. \A p \in net' : rx_groups'[p.group] = rx_groups[p.group]
    BY <1>1, <1>3 DEF IInv, NetOK, IsDatagram
  <2> QED
    BY <1>1, <1>5, <2>1 DEF IInv, Written, Offered, Carries
<1>11. Complete'
  BY <1>2, <1>3 DEF IInv, Complete, Present, Alike
<1> QED
  BY <1>2, <1>4, <1>6, <1>7, <1>8, <1>9, <1>10, <1>11 DEF IInv

(* The sources of the open group with packet x, as far as they are known. *)
Filled(x) == [i \in 1 .. K |-> IF i <= Len(group_buffer) THEN group_buffer[i] ELSE x]

(* What SendData puts on the wire. *)
Sent(l) ==
  {Datagram("Data", Len(group_buffer), Packet(Len(len) + 1, l))}
    \cup IF Len(group_buffer) + 1 >= K
           THEN Parities(Append(group_buffer, Packet(Len(len) + 1, l))) ELSE {}

LEMMA SendFacts ==
  ASSUME Steady, IInv, NEW l \in Lens, SendData(l)
  PROVE  /\ Len(len) < shape.data /\ len' = Append(len, l) /\ net' = net \cup Sent(l)
         /\ protected' = IF m > 0 THEN protected \cup {Len(len) + 1} ELSE protected
         /\ UNCHANGED <<shape, fec, observed>>
         /\ UNCHANGED rxVars
         /\ Len(group_buffer) + 1 >= K => group_buffer' = <<>> /\ group_id' = NextGroup
         /\ ~(Len(group_buffer) + 1 >= K) =>
              /\ group_buffer' = Append(group_buffer, Packet(Len(len) + 1, l))
              /\ group_id' = group_id
<1> DEFINE buf == Append(group_buffer, Packet(Len(len) + 1, l))
<1>1. Len(buf) = Len(group_buffer) + 1
  BY DEF IInv, Plain
<1> QED
  BY <1>1 DEF SendData, Sent

LEMMA SentFacts ==
  ASSUME Steady, IInv, NEW l \in Lens, Len(len) < shape.data
  PROVE  LET n   == Len(len) + 1
             j   == Len(group_buffer)
             pkt == Datagram("Data", j, Packet(n, l))
             B   == Filled(Packet(n, l))
         IN  /\ B \in [1 .. K -> Packets]
             /\ pkt \in Sent(l)
             /\ pkt.type = "Data" /\ pkt.index = j /\ pkt.sym = Packet(n, l)
             /\ \A d \in Sent(l) :
                  /\ IsDatagram(d) /\ d.group = group_id /\ d.m = m
                  /\ d.index >= j /\ d.sym = Symbol(B, d.index)
                  /\ d.type = "Data" => d = pkt
                  /\ d.type = "Fec" => j + 1 = K
             /\ \A d, e \in Sent(l) : d.index = e.index => d = e
<1> DEFINE n == Len(len) + 1
           j == Len(group_buffer)
           x == Packet(n, l)
           pkt == Datagram("Data", j, x)
           B == Filled(x)
           buf == Append(group_buffer, x)
<1>1. Sized
  BY SizedOK DEF IInv
<1>2. K \in Nat /\ K > 0 /\ m \in Nat /\ m <= MostParity /\ MostParity \in Nat
      /\ m = fec.current_m
  BY <1>1 DEF Sized
<1>3. /\ j \in Nat /\ j < K /\ group_buffer \in Seq(Packets)
      /\ group_id \in Slots(GROUP_MOD)
  BY DEF IInv, Plain
<1>4. n \in Source
  <2>1. Len(len) \in Nat
    BY DEF IInv, Plain
  <2>2. /\ shape.data \in Nat /\ shape.data <= Max({c.data : c \in Shapes})
        /\ Max({c.data : c \in Shapes}) \in Nat
    BY <1>1 DEF Sized
  <2> QED
    BY <2>1, <2>2 DEF Source
<1>5. x \in Packets
  BY <1>4 DEF Packets
<1>6. B \in [1 .. K -> Packets]
  BY <1>2, <1>3, <1>5 DEF Filled
<1>7. B \in Seq(Packets) /\ Len(B) = K
  BY <1>2, <1>6, BufferLength
<1>8. pkt = [type |-> "Data", group |-> group_id, index |-> j, m |-> m, sym |-> x]
  BY DEF Datagram
<1>9. pkt \in Sent(l) /\ pkt.type = "Data" /\ pkt.index = j /\ pkt.sym = x
  BY <1>8 DEF Sent
<1>10. /\ IsDatagram(pkt) /\ pkt.group = group_id /\ pkt.m = m
       /\ pkt.index >= j /\ pkt.sym = Symbol(B, pkt.index)
  <2>1. pkt.index \in Slots(K + m) /\ pkt.index < K /\ m \in 0 .. MostParity
    BY <1>2, <1>3, <1>8 DEF Slots
  <2>2. B[j + 1] = x
    BY <1>2, <1>3 DEF Filled
  <2>3. Symbol(B, j) = x
    BY <1>3, <1>7, <2>2 DEF Symbol
  <2>4. pkt.group = group_id /\ pkt.m = m /\ pkt.index >= j
    BY <1>3, <1>8
  <2>5. IsDatagram(pkt)
    BY <1>2, <1>3, <1>8, <2>1, <2>4 DEF IsDatagram
  <2> QED
    BY <1>9, <2>3, <2>4, <2>5
<1>11. ASSUME NEW d \in Sent(l), d # pkt
       PROVE  /\ j + 1 = K
              /\ \E i \in 1 .. m : d = Datagram("Fec", K + i - 1, Encode(Padded(buf), i))
  BY <1>2, <1>3, <1>11 DEF Sent, Parities
<1>12. ASSUME j + 1 = K PROVE buf = B
  <2>1. buf \in Seq(Packets) /\ Len(buf) = K
    BY <1>3, <1>5, <1>12
  <2>2. \A i \in 1 .. K : buf[i] = B[i]
    BY <1>2, <1>3, <1>12 DEF Filled
  <2> HIDE DEF buf, B
  <2>3. buf = [i \in 1 .. K |-> buf[i]]
    BY <2>1
  <2> QED
    BY <1>6, <2>2, <2>3
<1>13. ASSUME NEW i \in 1 .. m, j + 1 = K,
              NEW d, d = Datagram("Fec", K + i - 1, Encode(Padded(buf), i))
       PROVE  /\ IsDatagram(d) /\ d.group = group_id /\ d.m = m
              /\ d.index = K + i - 1
              /\ d.index >= j /\ d.sym = Symbol(B, d.index) /\ d.type = "Fec"
  <2>1. d = [type |-> "Fec", group |-> group_id, index |-> K + i - 1, m |-> m,
             sym |-> Encode(Padded(buf), i)]
    BY <1>13 DEF Datagram
  <2>2. /\ d.type = "Fec" /\ d.group = group_id /\ d.index = K + i - 1 /\ d.m = m
        /\ d.sym = Encode(Padded(buf), i)
    BY <2>1
  <2>3. /\ K + i - 1 \in Slots(K + m) /\ ~(K + i - 1 < K) /\ m \in 0 .. MostParity
        /\ K + i - 1 >= j /\ K + i - 1 - K + 1 = i
    BY <1>2, <1>3 DEF Slots
  <2>4. IsDatagram(d)
    BY <1>2, <1>3, <2>1, <2>2, <2>3 DEF IsDatagram
  <2>5. Symbol(B, K + i - 1) = Encode(Padded(B), i)
    BY <1>7, <2>3 DEF Symbol
  <2> QED
    BY <1>12, <1>13, <2>2, <2>3, <2>4, <2>5
<1> HIDE DEF B, buf, x
<1>14. ASSUME NEW d \in Sent(l)
       PROVE  /\ IsDatagram(d) /\ d.group = group_id /\ d.m = m
              /\ d.index >= j /\ d.sym = Symbol(B, d.index)
              /\ d.type = "Data" => d = pkt
              /\ d.type = "Fec" => j + 1 = K
  <2>1. CASE d = pkt
    BY <1>9, <1>10, <2>1
  <2>2. CASE d # pkt
    <3>1. j + 1 = K
      BY <1>11, <2>2
    <3>2. PICK i \in 1 .. m : d = Datagram("Fec", K + i - 1, Encode(Padded(buf), i))
      BY <1>11, <2>2
    <3> QED
      BY <1>13, <3>1, <3>2
  <2> QED
    BY <2>1, <2>2
<1>15. ASSUME NEW d \in Sent(l), NEW e \in Sent(l), d.index = e.index
       PROVE  d = e
  <2>1. ASSUME NEW f \in Sent(l), f # pkt PROVE f.index >= K
    <3>1. PICK i \in 1 .. m : f = Datagram("Fec", K + i - 1, Encode(Padded(buf), i))
      BY <1>11, <2>1
    <3>2. f.index = K + i - 1
      BY <1>11, <1>13, <2>1, <3>1
    <3> QED
      BY <1>2, <3>2
  <2>2. pkt.index < K
    BY <1>3, <1>9
  <2>3. CASE d = pkt \/ e = pkt
    BY <1>3, <1>2, <1>9, <1>15, <2>1, <2>2, <2>3
  <2>4. CASE d # pkt /\ e # pkt
    <3>1. PICK i \in 1 .. m : d = Datagram("Fec", K + i - 1, Encode(Padded(buf), i))
      BY <1>11, <2>4
    <3>2. PICK k \in 1 .. m : e = Datagram("Fec", K + k - 1, Encode(Padded(buf), k))
      BY <1>11, <2>4
    <3>3. d.index = K + i - 1 /\ e.index = K + k - 1
      BY <1>11, <1>13, <2>4, <3>1, <3>2
    <3>4. K + i - 1 = K + k - 1
      BY <1>15, <3>3
    <3>5. i = k
      BY <1>2, <3>4
    <3> QED
      BY <3>1, <3>2, <3>5
  <2> QED
    BY <2>3, <2>4
<1> QED
  BY <1>6, <1>9, <1>14, <1>15 DEF x, B

(* What a new packet changes of who was offered what. *)
LEMMA OfferFacts ==
  ASSUME Steady, IInv, NEW l \in Lens, Len(len) < shape.data, len' = Append(len, l)
  PROVE  LET n == Len(len) + 1
         IN  /\ len' \in Seq(Lens) /\ Len(len') = n /\ n \in Source /\ n \notin Offered
             /\ Offered' = Offered \cup {n} /\ Offered' \subseteq Nat
             /\ \A k \in Offered : len'[k] = len[k]
             /\ len'[n] = l
             /\ \A k, h \in Offered' : Packet(k, len'[k]) = Packet(h, len'[h]) => k = h
<1> DEFINE n == Len(len) + 1
<1>1. Sized
  BY SizedOK DEF IInv
<1>2. len \in Seq(Lens) /\ Len(len) \in Nat
  BY DEF IInv, Plain
<1>3. /\ shape.data \in Nat /\ shape.data <= Max({c.data : c \in Shapes})
      /\ Max({c.data : c \in Shapes}) \in Nat
  BY <1>1 DEF Sized
<1>4. n \in Source
  BY <1>2, <1>3 DEF Source
<1>5. len' \in Seq(Lens) /\ Len(len') = n
  BY <1>2
<1>6. /\ Offered' = Offered \cup {n} /\ n \notin Offered /\ Offered' \subseteq Nat
  BY <1>2, <1>5 DEF Offered
<1>7. (\A k \in Offered : len'[k] = len[k]) /\ len'[n] = l
  BY <1>2 DEF Offered
<1>8. \A k \in Offered' : len'[k] \in Lens
  BY <1>5 DEF Offered
<1>9. \A k \in Offered' : k \in Nat /\ len'[k] \in Nat /\ len'[k] >= 1
  BY <1>6, <1>8, LensType
<1>10. \A k, h \in Offered' : Packet(k, len'[k]) = Packet(h, len'[h]) => k = h
  BY <1>9, SamePacket
<1> QED
  BY <1>4, <1>5, <1>6, <1>7, <1>10

(* A datagram of the open group is one of a group of several packets. *)
LEMMA OpenDatagram ==
  ASSUME Steady, IInv, Len(len) < shape.data, NEW q \in net, q.group = group_id
  PROVE  /\ q.m = m /\ q.type = "Data" /\ q.index < Len(group_buffer)
         /\ q.index \in Nat /\ q.sym = group_buffer[q.index + 1]
<1>1. Sized
  BY SizedOK DEF IInv
<1>2. q.index < Len(group_buffer) /\ q.sym = group_buffer[q.index + 1]
  BY DEF IInv, Open
<1>3. Len(group_buffer) \in Nat /\ Len(group_buffer) < K
  BY DEF IInv, Plain
<1>4. K \in Nat /\ m = fec.current_m
  BY <1>1 DEF Sized
<1>5. IsDatagram(q)
  BY DEF IInv, NetOK
<1>6. q.index \in Nat
  BY <1>5 DEF IsDatagram, Slots
<1>7. K > 1 /\ q.index < K
  BY <1>2, <1>3, <1>4, <1>6
<1> QED
  BY <1>2, <1>4, <1>5, <1>6, <1>7 DEF IsDatagram

LEMMA SendNetOK ==
  ASSUME Steady, IInv, NEW l \in Lens, SendData(l)
  PROVE  NetOK'
<1> DEFINE n == Len(len) + 1
           j == Len(group_buffer)
           x == Packet(n, l)
           pkt == Datagram("Data", j, x)
<1>1. /\ Len(len) < shape.data /\ len' = Append(len, l) /\ net' = net \cup Sent(l)
      /\ protected' = IF m > 0 THEN protected \cup {n} ELSE protected
      /\ UNCHANGED <<shape, fec, observed>>
  BY SendFacts
<1>2. K' = K /\ MostParity' = MostParity /\ m' = m
  BY <1>1, TunedSame DEF IInv
<1>3. /\ n \notin Offered /\ Offered' = Offered \cup {n}
      /\ \A k \in Offered : len'[k] = len[k]
      /\ len'[n] = l
      /\ \A k, h \in Offered' : Packet(k, len'[k]) = Packet(h, len'[h]) => k = h
  BY <1>1, OfferFacts
<1>4. /\ pkt \in Sent(l)
      /\ pkt.type = "Data" /\ pkt.index = j /\ pkt.sym = x
      /\ \A d \in Sent(l) :
           /\ IsDatagram(d) /\ d.group = group_id /\ d.m = m
           /\ d.index >= j
           /\ d.type = "Data" => d = pkt
      /\ \A d, e \in Sent(l) : d.index = e.index => d = e
  BY <1>1, SentFacts
<1> HIDE DEF pkt, n, x
<1>5. \A p \in net' : IsDatagram(p)'
  <2>1. \A p \in net' : IsDatagram(p)
    BY <1>1, <1>4 DEF IInv, NetOK
  <2>2. fec' = fec
    BY <1>1
  <2> QED
    BY <1>2, <2>1, <2>2 DEF IsDatagram
<1>6. ASSUME NEW p \in net, p.type = "Data"
      PROVE  \E k \in Offered : /\ p.sym = Packet(k, len[k]) /\ p.sym = Packet(k, len'[k])
                                /\ (k \in protected <=> p.m > 0)
                                /\ Carries(p, k) /\ Carries(p, k)'
  <2>1. PICK k \in Offered : Carries(p, k) /\ (k \in protected <=> p.m > 0)
    BY <1>6 DEF IInv, NetOK
  <2>2. p.sym = Packet(k, len[k]) /\ len'[k] = len[k] /\ k \in Offered'
    BY <1>3, <2>1 DEF Carries
  <2>3. Carries(p, k)'
    BY <1>6, <2>2 DEF Carries
  <2> QED
    BY <2>1, <2>2, <2>3
<1>7. ASSUME NEW p, p = pkt, NEW k, k = n PROVE Carries(p, k)' /\ p.m = m
  BY <1>3, <1>4, <1>7 DEF Carries, x
<1>8. ASSUME NEW p \in net', p.type = "Data"
      PROVE  \E k \in Offered' : Carries(p, k)' /\ (k \in protected' <=> p.m > 0)
  <2>1. CASE p \in net
    <3>1. PICK k \in Offered : Carries(p, k)' /\ (k \in protected <=> p.m > 0)
      BY <1>6, <1>8, <2>1
    <3>2. k # n /\ k \in Offered'
      BY <1>3
    <3> QED
      BY <1>1, <3>1, <3>2
  <2>2. CASE p \in Sent(l)
    <3>1. p = pkt
      BY <1>4, <1>8, <2>2
    <3>2. n \notin protected
      BY <1>3 DEF IInv, Plain
    <3>3. n \in protected' <=> m > 0
      BY <1>1, <3>2
    <3>4. PICK k \in Offered' : k = n
      BY <1>3
    <3> QED
      BY <1>7, <3>1, <3>3, <3>4
  <2> QED
    BY <1>1, <2>1, <2>2
<1>9. ASSUME NEW p \in net, p.type = "Data" PROVE p.sym # x
  <2>1. PICK k \in Offered : p.sym = Packet(k, len'[k])
    BY <1>6, <1>9
  <2>2. k \in Offered' /\ n \in Offered' /\ k # n /\ x = Packet(n, len'[n])
    BY <1>3 DEF x
  <2> QED
    BY <1>3, <2>1, <2>2
<1>10. ASSUME NEW p \in net', NEW q \in net', p.type = "Data", q.type = "Data",
              p.sym = q.sym
       PROVE  p = q
  <2>1. CASE p \in net /\ q \in net
    BY <1>10, <2>1 DEF IInv, NetOK
  <2>2. CASE p \in Sent(l)
    BY <1>1, <1>4, <1>9, <1>10, <2>2
  <2>3. CASE q \in Sent(l)
    BY <1>1, <1>4, <1>9, <1>10, <2>3
  <2> QED
    BY <1>1, <2>1, <2>2, <2>3
<1>11. ASSUME NEW p \in net', NEW q \in net', p.group = q.group
       PROVE  p.m = q.m /\ (p.index = q.index => p = q)
  <2>1. CASE p \in net /\ q \in net
    BY <1>11, <2>1 DEF IInv, NetOK
  <2>2. ASSUME NEW a \in net, NEW d \in Sent(l), a.group = d.group
        PROVE  a.m = d.m /\ a.index # d.index
    <3>1. a.group = group_id /\ d.m = m /\ d.index >= j
      BY <1>4, <2>2
    <3>2. a.m = m /\ a.index < j /\ a.index \in Nat
      BY <1>1, <3>1, OpenDatagram
    <3>3. j \in Nat
      BY DEF IInv, Plain
    <3>4. a.index # d.index
      BY <3>1, <3>2, <3>3
    <3> QED
      BY <3>1, <3>2, <3>4
  <2>3. CASE p \in Sent(l) /\ q \in Sent(l)
    BY <1>4, <2>3
  <2> QED
    BY <1>1, <1>11, <2>1, <2>2, <2>3
<1> QED
  BY <1>5, <1>8, <1>10, <1>11 DEF NetOK

LEMMA SendCoded ==
  ASSUME Steady, IInv, NEW l \in Lens, SendData(l)
  PROVE  Coded'
<1> DEFINE n == Len(len) + 1
           j == Len(group_buffer)
           x == Packet(n, l)
           pkt == Datagram("Data", j, x)
           B == Filled(x)
<1>1. /\ Len(len) < shape.data /\ net' = net \cup Sent(l)
      /\ UNCHANGED <<shape, fec, observed>>
  BY SendFacts
<1>2. K' = K
  BY <1>1, TunedSame DEF IInv
<1>3. /\ B \in [1 .. K -> Packets] /\ pkt \in Sent(l) /\ pkt.index = j
      /\ \A d \in Sent(l) : /\ d.group = group_id /\ d.sym = Symbol(B, d.index)
                            /\ d.type = "Fec" => j + 1 = K
  BY <1>1, SentFacts
<1>4. j \in Nat /\ j < K /\ K \in Nat
  BY SizedOK DEF IInv, Plain, Sized
<1>5. ASSUME NEW q \in net, q.group = group_id PROVE q.sym = Symbol(B, q.index)
  <2>1. q.index \in Nat /\ q.index < j /\ q.sym = group_buffer[q.index + 1]
    BY <1>1, <1>5, OpenDatagram
  <2>2. B[q.index + 1] = group_buffer[q.index + 1]
    BY <1>4, <2>1 DEF Filled
  <2>3. Len(B) = K
    BY <1>3, <1>4, BufferLength
  <2>4. q.index < Len(B)
    BY <1>4, <2>1, <2>3
  <2> QED
    BY <2>1, <2>2, <2>4 DEF Symbol
<1> HIDE DEF pkt, B
<1>6. ASSUME NEW p \in net'
      PROVE  \E buf \in [1 .. K -> Packets] :
               \A q \in net' : q.group = p.group => q.sym = Symbol(buf, q.index)
  <2>1. CASE p.group = group_id
    BY <1>1, <1>3, <1>5, <2>1
  <2>2. CASE p.group # group_id
    <3>1. p \in net /\ \A q \in net' : q.group = p.group => q \in net
      BY <1>1, <1>3, <2>2
    <3>2. PICK buf \in [1 .. K -> Packets] :
               \A q \in net : q.group = p.group => q.sym = Symbol(buf, q.index)
      BY <3>1 DEF IInv, Coded
    <3> QED
      BY <3>1, <3>2
  <2> QED
    BY <2>1, <2>2
<1>7. ASSUME NEW p \in net', p.type = "Fec", NEW i \in Slots(K)
      PROVE  \E q \in net' : q.group = p.group /\ q.index = i
  <2>1. CASE p \in net
    BY <1>1, <1>7, <2>1 DEF IInv, Coded
  <2>2. CASE p \in Sent(l)
    <3>1. j + 1 = K /\ p.group = group_id
      BY <1>3, <1>7, <2>2
    <3>2. CASE i = j
      BY <1>1, <1>3, <3>1, <3>2
    <3>3. CASE i # j
      <4>1. i \in Slots(j)
        BY <1>4, <3>1, <3>3 DEF Slots
      <4>2. PICK q \in net : q.group = group_id /\ q.index = i
        BY <1>1, <4>1 DEF IInv, Open
      <4> QED
        BY <1>1, <3>1, <4>2
    <3> QED
      BY <3>2, <3>3
  <2> QED
    BY <1>1, <2>1, <2>2
<1> QED
  BY <1>2, <1>6, <1>7 DEF Coded

LEMMA SendOpen ==
  ASSUME Steady, IInv, NEW l \in Lens, SendData(l)
  PROVE  Open' /\ group_id' \in Slots(GROUP_MOD)
         /\ group_buffer' \in Seq(Packets) /\ Len(group_buffer') < K
<1> DEFINE n == Len(len) + 1
           j == Len(group_buffer)
           x == Packet(n, l)
           pkt == Datagram("Data", j, x)
           buf == Append(group_buffer, x)
<1>1. /\ Len(len) < shape.data /\ net' = net \cup Sent(l) /\ len' = Append(len, l)
      /\ UNCHANGED <<shape, fec, observed>>
      /\ j + 1 >= K => group_buffer' = <<>> /\ group_id' = NextGroup
      /\ ~(j + 1 >= K) => group_buffer' = buf /\ group_id' = group_id
  BY SendFacts
<1>2. /\ pkt \in Sent(l) /\ pkt.index = j /\ pkt.type = "Data" /\ pkt.sym = x
      /\ \A d \in Sent(l) : /\ d.group = group_id /\ IsDatagram(d)
                            /\ d.type = "Data" => d = pkt
                            /\ d.type = "Fec" => j + 1 = K
  BY <1>1, SentFacts
<1>3. Sized
  BY SizedOK DEF IInv
<1>4. /\ j \in Nat /\ j < K /\ K \in Nat /\ K > 0 /\ shape.data \in Nat
      /\ shape.data <= GROUP_MOD /\ GROUP_MOD \in Nat
  BY <1>3 DEF IInv, Plain, Sized
<1>5. Len(len') = n /\ n \in Nat /\ n <= shape.data /\ Len(len) \in Nat
  BY <1>1, <1>4 DEF IInv, Plain
<1>6. /\ group_id + (IF group_buffer = <<>> THEN 0 ELSE 1) <= Len(len)
      /\ \A p \in net : p.group <= group_id
      /\ \A i \in Slots(j) : \E p \in net : p.group = group_id /\ p.index = i
  BY <1>1 DEF IInv, Open
<1>7. group_id \in Slots(GROUP_MOD) /\ group_id \in Nat /\ group_id <= Len(len)
  <2>1. group_id \in Slots(GROUP_MOD) /\ group_id \in Nat
    BY DEF IInv, Plain, Slots
  <2> QED
    BY <1>5, <1>6, <2>1
<1>8. NextGroup \in Slots(GROUP_MOD) /\ (group_id + 1 < GROUP_MOD => NextGroup = group_id + 1)
  BY <1>3, <1>7, NextGroupType
<1>9. x \in Packets /\ buf \in Seq(Packets) /\ Len(buf) = j + 1 /\ buf[j + 1] = x
      /\ \A i \in 1 .. j : buf[i] = group_buffer[i]
  <2>1. n \in Source
    BY <1>1, OfferFacts
  <2>2. x \in Packets
    BY <2>1 DEF Packets
  <2>3. group_buffer \in Seq(Packets)
    BY DEF IInv, Plain
  <2> HIDE DEF x
  <2> QED
    BY <2>2, <2>3
<1>10. \A p \in net' : p.group \in Nat /\ p.group <= group_id
  <2>1. \A p \in net' : IsDatagram(p)
    BY <1>1, <1>2 DEF IInv, NetOK
  <2>2. \A p \in net' : p.group \in Nat
    BY <2>1 DEF IsDatagram, Slots
  <2>3. group_id <= group_id
    BY <1>7
  <2> QED
    BY <1>1, <1>2, <1>6, <2>2, <2>3
<1> HIDE DEF buf, pkt, x
<1>11. CASE j + 1 >= K
  <2>1. group_buffer' = <<>> /\ group_id' = NextGroup
    BY <1>1, <1>11
  <2>2. ASSUME Len(len') < shape.data
        PROVE  /\ group_id' + (IF group_buffer' = <<>> THEN 0 ELSE 1) <= Len(len')
               /\ \A p \in net' : p.group <= group_id' /\ p.group # group_id'
    <3>1. group_id' = group_id + 1
      BY <1>4, <1>5, <1>7, <1>8, <2>1, <2>2
    <3>2. group_id' <= Len(len') /\ group_id' \in Nat
      BY <1>5, <1>7, <3>1
    <3> QED
      BY <1>7, <1>10, <2>1, <3>1, <3>2
  <2>3. Slots(Len(group_buffer')) = {}
    BY <2>1 DEF Slots
  <2>4. Open'
    BY <1>1, <2>2, <2>3 DEF Open
  <2>5. <<>> \in Seq(Packets) /\ Len(<<>>) < K
    BY <1>4
  <2> QED
    BY <1>8, <2>1, <2>4, <2>5
<1>12. CASE ~(j + 1 >= K)
  <2>1. group_buffer' = buf /\ group_id' = group_id
    BY <1>1, <1>12
  <2>2. Len(buf) < K /\ buf # <<>>
    BY <1>4, <1>9, <1>12
  <2>3. group_id' + (IF group_buffer' = <<>> THEN 0 ELSE 1) <= Len(len')
    BY <1>5, <1>7, <2>1, <2>2
  <2>4. ASSUME NEW p \in net', p.group = group_id
        PROVE  p.index < Len(buf) /\ p.sym = buf[p.index + 1]
    <3>1. CASE p \in net
      <4>1. p.index \in Nat /\ p.index < j /\ p.sym = group_buffer[p.index + 1]
        BY <1>1, <2>4, <3>1, OpenDatagram
      <4>2. p.index + 1 \in 1 .. j
        BY <1>4, <4>1
      <4> QED
        BY <1>4, <1>9, <4>1, <4>2
    <3>2. CASE p \in Sent(l)
      <4>1. j + 1 # K
        BY <1>4, <1>12
      <4>2. p.type = "Data"
        BY <1>2, <3>2, <4>1 DEF IsDatagram
      <4>3. p.index = j /\ p.sym = x
        BY <1>2, <3>2, <4>2
      <4> QED
        BY <1>4, <1>9, <4>3
    <3> QED
      BY <1>1, <3>1, <3>2
  <2>5. ASSUME NEW i \in Slots(Len(buf))
        PROVE  \E p \in net' : p.group = group_id /\ p.index = i
    <3>1. CASE i = j
      BY <1>1, <1>2, <3>1
    <3>2. CASE i # j
      <4>1. i \in Slots(j)
        BY <1>4, <1>9, <3>2 DEF Slots
      <4> QED
        BY <1>1, <1>6, <4>1
    <3> QED
      BY <3>1, <3>2
  <2>6. Open'
    BY <1>10, <2>1, <2>3, <2>4, <2>5 DEF Open
  <2> QED
    BY <1>7, <1>9, <2>1, <2>2, <2>6
<1> QED
  BY <1>11, <1>12

LEMMA SendIInv ==
  ASSUME Steady, IInv, NEW l \in Lens, SendData(l)
  PROVE  IInv'
<1> DEFINE n == Len(len) + 1
           j == Len(group_buffer)
           x == Packet(n, l)
           pkt == Datagram("Data", j, x)
<1>1. /\ Len(len) < shape.data /\ len' = Append(len, l) /\ net' = net \cup Sent(l)
      /\ protected' = IF m > 0 THEN protected \cup {n} ELSE protected
      /\ UNCHANGED <<shape, fec, observed>>
      /\ UNCHANGED rxVars
  BY SendFacts
<1>2. Tuned' /\ K' = K /\ MostParity' = MostParity /\ m' = m
  BY <1>1, TunedSame DEF IInv
<1>3. /\ n \notin Offered /\ Offered' = Offered \cup {n} /\ n \in Source
      /\ len' \in Seq(Lens) /\ Len(len') = n
      /\ \A k \in Offered : len'[k] = len[k]
      /\ len'[n] = l
      /\ \A k, h \in Offered' : Packet(k, len'[k]) = Packet(h, len'[h]) => k = h
  BY <1>1, OfferFacts
<1>4. /\ pkt \in Sent(l)
      /\ pkt.type = "Data" /\ pkt.index = j /\ pkt.sym = x
      /\ \A d \in Sent(l) : d.group = group_id /\ d.m = m /\ (d.type = "Data" => d = pkt)
  BY <1>1, SentFacts
<1>5. /\ rx_groups' = rx_groups /\ panicked' = panicked /\ writes' = writes
      /\ garbage' = garbage /\ suppressed' = suppressed /\ shape' = shape
  BY <1>1 DEF rxVars
<1>6. Plain'
  <2>1. Len(len) \in Nat /\ shape.data \in Nat
    BY SizedOK DEF IInv, Plain, Sized
  <2>2. Len(len') <= shape.data
    BY <1>1, <1>3, <2>1
  <2>3. protected' \subseteq Offered'
    BY <1>1, <1>3 DEF IInv, Plain
  <2>4. \A k \in Source \ Offered' : writes[k] = 0
    BY <1>3 DEF IInv, Plain
  <2>5. /\ group_id' \in Slots(GROUP_MOD)
        /\ group_buffer' \in Seq(Packets) /\ Len(group_buffer') < K
    BY SendOpen
  <2> QED
    BY <1>2, <1>3, <1>5, <2>2, <2>3, <2>4, <2>5 DEF IInv, Plain
<1> HIDE DEF pkt, n, x
<1>7. RxOK'
  <2> SUFFICES ASSUME NEW g \in Slots(GROUP_MOD), rx_groups[g] # NoGroup
               PROVE  GroupOK(rx_groups[g], g)'
    BY <1>5 DEF RxOK
  <2> DEFINE r == rx_groups[g]
  <2>1. GroupOK(r, g)
    BY DEF IInv, RxOK
  <2>2. ASSUME NEW p \in net', p.group = g PROVE p.m = r.m
    <3>1. CASE p \in net
      BY <2>1, <2>2, <3>1 DEF GroupOK
    <3>2. CASE p \in Sent(l)
      <4>1. g = group_id /\ p.m = m
        BY <1>4, <2>2, <3>2
      <4>2. PICK q \in net : q.group = g
        BY <2>1 DEF GroupOK
      <4>3. q.m = m
        BY <1>1, <4>1, <4>2, OpenDatagram
      <4>4. q.m = r.m
        BY <2>1, <4>2 DEF GroupOK
      <4> QED
        BY <4>1, <4>3, <4>4
    <3> QED
      BY <1>1, <3>1, <3>2
  <2>3. net \subseteq net'
    BY <1>1
  <2> QED
    BY <1>2, <1>5, <2>1, <2>2, <2>3 DEF GroupOK
<1>8. Written'
  <2>1. ASSUME NEW p \in net', NEW k \in Offered', Carries(p, k)', p.m > 0
        PROVE  writes[k] = IF p.index \in rx_groups[p.group].delivered THEN 1 ELSE 0
    <3>1. p.type = "Data" /\ p.sym = Packet(k, len'[k])
      BY <2>1 DEF Carries
    <3>2. CASE p \in net
      <4>1. PICK h \in Offered : Carries(p, h)
        BY <3>1, <3>2 DEF IInv, NetOK
      <4>2. p.sym = Packet(h, len'[h]) /\ h \in Offered'
        BY <1>3, <4>1 DEF Carries
      <4>3. h = k
        BY <1>3, <3>1, <4>2
      <4> QED
        BY <2>1, <3>2, <4>1, <4>3 DEF IInv, Written
    <3>3. CASE p \in Sent(l)
      <4>1. p = pkt /\ p.index = j /\ p.group = group_id
        BY <1>4, <3>1, <3>3
      <4>2. n \in Offered' /\ p.sym = Packet(n, len'[n])
        BY <1>3, <1>4, <4>1 DEF x
      <4>3. k = n
        BY <1>3, <3>1, <4>2
      <4>4. writes[n] = 0
        BY <1>3 DEF IInv, Plain
      <4>5. j \notin rx_groups[group_id].delivered
        <5>1. CASE rx_groups[group_id] = NoGroup
          BY <5>1 DEF NoGroup
        <5>2. CASE rx_groups[group_id] # NoGroup
          <6>1. GroupOK(rx_groups[group_id], group_id)
            BY <5>2 DEF IInv, RxOK, Plain
          <6>2. ASSUME j \in rx_groups[group_id].delivered PROVE FALSE
            <7>1. PICK q \in net : q.group = group_id /\ q.index = j
              BY <6>1, <6>2 DEF GroupOK
            <7>2. q.index < j /\ q.index \in Nat
              BY <1>1, <7>1, OpenDatagram
            <7> QED
              BY <7>1, <7>2
          <6> QED
            BY <6>2
        <5> QED
          BY <5>1, <5>2
      <4> QED
        BY <4>1, <4>3, <4>4, <4>5
    <3> QED
      BY <1>1, <3>2, <3>3
  <2> QED
    BY <1>5, <2>1 DEF IInv, Written
<1>9. Complete'
  BY <1>2, <1>5 DEF IInv, Complete, Present, Alike
<1> QED
  BY <1>2, <1>6, <1>7, <1>8, <1>9, SendNetOK, SendCoded, SendOpen DEF IInv

-----------------------------------------------------------------------------
(* The receiver *)

LEMMA CarriesOne ==
  ASSUME Plain, NEW p, NEW n, NEW k, Carries(p, n), Carries(p, k)
  PROVE  n = k
<1>1. len \in Seq(Lens) /\ n \in Offered /\ k \in Offered
      /\ Packet(n, len[n]) = Packet(k, len[k])
  BY DEF Plain, Carries
<1>2. n \in Nat /\ k \in Nat /\ len[n] \in Lens /\ len[k] \in Lens
  BY <1>1 DEF Offered
<1>3. len[n] \in Nat /\ len[n] >= 1 /\ len[k] \in Nat /\ len[k] >= 1
  BY <1>2, LensType
<1> QED
  BY <1>1, <1>2, <1>3, SamePacket

(* The group a symbol is stored into, and the group with it. *)
Entry(p) == IF rx_groups[p.group] = NoGroup THEN NewRxGroup(p.m) ELSE rx_groups[p.group]

LEMMA EntryOK ==
  ASSUME Steady, IInv, NEW p \in net, p.m > 0
  PROVE  /\ GroupOK(Entry(p), p.group)
         /\ Entry(p).delivered = rx_groups[p.group].delivered
         /\ Entry(p).m = p.m
         /\ p.index \in Slots(K + p.m)
         /\ p.group \in Slots(GROUP_MOD)
<1>1. IsDatagram(p)
  BY DEF IInv, NetOK
<1>2. p.index \in Slots(K + p.m) /\ p.group \in Slots(GROUP_MOD)
  BY <1>1 DEF IsDatagram
<1>3. CASE rx_groups[p.group] = NoGroup
  <2> DEFINE r == NewRxGroup(p.m)
  <2>1. r = [m |-> p.m, symbols |-> [i \in Slots(K + p.m) |-> Missing],
             delivered |-> {}, decoded |-> FALSE]
    BY DEF NewRxGroup
  <2>2. /\ r.m = p.m /\ r.symbols = [i \in Slots(K + p.m) |-> Missing]
        /\ r.delivered = {} /\ r.decoded = FALSE
    BY <2>1
  <2> HIDE DEF r
  <2>3. \A q \in net : q.group = p.group => q.m = r.m
    BY <2>2 DEF IInv, NetOK
  <2>4. \A i \in Slots(K) : r.symbols[i] # Missing => i \in r.delivered
    <3>1. K \in Nat /\ p.m \in Nat
      BY <1>1, SizedOK DEF IInv, Sized, IsDatagram
    <3>2. Slots(K) \subseteq Slots(K + p.m)
      BY <3>1 DEF Slots
    <3> QED
      BY <2>2, <3>2
  <2>5. GroupOK(r, p.group)
    BY <2>1, <2>2, <2>3, <2>4 DEF GroupOK
  <2>6. Entry(p) = r /\ rx_groups[p.group].delivered = {}
    BY <1>3 DEF Entry, NoGroup, r
  <2> QED
    BY <1>2, <2>2, <2>5, <2>6
<1>4. CASE rx_groups[p.group] # NoGroup
  <2>1. Entry(p) = rx_groups[p.group]
    BY <1>4 DEF Entry
  <2>2. GroupOK(rx_groups[p.group], p.group)
    BY <1>2, <1>4 DEF IInv, RxOK
  <2>3. p.m = rx_groups[p.group].m
    BY <2>2 DEF GroupOK
  <2> QED
    BY <1>2, <2>1, <2>2, <2>3
<1> QED
  BY <1>3, <1>4

LEMMA StoredOK ==
  ASSUME Steady, IInv, NEW p \in net, p.m > 0
  PROVE  LET r == Stored(Entry(p), p)
         IN  /\ GroupOK(r, p.group)
             /\ r.m = p.m
             /\ r.delivered = IF p.type = "Data"
                                THEN rx_groups[p.group].delivered \cup {p.index}
                                ELSE rx_groups[p.group].delivered
<1> DEFINE e == Entry(p)
           r == Stored(e, p)
           D == IF p.type = "Data" /\ e.symbols[p.index] = Missing
                  THEN e.delivered \cup {p.index} ELSE e.delivered
<1>1. /\ GroupOK(e, p.group) /\ e.delivered = rx_groups[p.group].delivered
      /\ e.m = p.m /\ p.index \in Slots(K + p.m)
  BY EntryOK
<1>2. /\ e = [m |-> e.m, symbols |-> e.symbols, delivered |-> e.delivered,
             decoded |-> e.decoded]
      /\ e.symbols = [i \in Slots(K + e.m) |-> e.symbols[i]]
  BY <1>1 DEF GroupOK
<1>3. r = [e EXCEPT !.symbols[p.index] = p.sym, !.delivered = D]
  BY DEF Stored
<1> HIDE DEF e, D
<1>4. /\ r = [m |-> r.m, symbols |-> r.symbols, delivered |-> r.delivered,
              decoded |-> r.decoded]
      /\ r.m = e.m /\ r.symbols = [e.symbols EXCEPT ![p.index] = p.sym]
      /\ r.delivered = D /\ r.decoded = e.decoded
  BY <1>2, <1>3
<1> HIDE DEF r
<1>5. IsDatagram(p) /\ K \in Nat
  BY SizedOK DEF IInv, NetOK, Sized
<1>6. /\ p.type = "Data" <=> p.index < K
      /\ p.type = "Data" <=> p.index \in Slots(K)
  BY <1>1, <1>5 DEF IsDatagram, Slots
<1>7. /\ r.symbols = [i \in Slots(K + r.m) |-> r.symbols[i]]
      /\ r.symbols[p.index] = p.sym
      /\ \A i \in Slots(K + e.m) \ {p.index} : r.symbols[i] = e.symbols[i]
  BY <1>1, <1>2, <1>4
<1>8. \A i \in Slots(K) : i \in Slots(K + e.m)
  <2>1. e.m \in Nat
    BY <1>1, <1>5 DEF IsDatagram
  <2> QED
    BY <1>5, <2>1 DEF Slots
<1>9. D = IF p.type = "Data" THEN e.delivered \cup {p.index} ELSE e.delivered
  <2>1. p.type = "Data" /\ e.symbols[p.index] # Missing => p.index \in e.delivered
    BY <1>1, <1>6 DEF GroupOK
  <2> QED
    BY <2>1 DEF D
<1>10. D \subseteq Slots(K) /\ e.delivered \subseteq D
  BY <1>1, <1>6, <1>9 DEF GroupOK
<1>11. \A q \in net : q.group = p.group => q.m = r.m
  BY <1>1, <1>4 DEF GroupOK
<1>12. ASSUME NEW i \in Slots(K + r.m), r.symbols[i] # Missing
       PROVE  \E q \in net : q.group = p.group /\ q.index = i /\ q.sym = r.symbols[i]
  <2>1. CASE i = p.index
    BY <1>7, <2>1
  <2>2. CASE i # p.index
    BY <1>1, <1>4, <1>7, <1>12, <2>2 DEF GroupOK
  <2> QED
    BY <2>1, <2>2
<1>13. ASSUME NEW i \in Slots(K), r.symbols[i] # Missing PROVE i \in D
  <2>1. CASE i = p.index
    BY <1>6, <1>9, <2>1
  <2>2. CASE i # p.index
    <3>1. e.symbols[i] # Missing
      BY <1>7, <1>8, <1>13, <2>2
    <3>2. i \in e.delivered
      BY <1>1, <3>1 DEF GroupOK
    <3> QED
      BY <1>10, <3>2
  <2> QED
    BY <2>1, <2>2
<1>14. \A i \in D : \E q \in net : q.group = p.group /\ q.index = i
  BY <1>1, <1>9 DEF GroupOK
<1>15. r.decoded => D = Slots(K)
  <2>1. e.decoded => e.delivered = Slots(K)
    BY <1>1 DEF GroupOK
  <2>2. e.delivered = Slots(K) => D = Slots(K)
    BY <1>10
  <2> QED
    BY <1>4, <2>1, <2>2
<1>16. r.decoded \in BOOLEAN /\ r.m > 0
  BY <1>1, <1>4 DEF GroupOK
<1>17. GroupOK(r, p.group)
  BY <1>4, <1>7, <1>10, <1>11, <1>12, <1>13, <1>14, <1>15, <1>16 DEF GroupOK
<1> QED
  BY <1>1, <1>4, <1>9, <1>17 DEF r, e

(* A group with K symbols holds those of sources that were all sent. *)
LEMMA GroupDecodes ==
  ASSUME Steady, IInv, NEW r, NEW g \in Slots(GROUP_MOD), GroupOK(r, g),
         Cardinality(Present(r)) >= K
  PROVE  \E buf : /\ Holds(r, buf)
                  /\ \A i \in Slots(K) : \E q \in net :
                       /\ q.group = g /\ q.index = i /\ q.type = "Data"
                       /\ q.sym = buf[i + 1]
<1>1. PICK p \in net : p.group = g
  BY DEF GroupOK
<1>2. PICK buf \in [1 .. K -> Packets] :
        \A q \in net : q.group = g => q.sym = Symbol(buf, q.index)
  BY <1>1 DEF IInv, Coded
<1>3. /\ K \in Nat /\ MostParity \in Nat
  BY SizedOK DEF IInv, Sized
<1>4. IsDatagram(p) /\ p.m = r.m
  BY <1>1 DEF IInv, NetOK, GroupOK
<1>5. r.m \in Nat /\ r.m <= MostParity
  BY <1>3, <1>4 DEF IsDatagram
<1>6. DOMAIN r.symbols = Slots(K + r.m)
  BY DEF GroupOK
<1>7. Holds(r, buf)
  <2>1. \A i \in Slots(K + r.m) : r.symbols[i] = Missing \/ r.symbols[i] = Symbol(buf, i)
    BY <1>2 DEF GroupOK
  <2> QED
    BY <1>2, <1>5, <1>6, <2>1 DEF Holds
<1>8. ASSUME NEW i \in Slots(K) PROVE \E q \in net : q.group = g /\ q.index = i
  <2>1. CASE \E x \in Present(r) : x \notin Slots(K)
    <3>1. PICK x \in Slots(K + r.m) : x \notin Slots(K) /\ r.symbols[x] # Missing
      BY <1>6, <2>1 DEF Present
    <3>2. PICK q \in net : q.group = g /\ q.index = x
      BY <3>1 DEF GroupOK
    <3>3. ~(x < K)
      BY <1>3, <1>5, <3>1 DEF Slots
    <3>4. q.type = "Fec"
      BY <3>2, <3>3 DEF IInv, NetOK, IsDatagram
    <3> QED
      BY <3>2, <3>4 DEF IInv, Coded
  <2>2. CASE Present(r) \subseteq Slots(K)
    <3>1. IsFiniteSet(Slots(K)) /\ Cardinality(Slots(K)) = K
      BY <1>3, FS_Interval DEF Slots
    <3>2. Present(r) = Slots(K)
      <4>1. /\ IsFiniteSet(Present(r))
            /\ Cardinality(Present(r)) <= Cardinality(Slots(K))
            /\ Cardinality(Present(r)) = Cardinality(Slots(K)) => Present(r) = Slots(K)
        BY <2>2, <3>1, FS_Subset
      <4>2. Cardinality(Present(r)) \in Nat
        BY <4>1, FS_CardinalityType
      <4> QED
        BY <1>3, <3>1, <4>1, <4>2
    <3>3. r.symbols[i] # Missing /\ i \in Slots(K + r.m)
      BY <1>6, <3>2 DEF Present
    <3> QED
      BY <3>3 DEF GroupOK
  <2> QED
    BY <2>1, <2>2
<1>9. ASSUME NEW i \in Slots(K)
      PROVE  \E q \in net : /\ q.group = g /\ q.index = i /\ q.type = "Data"
                            /\ q.sym = buf[i + 1]
  <2>1. PICK q \in net : q.group = g /\ q.index = i
    BY <1>8
  <2>2. i < K /\ Len(buf) = K
    BY <1>2, <1>3, BufferLength DEF Slots
  <2>3. q.type = "Data"
    BY <2>1, <2>2 DEF IInv, NetOK, IsDatagram
  <2>4. q.sym = buf[i + 1]
    BY <1>2, <2>1, <2>2 DEF Symbol
  <2> QED
    BY <2>1, <2>3, <2>4
<1> QED
  BY <1>7, <1>9

LEMMA RecoverOK ==
  ASSUME Steady, IInv, NEW r, NEW g \in Slots(GROUP_MOD), GroupOK(r, g)
  PROVE  /\ GroupOK(RecoverGroup(r), g)
         /\ RecoverGroup(r).delivered = r.delivered \cup FillsIn(r)
         /\ FillsIn(r) \cap r.delivered = {} /\ FillsIn(r) \subseteq Slots(K)
         /\ FillsIn(r) # {} => Recovers(r)
         /\ Alike(RecoverGroup(r)) /\ Cardinality(Present(RecoverGroup(r))) >= K
              => RecoverGroup(r).delivered = Slots(K)
<1> DEFINE h == RecoverGroup(r)
<1>1. /\ r = [m |-> r.m, symbols |-> r.symbols, delivered |-> r.delivered,
             decoded |-> r.decoded]
      /\ r.delivered \subseteq Slots(K) /\ r.decoded \in BOOLEAN
      /\ r.decoded => r.delivered = Slots(K)
  BY DEF GroupOK
<1>2. CASE Recovers(r)
  <2>1. h = [r EXCEPT !.decoded = TRUE, !.delivered = Slots(K)]
    BY <1>2 DEF RecoverGroup
  <2>2. /\ h = [m |-> h.m, symbols |-> h.symbols, delivered |-> h.delivered,
                decoded |-> h.decoded]
        /\ h.m = r.m /\ h.symbols = r.symbols /\ h.delivered = Slots(K)
        /\ h.decoded = TRUE
    BY <1>1, <2>1
  <2>3. FillsIn(r) = Slots(K) \ r.delivered
    BY <1>2 DEF FillsIn
  <2>4. \A i \in Slots(K) : \E p \in net : p.group = g /\ p.index = i
    BY <1>2, GroupDecodes DEF Recovers
  <2> HIDE DEF h
  <2>5. /\ h.symbols = [i \in Slots(K + h.m) |-> h.symbols[i]] /\ h.m > 0
        /\ \E p \in net : p.group = g
        /\ \A p \in net : p.group = g => p.m = h.m
        /\ \A i \in Slots(K + h.m) : h.symbols[i] # Missing =>
             \E p \in net : p.group = g /\ p.index = i /\ p.sym = h.symbols[i]
    BY <2>2 DEF GroupOK
  <2>6. GroupOK(h, g)
    BY <2>2, <2>4, <2>5 DEF GroupOK
  <2> QED
    BY <1>1, <1>2, <2>2, <2>3, <2>6 DEF h
<1>3. CASE ~Recovers(r)
  <2>1. h = r /\ FillsIn(r) = {}
    BY <1>3 DEF RecoverGroup, FillsIn
  <2>2. ASSUME Alike(r), Cardinality(Present(r)) >= K PROVE r.delivered = Slots(K)
    <3>1. CASE r.decoded
      BY <1>1, <3>1
    <3>2. CASE ~r.decoded
      <4>1. PICK buf : Holds(r, buf)
        BY <2>2, GroupDecodes
      <4>2. Sized
        BY SizedOK DEF IInv
      <4>3. buf \in [1 .. K -> Packets]
        BY <4>1 DEF Holds
      <4>5. Decoded(r) = Padded(buf)
        BY <2>2, <4>1, <4>2, DecodeHeld
      <4>6. Decoded(r) # <<>>
        BY <4>2, <4>3, <4>5, PaddedNotEmpty
      <4> QED
        BY <1>3, <2>2, <3>2, <4>6 DEF Recovers
    <3> QED
      BY <3>1, <3>2
  <2> QED
    BY <2>1, <2>2
<1> QED
  BY <1>2, <1>3

(* What recovery writes for slot i is the packet that was sent in it. *)
LEMMA RecoveredPacket ==
  ASSUME Steady, IInv, NEW r, NEW g \in Slots(GROUP_MOD), GroupOK(r, g),
         Recovers(r), NEW i \in Slots(K)
  PROVE  \E q \in net, n \in Offered :
           /\ q.group = g /\ q.index = i /\ Carries(q, n)
           /\ PacketOf(Decoded(r)[i + 1]) = n
<1>1. Cardinality(Present(r)) >= K /\ Decoded(r) # <<>>
  BY DEF Recovers
<1>2. PICK buf : /\ Holds(r, buf)
                 /\ \A k \in Slots(K) : \E q \in net :
                       /\ q.group = g /\ q.index = k /\ q.type = "Data"
                       /\ q.sym = buf[k + 1]
  BY <1>1, GroupDecodes
<1>3. Sized
  BY SizedOK DEF IInv
<1>4. Decoded(r) = Padded(buf)
  BY <1>1, <1>2, <1>3, DecodeHeld
<1>5. PICK q \in net : /\ q.group = g /\ q.index = i /\ q.type = "Data"
                       /\ q.sym = buf[i + 1]
  BY <1>2
<1>6. PICK n \in Offered : Carries(q, n)
  BY <1>5 DEF IInv, NetOK
<1>7. buf[i + 1] = Packet(n, len[n])
  BY <1>5, <1>6 DEF Carries
<1>8. K \in Nat /\ buf \in [1 .. K -> Packets] /\ i + 1 \in 1 .. K
  BY <1>2, <1>3 DEF Sized, Holds, Slots
<1>9. len \in Seq(Lens)
  BY DEF IInv, Plain
<1>10. PacketOf(Padded(buf)[i + 1]) = n
  BY <1>7, <1>8, <1>9, PaddedPacket
<1> QED
  BY <1>4, <1>5, <1>6, <1>10

(* Bytes of a data datagram are its packet. *)
LEMMA DataPacket ==
  ASSUME IInv, NEW p \in net, NEW n, Carries(p, n)
  PROVE  PacketOf(p.sym) = n
<1>1. len \in Seq(Lens) /\ n \in Offered /\ p.sym = Packet(n, len[n])
  BY DEF IInv, Plain, Carries
<1>2. n \in Nat /\ len[n] \in Nat /\ len[n] >= 1
  BY <1>1, LensType DEF Offered
<1>3. Packet(n, len[n]) \in Seq(Nat)
  BY <1>2, PacketBytes
<1>4. [b \in 1 .. 0 |-> 0] = <<>>
  OBVIOUS
<1>5. PacketOf(ZeroPadded(Packet(n, len[n]), 0)) = n
  <2>1. \A d \in Int : PacketOf(ZeroPadded(Packet(n, len[n]), d)) = n
    BY <1>1, PaddingKeeps
  <2> QED
    BY <2>1
<1>6. Packet(n, len[n]) \o <<>> = Packet(n, len[n])
  BY <1>3, ConcatEmptySeq
<1>7. ZeroPadded(Packet(n, len[n]), 0) = Packet(n, len[n])
  BY <1>4, <1>6 DEF ZeroPadded
<1> QED
  BY <1>1, <1>5, <1>7

(* The slots of p's group that p's arrival adds to what is delivered, and  *)
(* the packets of slots. *)
NewSlots(p) ==
  IF p.m > 0 THEN RecoverGroup(Stored(Entry(p), p)).delivered \ rx_groups[p.group].delivered
  ELSE {p.index}

Handed(p, D) ==
  {n \in Offered : \E q \in net : q.group = p.group /\ q.index \in D /\ Carries(q, n)}

LEMMA DirectMeans ==
  ASSUME NEW p, p.m > 0, NEW g
  PROVE  Direct(g, p) <=> p.type = "Data" /\ p.index \notin g.delivered
<1>1. NoGroup.delivered = {}
  BY DEF NoGroup
<1> QED
  BY <1>1 DEF Direct

LEMMA NewSlotsAre ==
  ASSUME Steady, IInv, NEW p \in net, p.m > 0
  PROVE  LET r == Stored(Entry(p), p)
             direct == Direct(rx_groups[p.group], p)
         IN  /\ NewSlots(p) = FillsIn(r) \cup (IF direct THEN {p.index} ELSE {})
             /\ direct => p.index \notin FillsIn(r)
             /\ FillsIn(r) \subseteq Slots(K)
             /\ FillsIn(r) # {} => Recovers(r)
             /\ GroupOK(r, p.group) /\ p.group \in Slots(GROUP_MOD)
<1> DEFINE r == Stored(Entry(p), p)
           G == rx_groups[p.group].delivered
<1>1. /\ GroupOK(r, p.group)
      /\ r.delivered = IF p.type = "Data" THEN G \cup {p.index} ELSE G
  BY StoredOK
<1>2. p.group \in Slots(GROUP_MOD)
  BY EntryOK
<1> HIDE DEF r
<1>3. /\ RecoverGroup(r).delivered = r.delivered \cup FillsIn(r)
      /\ FillsIn(r) \cap r.delivered = {} /\ FillsIn(r) \subseteq Slots(K)
      /\ FillsIn(r) # {} => Recovers(r)
  BY <1>1, <1>2, RecoverOK
<1>4. NewSlots(p) = (r.delivered \cup FillsIn(r)) \ G
  BY <1>3 DEF NewSlots, r
<1>5. Direct(rx_groups[p.group], p) <=> p.type = "Data" /\ p.index \notin G
  BY DirectMeans
<1> HIDE DEF G
<1>6. NewSlots(p) = FillsIn(r) \cup (IF p.type = "Data" /\ p.index \notin G
                                       THEN {p.index} ELSE {})
  BY <1>1, <1>3, <1>4
<1>7. p.type = "Data" => p.index \notin FillsIn(r)
  BY <1>1, <1>3
<1> QED
  BY <1>1, <1>2, <1>3, <1>5, <1>6, <1>7 DEF r

LEMMA OnceEach ==
  ASSUME Steady, IInv, NEW p \in net, p.m > 0, NEW n \in Nat \ {0}
  PROVE  LET r      == Stored(Entry(p), p)
             direct == Direct(rx_groups[p.group], p)
             A      == {i \in FillsIn(r) : PacketOf(Decoded(r)[i + 1]) = n}
             source == IF p.type = "Data" THEN PacketOf(p.sym) ELSE 0
         IN  Cardinality(A) + (IF direct /\ source = n THEN 1 ELSE 0)
               = IF n \in Handed(p, NewSlots(p)) THEN 1 ELSE 0
<1> DEFINE r      == Stored(Entry(p), p)
           direct == Direct(rx_groups[p.group], p)
           A      == {i \in FillsIn(r) : PacketOf(Decoded(r)[i + 1]) = n}
           source == IF p.type = "Data" THEN PacketOf(p.sym) ELSE 0
<1>1. /\ NewSlots(p) = FillsIn(r) \cup (IF direct THEN {p.index} ELSE {})
      /\ direct => p.index \notin FillsIn(r)
      /\ FillsIn(r) \subseteq Slots(K)
      /\ FillsIn(r) # {} => Recovers(r)
      /\ GroupOK(r, p.group) /\ p.group \in Slots(GROUP_MOD)
  BY NewSlotsAre
<1>2. direct => p.type = "Data"
  BY DEF Direct
<1> HIDE DEF r, direct
<1>3. ASSUME NEW i \in A PROVE \E q \in net : q.group = p.group /\ q.index = i /\ Carries(q, n)
  BY <1>1, RecoveredPacket
<1>4. ASSUME NEW i \in FillsIn(r), NEW q \in net, q.group = p.group, q.index = i,
             Carries(q, n)
      PROVE  i \in A
  <2>1. PICK s \in net, k \in Offered :
           /\ s.group = p.group /\ s.index = i /\ Carries(s, k)
           /\ PacketOf(Decoded(r)[i + 1]) = k
    BY <1>1, RecoveredPacket
  <2>2. s = q
    BY <1>4, <2>1 DEF IInv, NetOK
  <2>3. k = n
    BY <1>4, <2>1, <2>2, CarriesOne DEF IInv
  <2> QED
    BY <2>1, <2>3
<1>5. ASSUME NEW q \in net, NEW s \in net, Carries(q, n), Carries(s, n) PROVE q = s
  BY <1>5 DEF IInv, NetOK, Carries
<1>6. direct /\ source = n <=> direct /\ Carries(p, n)
  <2> SUFFICES ASSUME direct PROVE source = n <=> Carries(p, n)
    OBVIOUS
  <2>1. PICK k \in Offered : Carries(p, k)
    BY <1>2 DEF IInv, NetOK
  <2>2. source = k
    BY <1>2, <2>1, DataPacket
  <2> QED
    BY <2>1, <2>2, CarriesOne DEF IInv
<1>7. ASSUME direct, Carries(p, n) PROVE A = {}
  <2> SUFFICES ASSUME NEW i \in A PROVE FALSE
    OBVIOUS
  <2>1. PICK q \in net : q.group = p.group /\ q.index = i /\ Carries(q, n)
    BY <1>3
  <2>2. q = p
    BY <1>5, <1>7, <2>1
  <2> QED
    BY <1>1, <1>7, <2>1, <2>2
<1>8. n \in Handed(p, NewSlots(p)) <=> A # {} \/ (direct /\ Carries(p, n))
  <2>1. ASSUME n \in Handed(p, NewSlots(p)), A = {} PROVE direct /\ Carries(p, n)
    <3>1. PICK q \in net : q.group = p.group /\ q.index \in NewSlots(p) /\ Carries(q, n)
      BY <2>1 DEF Handed
    <3>2. q.index \notin FillsIn(r)
      BY <1>4, <2>1, <3>1
    <3>3. direct /\ q.index = p.index
      BY <1>1, <3>1, <3>2
    <3>4. q = p
      BY <3>1, <3>3 DEF IInv, NetOK
    <3> QED
      BY <3>1, <3>3, <3>4
  <2>2. ASSUME NEW i \in A PROVE n \in Handed(p, NewSlots(p))
    <3>1. PICK q \in net : q.group = p.group /\ q.index = i /\ Carries(q, n)
      BY <1>3
    <3>2. n \in Offered
      BY <3>1 DEF Carries
    <3>3. i \in NewSlots(p)
      BY <1>1
    <3> QED
      BY <3>1, <3>2, <3>3 DEF Handed
  <2>3. ASSUME direct, Carries(p, n) PROVE n \in Handed(p, NewSlots(p))
    <3>1. n \in Offered /\ p.index \in NewSlots(p)
      BY <1>1, <2>3 DEF Carries
    <3> QED
      BY <2>3, <3>1 DEF Handed
  <2> QED
    BY <2>1, <2>2, <2>3
<1>9. A = {} => Cardinality(A) = 0
  BY FS_EmptySet
<1>10. A # {} => Cardinality(A) = 1
  <2> SUFFICES ASSUME NEW i \in A PROVE Cardinality(A) = 1
    OBVIOUS
  <2>1. ASSUME NEW k \in A PROVE k = i
    <3>1. PICK q \in net : q.group = p.group /\ q.index = i /\ Carries(q, n)
      BY <1>3
    <3>2. PICK s \in net : s.group = p.group /\ s.index = k /\ Carries(s, n)
      BY <1>3
    <3>3. q = s
      BY <1>5, <3>1, <3>2
    <3> QED
      BY <3>1, <3>2, <3>3
  <2>2. A = {i}
    BY <2>1
  <2> QED
    BY <2>2, FS_Singleton
<1> HIDE DEF A, source
<1>11. Cardinality(A) + (IF direct /\ source = n THEN 1 ELSE 0)
               = IF n \in Handed(p, NewSlots(p)) THEN 1 ELSE 0
  <2>1. CASE direct /\ Carries(p, n)
    BY <1>6, <1>7, <1>8, <1>9, <2>1
  <2>2. CASE ~(direct /\ Carries(p, n)) /\ A = {}
    BY <1>6, <1>8, <1>9, <2>2
  <2>3. CASE ~(direct /\ Carries(p, n)) /\ A # {}
    BY <1>6, <1>8, <1>10, <2>3
  <2> QED
    BY <2>1, <2>2, <2>3
<1> QED
  BY <1>11 DEF A, source, r, direct

LEMMA OfferedSource ==
  ASSUME Steady, IInv
  PROVE  Offered \subseteq Source
<1>1. Len(len) \in Nat /\ Len(len) <= shape.data
  BY DEF IInv, Plain
<1>2. /\ shape.data \in Nat /\ shape.data <= Max({c.data : c \in Shapes})
      /\ Max({c.data : c \in Shapes}) \in Nat
  BY SizedOK DEF Sized, IInv
<1>3. ASSUME NEW n \in Offered PROVE n \in Source
  BY <1>1, <1>2 DEF Source, Offered
<1> QED
  BY <1>3

(* Packets handed over are offered ones, and those with parity are new. *)
LEMMA HandedNew ==
  ASSUME Steady, IInv, NEW p \in net, NEW n \in Handed(p, NewSlots(p))
  PROVE  n \in Offered /\ n \in Source /\ (n \in protected => writes[n] = 0)
<1>1. PICK q \in net : q.group = p.group /\ q.index \in NewSlots(p) /\ Carries(q, n)
  BY DEF Handed
<1>2. n \in Offered
  BY <1>1 DEF Carries
<1>3. n \in Source
  BY <1>2, OfferedSource
<1>4. ASSUME n \in protected PROVE writes[n] = 0
  <2>1. PICK k \in Offered : Carries(q, k) /\ (k \in protected <=> q.m > 0)
    BY <1>1 DEF IInv, NetOK, Carries
  <2>2. q.m > 0
    BY <1>1, <1>4, <2>1, CarriesOne DEF IInv
  <2>3. p.m > 0
    BY <1>1, <2>2 DEF IInv, NetOK
  <2>4. q.index \notin rx_groups[q.group].delivered
    BY <1>1, <2>3 DEF NewSlots
  <2> QED
    BY <1>1, <1>2, <2>2, <2>4 DEF IInv, Written
<1> QED
  BY <1>2, <1>3, <1>4

(* One more write, counted up to 2. *)
LEMMA Bump ==
  ASSUME NEW w, NEW t, w \in 0 .. 2, t \in {0, 1}
  PROVE  Min({2, w + t}) = IF t = 0 THEN w ELSE IF w = 0 THEN 1 ELSE 2
<1>1. w + t \in Int /\ 2 \in Int
  OBVIOUS
<1>2. \A b \in Int : Min({2, b}) = IF 2 <= b THEN 2 ELSE b
  BY MinTwo
<1>3. Min({2, w + t}) = IF 2 <= w + t THEN 2 ELSE w + t
  BY <1>1, <1>2
<1> QED
  BY <1>3

(* What Receive writes, given how often each packet is handed over. *)
LEMMA WritesAre ==
  ASSUME Steady, IInv, NEW p \in net, NEW T,
         \A n \in Source : T[n] = IF n \in Handed(p, NewSlots(p)) THEN 1 ELSE 0
  PROVE  [n \in Source |-> Min({2, writes[n] + T[n]})]
           = [n \in Source |-> IF n \notin Handed(p, NewSlots(p)) THEN writes[n]
                               ELSE IF writes[n] = 0 THEN 1 ELSE 2]
<1>1. ASSUME NEW n \in Source
      PROVE  Min({2, writes[n] + T[n]})
               = IF n \notin Handed(p, NewSlots(p)) THEN writes[n]
                 ELSE IF writes[n] = 0 THEN 1 ELSE 2
  <2>1. writes[n] \in 0 .. 2
    BY DEF IInv, Plain
  <2>2. T[n] = IF n \in Handed(p, NewSlots(p)) THEN 1 ELSE 0
    OBVIOUS
  <2>3. T[n] \in {0, 1}
    BY <2>2
  <2>4. Min({2, writes[n] + T[n]})
          = IF T[n] = 0 THEN writes[n] ELSE IF writes[n] = 0 THEN 1 ELSE 2
    BY <2>1, <2>3, Bump
  <2> QED
    BY <2>2, <2>4
<1> QED
  BY <1>1

(* The arrival of p: the packets of NewSlots(p) are written, the others of *)
(* its group are not. *)
Arrived(p) ==
  /\ writes' = [n \in Source |->
                 IF n \notin Handed(p, NewSlots(p)) THEN writes[n]
                 ELSE IF writes[n] = 0 THEN 1 ELSE 2]
  /\ garbage' = FALSE /\ panicked' = FALSE
  /\ UNCHANGED <<txVars, net>>

LEMMA ParityArrived ==
  ASSUME Steady, IInv, NEW p \in net, p.m > 0, Receive(p)
  PROVE  /\ Arrived(p)
         /\ rx_groups' = [rx_groups EXCEPT ![p.group] = RecoverGroup(Stored(Entry(p), p))]
         /\ suppressed' = suppressed \cup
              IF p.type = "Data" /\ ~Direct(rx_groups[p.group], p)
                THEN {PacketOf(p.sym)} ELSE {}
<1> DEFINE r      == Stored(Entry(p), p)
           direct == Direct(rx_groups[p.group], p)
           source == IF p.type = "Data" THEN PacketOf(p.sym) ELSE 0
           filled == [i \in FillsIn(r) |-> PacketOf(Decoded(r)[i + 1])]
           T == [n \in Source |->
                  Cardinality({i \in DOMAIN filled : filled[i] = n})
                    + IF direct /\ source = n THEN 1 ELSE 0]
<1>1. /\ GroupOK(Entry(p), p.group) /\ Entry(p).m = p.m
      /\ p.index \in Slots(K + p.m)
  BY EntryOK
<1>2. p.index < K + p.m
  <2>1. K \in Nat /\ p.m \in Nat
    BY SizedOK DEF IInv, Sized, NetOK, IsDatagram
  <2> QED
    BY <1>1, <2>1 DEF Slots
<1>3. p.index \in DOMAIN Entry(p).symbols
  BY <1>1 DEF GroupOK
<1>4. /\ writes' = [n \in Source |-> Min({2, writes[n] + T[n]})]
      /\ garbage' = (garbage \/ \E i \in DOMAIN filled : filled[i] = 0)
      /\ suppressed' = suppressed \cup
           IF p.type = "Data" /\ ~direct THEN {source} ELSE {}
      /\ rx_groups' = [rx_groups EXCEPT ![p.group] = RecoverGroup(r)]
      /\ panicked' = FALSE
      /\ UNCHANGED <<txVars, net>>
  BY <1>2, <1>3 DEF Receive, Entry
<1>5. ASSUME NEW n \in Source PROVE T[n] = IF n \in Handed(p, NewSlots(p)) THEN 1 ELSE 0
  <2>1. n \in Nat \ {0}
    BY SourceBound DEF Source
  <2>2. {i \in DOMAIN filled : filled[i] = n}
          = {i \in FillsIn(r) : PacketOf(Decoded(r)[i + 1]) = n}
    OBVIOUS
  <2>3. Cardinality({i \in FillsIn(r) : PacketOf(Decoded(r)[i + 1]) = n})
           + (IF direct /\ source = n THEN 1 ELSE 0)
          = IF n \in Handed(p, NewSlots(p)) THEN 1 ELSE 0
    BY <2>1, OnceEach
  <2> QED
    BY <2>2, <2>3
<1>6. ASSUME NEW i \in FillsIn(r) PROVE filled[i] # 0
  <2>1. /\ i \in Slots(K) /\ Recovers(r) /\ GroupOK(r, p.group)
        /\ p.group \in Slots(GROUP_MOD)
    BY NewSlotsAre
  <2>2. PICK n \in Offered : PacketOf(Decoded(r)[i + 1]) = n
    BY <2>1, RecoveredPacket
  <2> QED
    BY <2>2 DEF Offered
<1>7. garbage' = FALSE
  BY <1>4, <1>6 DEF IInv, Plain
<1>8. writes' = [n \in Source |->
                  IF n \notin Handed(p, NewSlots(p)) THEN writes[n]
                  ELSE IF writes[n] = 0 THEN 1 ELSE 2]
  <2> HIDE DEF T
  <2> QED
    BY <1>4, <1>5, WritesAre
<1> QED
  BY <1>4, <1>7, <1>8 DEF Arrived

(* Without parity the packet is written as it comes. *)
LEMMA PlainArrived ==
  ASSUME Steady, IInv, NEW p \in net, p.m = 0, Receive(p)
  PROVE  Arrived(p) /\ rx_groups' = rx_groups /\ suppressed' = suppressed
<1> DEFINE source == PacketOf(p.sym)
           T == [n \in Source |-> Cardinality({}) + IF source = n THEN 1 ELSE 0]
<1>1. IsDatagram(p) /\ K \in Nat
  BY SizedOK DEF IInv, Sized, NetOK
<1>2. p.type = "Data"
  BY <1>1 DEF IsDatagram, Slots
<1>3. Direct(rx_groups[p.group], p)
  BY <1>2 DEF Direct
<1>4. /\ writes' = [n \in Source |-> Min({2, writes[n] + T[n]})]
      /\ garbage' = garbage /\ suppressed' = suppressed
      /\ rx_groups' = rx_groups
      /\ panicked' = FALSE
      /\ UNCHANGED <<txVars, net>>
  <2>1. ~(p.m > 0)
    OBVIOUS
  <2>2. \A n : {i \in DOMAIN <<>> : <<>>[i] = n} = {}
    OBVIOUS
  <2>3. garbage' = garbage \/ garbage' = (garbage \/ \E i \in DOMAIN <<>> : <<>>[i] = 0)
    BY <2>1 DEF Receive
  <2>4. ~\E i \in DOMAIN <<>> : <<>>[i] = 0
    OBVIOUS
  <2>5. garbage' = garbage
    BY <2>3, <2>4 DEF IInv, Plain
  <2>6. /\ suppressed' = suppressed /\ rx_groups' = rx_groups
        /\ panicked' = FALSE /\ UNCHANGED <<txVars, net>>
    BY <1>2, <1>3, <2>1 DEF Receive
  <2>7. writes' = [n \in Source |->
          Min({2, writes[n] + (Cardinality({i \in DOMAIN <<>> : <<>>[i] = n})
                                 + IF source = n THEN 1 ELSE 0)})]
    BY <1>2, <1>3, <2>1 DEF Receive
  <2>8. writes' = [n \in Source |-> Min({2, writes[n] + T[n]})]
    BY <2>2, <2>7
  <2> QED
    BY <2>5, <2>6, <2>8
<1>5. PICK k \in Offered : Carries(p, k)
  BY <1>2 DEF IInv, NetOK
<1>6. source = k
  BY <1>5, DataPacket
<1>7. Handed(p, NewSlots(p)) = {k}
  <2>1. NewSlots(p) = {p.index}
    BY DEF NewSlots
  <2>2. k \in Handed(p, NewSlots(p))
    BY <1>5, <2>1 DEF Handed
  <2>3. ASSUME NEW n \in Handed(p, NewSlots(p)) PROVE n = k
    <3>1. PICK q \in net : q.group = p.group /\ q.index = p.index /\ Carries(q, n)
      BY <2>1 DEF Handed
    <3>2. q = p
      BY <3>1 DEF IInv, NetOK
    <3> QED
      BY <1>5, <3>1, <3>2, CarriesOne DEF IInv
  <2> QED
    BY <2>2, <2>3
<1>8. ASSUME NEW n \in Source PROVE T[n] = IF n \in Handed(p, NewSlots(p)) THEN 1 ELSE 0
  <2>1. Cardinality({}) = 0
    BY FS_EmptySet
  <2> QED
    BY <1>6, <1>7, <2>1
<1>9. writes' = [n \in Source |->
                  IF n \notin Handed(p, NewSlots(p)) THEN writes[n]
                  ELSE IF writes[n] = 0 THEN 1 ELSE 2]
  <2> HIDE DEF T
  <2> QED
    BY <1>4, <1>8, WritesAre
<1> QED
  BY <1>4, <1>9 DEF Arrived, IInv, Plain

LEMMA HandedIs ==
  ASSUME IInv, NEW p \in net, NEW q \in net, NEW n \in Offered, Carries(q, n), NEW D
  PROVE  n \in Handed(p, D) <=> q.group = p.group /\ q.index \in D
<1>1. ASSUME NEW s \in net, Carries(s, n) PROVE s = q
  BY <1>1 DEF IInv, NetOK, Carries
<1> QED
  BY <1>1 DEF Handed

(* The part of the invariant that an arrival leaves alone or only counts. *)
LEMMA ArrivedIInv ==
  ASSUME Steady, IInv, NEW p \in net, Arrived(p),
         rx_groups' = [g \in Slots(GROUP_MOD) |-> rx_groups'[g]]
  PROVE  /\ Tuned' /\ Plain' /\ NetOK' /\ Coded' /\ Open'
         /\ K' = K /\ MostParity' = MostParity
         /\ \A n \in Source : writes'[n] >= writes[n] /\ writes'[n] \in Nat
<1>1. /\ group_buffer' = group_buffer /\ group_id' = group_id
      /\ shape' = shape /\ fec' = fec /\ observed' = observed
      /\ len' = len /\ protected' = protected /\ net' = net
      /\ panicked' = FALSE /\ garbage' = FALSE
  BY DEF Arrived, txVars
<1>2. Tuned' /\ K' = K /\ MostParity' = MostParity /\ m' = m
  BY <1>1, TunedSame DEF IInv
<1>3. Offered' = Offered
  BY <1>1 DEF Offered
<1>4. /\ writes \in [Source -> 0 .. 2]
      /\ writes' = [n \in Source |->
                     IF n \notin Handed(p, NewSlots(p)) THEN writes[n]
                     ELSE IF writes[n] = 0 THEN 1 ELSE 2]
  BY DEF Arrived, IInv, Plain
<1>5. ASSUME NEW n \in Source
      PROVE  /\ writes'[n] \in 0 .. 2 /\ writes'[n] >= writes[n]
             /\ n \notin Offered => writes'[n] = 0
  <2>1. writes[n] \in 0 .. 2
    BY <1>4
  <2>2. n \notin Offered => writes[n] = 0 /\ n \notin Handed(p, NewSlots(p))
    BY DEF IInv, Plain, Handed
  <2> QED
    BY <1>4, <2>1, <2>2
<1>6. writes' \in [Source -> 0 .. 2]
  BY <1>4, <1>5
<1>7. Plain'
  BY <1>1, <1>2, <1>3, <1>5, <1>6 DEF IInv, Plain
<1>8. NetOK'
  BY <1>1, <1>2, <1>3 DEF IInv, NetOK, IsDatagram, Carries
<1>9. Coded'
  BY <1>1, <1>2 DEF IInv, Coded
<1>10. Open'
  BY <1>1 DEF IInv, Open
<1> QED
  BY <1>2, <1>5, <1>7, <1>8, <1>9, <1>10

LEMMA PlainReceiveIInv ==
  ASSUME Steady, IInv, NEW p \in net, p.m = 0, Receive(p)
  PROVE  IInv'
<1>1. Arrived(p) /\ rx_groups' = rx_groups /\ suppressed' = suppressed
  BY PlainArrived
<1>2. /\ Tuned' /\ Plain' /\ NetOK' /\ Coded' /\ Open'
      /\ K' = K /\ MostParity' = MostParity
      /\ \A n \in Source : writes'[n] >= writes[n] /\ writes'[n] \in Nat
  BY <1>1, ArrivedIInv DEF IInv, Plain
<1>3. net' = net /\ len' = len /\ Offered' = Offered
  BY <1>1 DEF Arrived, txVars, Offered
<1>4. RxOK'
  BY <1>1, <1>2, <1>3 DEF IInv, RxOK, GroupOK
<1>5. Written'
  <2>1. ASSUME NEW q \in net, NEW n \in Offered, Carries(q, n), q.m > 0
        PROVE  writes'[n] = writes[n]
    <3>1. q.group # p.group
      BY <2>1 DEF IInv, NetOK
    <3>2. n \notin Handed(p, NewSlots(p))
      BY <2>1, <3>1, HandedIs
    <3> QED
      BY <1>1, <3>2, OfferedSource DEF Arrived
  <2>2. \A n \in suppressed : n \in Source /\ writes[n] > 0 /\ writes[n] \in 0 .. 2
    BY DEF IInv, Written, Plain
  <2>3. \A n \in suppressed : writes'[n] > 0
    BY <1>2, <2>2
  <2>4. ASSUME NEW q \in net, NEW n \in Offered, Carries(q, n)', q.m > 0
        PROVE  writes'[n] = IF q.index \in rx_groups'[q.group].delivered THEN 1 ELSE 0
    <3>1. Carries(q, n)
      BY <1>3, <2>4 DEF Carries
    <3> QED
      BY <1>1, <2>1, <2>4, <3>1 DEF IInv, Written
  <2> QED
    BY <1>1, <1>3, <2>2, <2>3, <2>4 DEF Written
<1>6. Complete'
  BY <1>1, <1>2 DEF IInv, Complete, Present, Alike
<1> QED
  BY <1>2, <1>4, <1>5, <1>6 DEF IInv

LEMMA ParityReceiveIInv ==
  ASSUME Steady, IInv, NEW p \in net, p.m > 0, Receive(p)
  PROVE  IInv'
<1> DEFINE r == Stored(Entry(p), p)
           h == RecoverGroup(r)
           G == rx_groups[p.group].delivered
<1>1. /\ Arrived(p)
      /\ rx_groups' = [rx_groups EXCEPT ![p.group] = h]
      /\ suppressed' = suppressed \cup
           IF p.type = "Data" /\ ~Direct(rx_groups[p.group], p)
             THEN {PacketOf(p.sym)} ELSE {}
  BY ParityArrived
<1>2. p.group \in Slots(GROUP_MOD)
  BY EntryOK
<1>3. /\ rx_groups' = [g \in Slots(GROUP_MOD) |-> rx_groups'[g]]
      /\ rx_groups'[p.group] = h
      /\ \A g \in Slots(GROUP_MOD) \ {p.group} : rx_groups'[g] = rx_groups[g]
  BY <1>1, <1>2 DEF IInv, Plain
<1>4. /\ Tuned' /\ Plain' /\ NetOK' /\ Coded' /\ Open'
      /\ K' = K /\ MostParity' = MostParity
      /\ \A n \in Source : writes'[n] >= writes[n] /\ writes'[n] \in Nat
  BY <1>1, <1>3, ArrivedIInv
<1>5. net' = net /\ len' = len /\ Offered' = Offered
  BY <1>1 DEF Arrived, txVars, Offered
<1>6. /\ GroupOK(r, p.group)
      /\ r.delivered = IF p.type = "Data" THEN G \cup {p.index} ELSE G
  BY StoredOK
<1>7. /\ GroupOK(h, p.group)
      /\ h.delivered = r.delivered \cup FillsIn(r)
      /\ Alike(h) /\ Cardinality(Present(h)) >= K => h.delivered = Slots(K)
  BY <1>2, <1>6, RecoverOK
<1>8. NewSlots(p) = h.delivered \ G /\ G \subseteq h.delivered
  BY <1>6, <1>7 DEF NewSlots
<1> HIDE DEF h, r
<1>9. RxOK'
  <2> SUFFICES ASSUME NEW g \in Slots(GROUP_MOD), rx_groups'[g] # NoGroup
               PROVE  GroupOK(rx_groups[g], g)'
    BY DEF RxOK
  <2>1. GroupOK(rx_groups'[g], g)
    <3>1. CASE g = p.group
      BY <1>3, <1>7, <3>1
    <3>2. CASE g # p.group
      BY <1>3, <3>2 DEF IInv, RxOK
    <3> QED
      BY <3>1, <3>2
  <2> QED
    BY <1>4, <1>5, <2>1 DEF GroupOK
<1>10. ASSUME NEW q \in net, NEW n \in Offered, Carries(q, n), q.m > 0
       PROVE  writes'[n] = IF q.index \in rx_groups'[q.group].delivered THEN 1 ELSE 0
  <2>1. /\ writes[n] = IF q.index \in rx_groups[q.group].delivered THEN 1 ELSE 0
        /\ writes'[n] = IF n \notin Handed(p, NewSlots(p)) THEN writes[n]
                        ELSE IF writes[n] = 0 THEN 1 ELSE 2
    BY <1>1, <1>10, OfferedSource DEF IInv, Written, Arrived
  <2>2. n \in Handed(p, NewSlots(p)) <=> q.group = p.group /\ q.index \in NewSlots(p)
    BY <1>10, HandedIs
  <2>3. CASE q.group # p.group
    <3>1. q.group \in Slots(GROUP_MOD)
      BY DEF IInv, NetOK, IsDatagram
    <3> QED
      BY <1>3, <2>1, <2>2, <2>3, <3>1
  <2>4. CASE q.group = p.group
    BY <1>3, <1>8, <2>1, <2>2, <2>4
  <2> QED
    BY <2>3, <2>4
<1>11. ASSUME NEW n \in suppressed' PROVE n \in Source /\ writes'[n] > 0
  <2>1. CASE n \in suppressed
    <3>1. n \in Source /\ writes[n] > 0 /\ writes[n] \in 0 .. 2
      BY <2>1 DEF IInv, Written, Plain
    <3> QED
      BY <1>4, <3>1
  <2>2. CASE n \notin suppressed
    <3>1. p.type = "Data" /\ ~Direct(rx_groups[p.group], p) /\ n = PacketOf(p.sym)
      BY <1>1, <1>11, <2>2
    <3>2. PICK k \in Offered : Carries(p, k)
      BY <3>1 DEF IInv, NetOK
    <3>3. k = n
      BY <3>1, <3>2, DataPacket
    <3>4. p.index \in G
      BY <3>1, DirectMeans
    <3>5. writes'[n] = 1
      BY <1>3, <1>8, <1>10, <3>2, <3>3, <3>4
    <3> QED
      BY <3>2, <3>3, <3>5, OfferedSource
  <2> QED
    BY <2>1, <2>2
<1>12. Written'
  <2>1. ASSUME NEW q \in net, NEW n \in Offered, Carries(q, n)', q.m > 0
        PROVE  writes'[n] = IF q.index \in rx_groups'[q.group].delivered THEN 1 ELSE 0
    <3>1. Carries(q, n)
      BY <1>5, <2>1 DEF Carries
    <3> QED
      BY <1>10, <2>1, <3>1
  <2> QED
    BY <1>5, <1>11, <2>1 DEF Written
<1>13. Complete'
  <2> SUFFICES ASSUME NEW g \in Slots(GROUP_MOD), rx_groups'[g] # NoGroup,
                      Cardinality(Present(rx_groups'[g])) >= K, Alike(rx_groups'[g])
               PROVE  rx_groups'[g].delivered = Slots(K)
    BY <1>4 DEF Complete, Alike, Present
  <2>1. CASE g = p.group
    BY <1>3, <1>7, <2>1
  <2>2. CASE g # p.group
    BY <1>3, <2>2 DEF IInv, Complete
  <2> QED
    BY <2>1, <2>2
<1> QED
  BY <1>4, <1>9, <1>12, <1>13 DEF IInv

-----------------------------------------------------------------------------
(* Every step *)

LEMMA NextIInv ==
  ASSUME Steady, IInv, [Next]_vars
  PROVE  IInv'
<1>1. ASSUME NEW l \in Lens, SendData(l) PROVE IInv'
  BY <1>1, SendIInv
<1>2. CASE FlushStale
  BY <1>2, FlushIInv
<1>3. ASSUME NEW loss \in Samples, ApplyFecParams(loss) PROVE IInv'
  BY <1>3, ApplyIInv
<1>4. ASSUME NEW p \in net, Receive(p) PROVE IInv'
  <2>1. p.m \in Nat
    BY SizedOK DEF IInv, Sized, NetOK, IsDatagram
  <2>2. p.m = 0 \/ p.m > 0
    BY <2>1
  <2> QED
    BY <1>4, <2>2, PlainReceiveIInv, ParityReceiveIInv
<1>5. ASSUME NEW g \in Slots(GROUP_MOD), Evict(g) PROVE IInv'
  BY <1>5, EvictIInv
<1>6. CASE UNCHANGED vars
  <2>1. /\ shape' = shape /\ fec' = fec /\ observed' = observed
        /\ group_id' = group_id /\ group_buffer' = group_buffer
        /\ len' = len /\ protected' = protected /\ rx_groups' = rx_groups
        /\ panicked' = panicked /\ net' = net /\ writes' = writes
        /\ garbage' = garbage /\ suppressed' = suppressed
    BY <1>6 DEF vars, txVars, rxVars
  <2>2. Tuned' /\ K' = K /\ MostParity' = MostParity /\ m' = m
    BY <2>1, TunedSame DEF IInv
  <2>3. Offered' = Offered
    BY <2>1 DEF Offered
  <2>4. Plain'
    BY <2>1, <2>2, <2>3 DEF IInv, Plain
  <2>5. NetOK' /\ Coded' /\ Open'
    <3>1. NetOK'
      BY <2>1, <2>2, <2>3 DEF IInv, NetOK, IsDatagram, Carries
    <3>2. Coded'
      BY <2>1, <2>2 DEF IInv, Coded
    <3>3. Open'
      BY <2>1 DEF IInv, Open
    <3> QED
      BY <3>1, <3>2, <3>3
  <2>6. RxOK' /\ Written' /\ Complete'
    BY <2>1, <2>2, RxSame
  <2> QED
    BY <2>2, <2>4, <2>5, <2>6 DEF IInv
<1> QED
  BY <1>1, <1>2, <1>3, <1>4, <1>5, <1>6 DEF Next

LEMMA AlwaysIInv ==
  ASSUME Steady
  PROVE  Spec => []IInv
<1>1. Init => IInv
  BY InitIInv
<1>2. IInv /\ [Next]_vars => IInv'
  BY NextIInv
<1> QED
  BY <1>1, <1>2, PTL DEF Spec

LEMMA TypeIs ==
  ASSUME Steady, IInv
  PROVE  TypeOK
<1>1. m = fec.current_m
  BY DEF m, Params
<1>2. /\ m \in 0 .. MostParity /\ fec.smoothed_loss \in 0 .. 1000
      /\ observed > 0 => m \in fec.min_m .. Max({fec.min_m, fec.max_m})
  BY <1>1 DEF IInv, Tuned
<1>3. /\ group_id \in Slots(GROUP_MOD) /\ Len(group_buffer) < K
      /\ len \in Seq(Lens) /\ writes \in [Source -> 0 .. 2]
      /\ panicked \in BOOLEAN /\ garbage \in BOOLEAN
  BY DEF IInv, Plain
<1>4. protected \subseteq Source
  BY OfferedSource DEF IInv, Plain
<1>5. ASSUME NEW g \in Slots(GROUP_MOD), rx_groups[g] # NoGroup
      PROVE  /\ rx_groups[g].m \in 1 .. MostParity
             /\ DOMAIN rx_groups[g].symbols = Slots(K + rx_groups[g].m)
             /\ rx_groups[g].delivered \subseteq Slots(K)
             /\ rx_groups[g].decoded \in BOOLEAN
  <2>1. GroupOK(rx_groups[g], g)
    BY <1>5 DEF IInv, RxOK
  <2>2. PICK p \in net : p.group = g
    BY <2>1 DEF GroupOK
  <2>3. p.m = rx_groups[g].m /\ rx_groups[g].m > 0
    BY <2>1, <2>2 DEF GroupOK
  <2>4. p.m \in Nat /\ p.m <= MostParity /\ MostParity \in Nat
    BY SizedOK DEF IInv, Sized, NetOK, IsDatagram
  <2>5. rx_groups[g].m \in 1 .. MostParity
    BY <2>3, <2>4
  <2> QED
    BY <2>1, <2>5 DEF GroupOK
<1> QED
  BY <1>2, <1>3, <1>4, <1>5 DEF TypeOK

(* Whatever the network loses, repeats and reorders, recover_group writes  *)
(* only packets that were sent. *)
THEOREM FecGenuine ==
  ASSUME Steady
  PROVE  Spec => []Genuine
<1>1. IInv => Genuine
  BY DEF IInv, Plain, Genuine
<1> QED
  BY <1>1, AlwaysIInv, PTL

(* handle_data withholds a packet only when it has been written. *)
THEOREM FecSuppressHonest ==
  ASSUME Steady
  PROVE  Spec => []SuppressHonest
<1>1. IInv => SuppressHonest
  BY DEF IInv, Written, SuppressHonest
<1> QED
  BY <1>1, AlwaysIInv, PTL

(* record_rx_symbol's index is in bounds as long as the parity count does  *)
(* not grow inside a group: without Steady it does not hold, the run       *)
(* FecMidGroupBounds has the counterexample. *)
THEOREM FecInBounds ==
  ASSUME Steady
  PROVE  Spec => []InBounds
<1>1. IInv => InBounds
  BY DEF IInv, Plain, InBounds
<1> QED
  BY <1>1, AlwaysIInv, PTL

(* recover_group hands over every source of a group of which K symbols of  *)
(* one length have come, for packets and groups of any mix of lengths. *)
THEOREM FecAnyKSuffice ==
  ASSUME Steady
  PROVE  Spec => []AnyKSuffice
<1>1. IInv => AnyKSuffice
  BY TypeIs DEF IInv, Complete, AnyKSuffice
<1> QED
  BY <1>1, AlwaysIInv, PTL

-----------------------------------------------------------------------------
(* The tunnel implements the datagram service. *)

LEMMA SendOffers ==
  ASSUME Steady, IInv, NEW l \in Lens, SendData(l)
  PROVE  \E n \in Source : Service!Offer(n)
<1> DEFINE n == Len(len) + 1
<1>1. /\ Len(len) < shape.data /\ len' = Append(len, l)
      /\ protected' = IF m > 0 THEN protected \cup {n} ELSE protected
      /\ UNCHANGED rxVars
  BY SendFacts
<1>2. n \notin Offered /\ Offered' = Offered \cup {n} /\ n \in Source
  BY <1>1, OfferFacts
<1>3. writes' = writes
  BY <1>1 DEF rxVars
<1> HIDE DEF n
<1>4. Service!Offer(n)
  BY <1>1, <1>2, <1>3 DEF Service!Offer
<1> QED
  BY <1>2, <1>4

LEMMA ReceiveDelivers ==
  ASSUME Steady, IInv, NEW p \in net, Receive(p)
  PROVE  \E S \in SUBSET Source : Service!Deliver(S)
<1> DEFINE S == Handed(p, NewSlots(p))
<1>1. Arrived(p)
  <2>1. p.m \in Nat
    BY SizedOK DEF IInv, Sized, NetOK, IsDatagram
  <2>2. p.m = 0 \/ p.m > 0
    BY <2>1
  <2> QED
    BY <2>2, PlainArrived, ParityArrived
<1>2. S \subseteq Offered /\ S \subseteq Source /\ \A n \in S \cap protected : writes[n] = 0
  BY HandedNew
<1>3. Offered' = Offered /\ protected' = protected
  BY <1>1 DEF Arrived, txVars, Offered
<1>4. Service!Deliver(S)
  <2>1. writes' = [n \in Source |->
                    IF n \notin S THEN writes[n] ELSE IF writes[n] = 0 THEN 1 ELSE 2]
    BY <1>1 DEF Arrived
  <2> HIDE DEF S
  <2> QED
    BY <1>2, <1>3, <2>1 DEF Service!Deliver
<1> QED
  BY <1>2, <1>4

(* Every behaviour of sender, network and receiver is one of a datagram    *)
(* service: handle_tun_packet offers a packet, an arrival hands over what  *)
(* handle_data and recover_group write, a packet with parity at most once. *)
THEOREM FecImplementsService ==
  ASSUME Steady
  PROVE  Spec => ImplementsService
<1>1. Init => Service!Init
  <2> SUFFICES ASSUME Init PROVE Service!Init
    OBVIOUS
  <2>1. len = <<>> /\ protected = {} /\ writes = [n \in Source |-> 0]
    BY DEF Init
  <2>2. Offered = {}
    BY <2>1 DEF Offered
  <2> QED
    BY <2>1, <2>2 DEF Service!Init
<1>2. IInv /\ [Next]_vars => [Service!Next]_(Service!vars)
  <2> SUFFICES ASSUME IInv, [Next]_vars PROVE [Service!Next]_(Service!vars)
    OBVIOUS
  <2>1. ASSUME NEW l \in Lens, SendData(l) PROVE Service!Next
    BY <2>1, SendOffers DEF Service!Next
  <2>2. ASSUME NEW p \in net, Receive(p) PROVE Service!Next
    BY <2>2, ReceiveDelivers DEF Service!Next
  <2>3. CASE UNCHANGED <<len, protected, writes>>
    BY <2>3 DEF Service!vars, Offered
  <2>4. CASE FlushStale
    BY <2>3, <2>4 DEF FlushStale, rxVars
  <2>5. ASSUME NEW loss \in Samples, ApplyFecParams(loss) PROVE UNCHANGED Service!vars
    BY <2>3, <2>5 DEF ApplyFecParams, rxVars, Service!vars, Offered
  <2>6. ASSUME NEW g \in Slots(GROUP_MOD), Evict(g) PROVE UNCHANGED Service!vars
    BY <2>3, <2>6 DEF Evict, txVars, Service!vars, Offered
  <2>7. CASE UNCHANGED vars
    BY <2>3, <2>7 DEF vars, txVars, rxVars
  <2> QED
    BY <2>1, <2>2, <2>4, <2>5, <2>6, <2>7 DEF Next
<1> QED
  BY <1>1, <1>2, AlwaysIInv, PTL DEF Spec, ImplementsService, Service!Spec

=============================================================================
