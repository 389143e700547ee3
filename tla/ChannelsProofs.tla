--------------------------- MODULE ChannelsProofs ---------------------------
(***************************************************************************)
(* The server's queues and its probe limiter, for any number of clients,   *)
(* any size of the channels and any burst, rate, lifetime and cap of the   *)
(* limiter's buckets.                                                      *)
(***************************************************************************)
EXTENDS Channels, FiniteSetTheorems, SequenceTheorems, TLAPS

-----------------------------------------------------------------------------
(* Arithmetic *)

LEMMA MinPair ==
  ASSUME NEW a \in Int, NEW b \in Int
  PROVE  Min({a, b}) = IF a <= b THEN a ELSE b
<1> DEFINE m == IF a <= b THEN a ELSE b
<1>1. m \in {a, b} /\ \A y \in {a, b} : m <= y
  OBVIOUS
<1>2. \A x \in {a, b} : (\A y \in {a, b} : x <= y) => x = m
  OBVIOUS
<1> QED
  BY <1>1, <1>2 DEF Min

LEMMA MaxPair ==
  ASSUME NEW a \in Int, NEW b \in Int
  PROVE  Max({a, b}) = IF a >= b THEN a ELSE b
<1> DEFINE m == IF a >= b THEN a ELSE b
<1>1. m \in {a, b} /\ \A y \in {a, b} : m >= y
  OBVIOUS
<1>2. \A x \in {a, b} : (\A y \in {a, b} : x >= y) => x = m
  OBVIOUS
<1> QED
  BY <1>1, <1>2 DEF Max

LEMMA TimesMonotone ==
  ASSUME NEW a \in Nat, NEW b \in Nat, NEW c \in Nat, a <= b
  PROVE  a * c <= b * c /\ a * c \in Nat
OBVIOUS

LEMMA WholeIntervals ==
  ASSUME NEW g \in Nat, NEW c \in Nat \ {0}
  PROVE  g \div c \in Nat /\ (g \div c) * c <= g
OBVIOUS

LEMMA LimiterConstants ==
  /\ HANDSHAKE_PROBE_BURST \in Nat \ {0} /\ HANDSHAKE_PROBE_INTERVAL \in Nat \ {0}
  /\ HANDSHAKE_PROBE_GLOBAL_CAP \in Nat \ {0} /\ HANDSHAKE_TOKEN_TTL \in Nat
  /\ Full \in Nat /\ Full <= HANDSHAKE_TOKEN_TTL
BY ChannelsAssumption DEF Full

-----------------------------------------------------------------------------
(* Sequences *)

LEMMA AppendAsConcat ==
  ASSUME NEW S, NEW t \in Seq(S), NEW x \in S
  PROVE  Append(t, x) = t \o <<x>> /\ <<x>> \in Seq(S)
<1>1. <<x>> \in Seq(S) /\ Append(t, x) \in Seq(S) /\ t \o <<x>> \in Seq(S)
  OBVIOUS
<1>2. Len(Append(t, x)) = Len(t \o <<x>>)
  OBVIOUS
<1>3. \A i \in 1 .. Len(Append(t, x)) : Append(t, x)[i] = (t \o <<x>>)[i]
  OBVIOUS
<1> QED
  BY <1>1, <1>2, <1>3, SeqEqual

(* t with x behind it, the way ReturnInOrder writes it; kept folded where   *)
(* AppendLast is cited. *)
Behind(t, x) == t \o <<x>>

LEMMA AppendBehind ==
  ASSUME NEW S, NEW t \in Seq(S), NEW x \in S
  PROVE  Append(t, x) = Behind(t, x)
BY AppendAsConcat DEF Behind

LEMMA AppendLast ==
  ASSUME NEW S, NEW t \in Seq(S), NEW u \in Seq(S), NEW x \in S
  PROVE  Behind(t \o u, x) = t \o Append(u, x)
<1>1. Append(u, x) = u \o <<x>> /\ <<x>> \in Seq(S)
  BY AppendAsConcat
<1>2. (t \o u) \o <<x>> = t \o (u \o <<x>>)
  BY <1>1, ConcatAssociative
<1>3. (t \o u) \o <<x>> = t \o Append(u, x)
  BY <1>1, <1>2
<1> QED
  BY <1>3 DEF Behind

LEMMA MoveFirst ==
  ASSUME NEW S, NEW t \in Seq(S), NEW u \in Seq(S), u # <<>>
  PROVE  t \o u = Append(t, Head(u)) \o Tail(u)
<1> DEFINE h == Head(u)
           r == Tail(u)
<1>1. h \in S /\ r \in Seq(S) /\ Len(r) = Len(u) - 1 /\ \A i \in 1 .. Len(r) : r[i] = u[i + 1]
  BY HeadTailProperties
<1>2. u[1] = h /\ Len(u) \in Nat \ {0}
  BY EmptySeq
<1> HIDE DEF h, r
<1>3. <<h>> \in Seq(S) /\ Append(t, h) = t \o <<h>>
  BY <1>1, AppendAsConcat
<1>4. u = <<h>> \o r
  <2>1. /\ <<h>> \o r \in Seq(S) /\ Len(<<h>> \o r) = 1 + Len(r)
        /\ \A i \in 1 .. 1 + Len(r) : (<<h>> \o r)[i] = IF i <= 1 THEN h ELSE r[i - 1]
    <3>1. Len(<<h>>) = 1 /\ <<h>>[1] = h
      OBVIOUS
    <3> QED
      BY <1>1, <1>3, <3>1, ConcatProperties
  <2>2. \A i \in 1 .. Len(u) : u[i] = (<<h>> \o r)[i]
    BY <1>1, <1>2, <2>1
  <2> DEFINE w == <<h>> \o r
  <2>3. w \in Seq(S) /\ Len(u) = Len(w) /\ \A i \in 1 .. Len(u) : u[i] = w[i]
    BY <1>1, <1>2, <2>1, <2>2
  <2> HIDE DEF w
  <2>4. u = w
    BY <2>3, SeqEqual
  <2> QED
    BY <2>4 DEF w
<1>5. t \o (<<h>> \o r) = (t \o <<h>>) \o r
  BY <1>1, <1>3, ConcatAssociative
<1> QED
  BY <1>3, <1>4, <1>5 DEF h, r

-----------------------------------------------------------------------------
(* The probe limiter *)

Bucket == [tokens : 0 .. HANDSHAKE_PROBE_BURST, age : 0 .. HANDSHAKE_TOKEN_TTL]

LimiterOK(l) ==
  /\ l = [by_source |-> l.by_source, purge |-> l.purge]
  /\ l.purge \in Nat
  /\ DOMAIN l.by_source \subseteq Addr
  /\ IsFiniteSet(DOMAIN l.by_source)
  /\ Cardinality(DOMAIN l.by_source) <= HANDSHAKE_PROBE_GLOBAL_CAP
  /\ \A a \in DOMAIN l.by_source : l.by_source[a] \in Bucket

(* What the limiter would grant a source is covered by its ideal bucket:   *)
(* one it has forgotten is full. *)
Covered(b, credit) ==
  credit >= Full \/ credit >= b.tokens * HANDSHAKE_PROBE_INTERVAL + b.age

Backed(l, credit) ==
  \A a \in Addr : /\ credit[a] \in 0 .. Full
                  /\ a \in DOMAIN l.by_source => Covered(l.by_source[a], credit[a])
                  /\ a \notin DOMAIN l.by_source => credit[a] = Full

LEMMA RefilledCovered ==
  ASSUME NEW b \in Bucket, NEW credit \in 0 .. Full, Covered(b, credit)
  PROVE  /\ Refilled(b) \in 0 .. HANDSHAKE_PROBE_BURST
         /\ Refilled(b) * HANDSHAKE_PROBE_INTERVAL <= credit
<1> USE LimiterConstants
<1> DEFINE I == HANDSHAKE_PROBE_INTERVAL
           q == b.age \div I
           t == b.tokens
           T == Refilled(b)
<1>1. t \in Nat /\ b.age \in Nat /\ t <= HANDSHAKE_PROBE_BURST /\ I \in Nat
  BY DEF Bucket
<1>2. q \in Nat /\ q * I <= b.age /\ q * I \in Nat
  <2>1. I \in Nat \ {0}
    OBVIOUS
  <2> HIDE DEF I
  <2> QED
    BY <1>1, <2>1, WholeIntervals
<1> HIDE DEF q
<1>3. T = IF t + q <= HANDSHAKE_PROBE_BURST THEN t + q ELSE HANDSHAKE_PROBE_BURST
  BY <1>1, <1>2, MinPair DEF Refilled, q
<1>4. T \in Nat /\ T <= HANDSHAKE_PROBE_BURST /\ T <= t + q
  BY <1>1, <1>2, <1>3
<1>5. T * I <= HANDSHAKE_PROBE_BURST * I /\ T * I <= (t + q) * I /\ T * I \in Nat
  <2> HIDE DEF T, I, t
  <2> QED
    BY <1>1, <1>2, <1>4, TimesMonotone
<1>6. (t + q) * I = t * I + q * I /\ t * I \in Nat
  <2> HIDE DEF T, I, t
  <2> QED
    BY <1>1, <1>2
<1>7. T * I <= Full /\ T * I <= t * I + b.age
  <2>1. HANDSHAKE_PROBE_BURST * I = Full
    BY DEF Full
  <2> HIDE DEF T, I, t
  <2> QED
    BY <1>1, <1>2, <1>5, <1>6, <2>1
<1>8. T * I <= credit
  <2>1. credit >= Full \/ credit >= t * I + b.age
    BY DEF Covered
  <2> HIDE DEF T, I, t
  <2> QED
    BY <1>1, <1>5, <1>6, <1>7, <2>1
<1> QED
  BY <1>4, <1>8

(* A granted probe is paid for, and what is left stays covered. *)
LEMMA TakeCovered ==
  ASSUME NEW b \in Bucket, NEW credit \in 0 .. Full, Covered(b, credit)
  PROVE  LET left == credit - IF Take(b).ok THEN HANDSHAKE_PROBE_INTERVAL ELSE 0
         IN  Take(b).bucket \in Bucket /\ left \in 0 .. Full /\ Covered(Take(b).bucket, left)
<1> USE LimiterConstants
<1> DEFINE I == HANDSHAKE_PROBE_INTERVAL
           T == Refilled(b)
           left == credit - IF Take(b).ok THEN I ELSE 0
<1>1. T \in Nat /\ T <= HANDSHAKE_PROBE_BURST /\ T * I <= credit /\ credit \in Nat
  BY RefilledCovered
<1> HIDE DEF T
<1>2. Max({T - 1, 0}) = IF T > 0 THEN T - 1 ELSE 0
  BY <1>1, MaxPair
<1>3. /\ Take(b).ok = (T > 0)
      /\ Take(b).bucket = [tokens |-> IF T > 0 THEN T - 1 ELSE 0, age |-> 0]
  BY <1>2 DEF Take, T
<1>4. Take(b).bucket \in Bucket
  BY <1>1, <1>3 DEF Bucket
<1>5. CASE T > 0
  <2>1. (T - 1) * I = T * I - I /\ (T - 1) * I \in Nat /\ I \in Nat
    <3> HIDE DEF I
    <3>1. I \in Nat
      BY DEF I
    <3> QED
      BY <1>1, <1>5, <3>1
  <2>2. left = credit - I
    BY <1>3, <1>5
  <2>3. left \in 0 .. Full /\ left >= (T - 1) * I
    <3> HIDE DEF I, left
    <3> QED
      BY <1>1, <2>1, <2>2
  <2>4. Covered(Take(b).bucket, left)
    <3>1. Take(b).bucket.tokens = T - 1 /\ Take(b).bucket.age = 0
      BY <1>3, <1>5
    <3> HIDE DEF left
    <3> QED
      BY <2>1, <2>3, <3>1 DEF Covered
  <2> QED
    BY <1>4, <2>3, <2>4
<1>6. CASE ~(T > 0)
  <2>1. left = credit /\ Take(b).bucket.tokens = 0 /\ Take(b).bucket.age = 0
    <3>1. ~Take(b).ok
      BY <1>3, <1>6
    <3>2. left = credit - 0
      BY <3>1
    <3>3. Take(b).bucket = [tokens |-> 0, age |-> 0]
      BY <1>3, <1>6
    <3> HIDE DEF left
    <3> QED
      BY <1>1, <3>2, <3>3
  <2>2. Covered(Take(b).bucket, credit)
    BY <1>1, <2>1 DEF Covered
  <2> QED
    BY <1>4, <2>1, <2>2
<1> QED
  BY <1>5, <1>6

(* A new source starts with a full bucket. *)
LEMMA NewCovered ==
  ASSUME NEW credit \in 0 .. Full, credit = Full
  PROVE  NewBucket \in Bucket /\ Covered(NewBucket, credit)
BY LimiterConstants DEF NewBucket, Bucket, Covered

(* The purge forgets only sources whose bucket is full again. *)
LEMMA PurgedOK ==
  ASSUME NEW l, NEW credit, LimiterOK(l), Backed(l, credit)
  PROVE  LimiterOK(Purged(l)) /\ Backed(Purged(l), credit)
<1> USE LimiterConstants
<1> DEFINE keep == {a \in DOMAIN l.by_source : l.by_source[a].age < HANDSHAKE_TOKEN_TTL}
           r == [by_source |-> [a \in keep |-> l.by_source[a]], purge |-> 0]
<1>1. CASE l.purge < HANDSHAKE_TOKEN_TTL
  BY <1>1 DEF Purged
<1>2. CASE ~(l.purge < HANDSHAKE_TOKEN_TTL)
  <2>1. Purged(l) = r
    BY <1>2 DEF Purged
  <2>2. /\ DOMAIN r.by_source = keep /\ keep \in SUBSET (DOMAIN l.by_source)
        /\ \A a \in keep : r.by_source[a] = l.by_source[a]
        /\ r = [by_source |-> r.by_source, purge |-> r.purge] /\ r.purge = 0
    OBVIOUS
  <2>3. IsFiniteSet(keep) /\ Cardinality(keep) <= HANDSHAKE_PROBE_GLOBAL_CAP
    <3>1. /\ IsFiniteSet(DOMAIN l.by_source)
          /\ Cardinality(DOMAIN l.by_source) <= HANDSHAKE_PROBE_GLOBAL_CAP
      BY DEF LimiterOK
    <3> HIDE DEF keep
    <3>2. IsFiniteSet(keep) /\ Cardinality(keep) <= Cardinality(DOMAIN l.by_source)
      BY <2>2, <3>1, FS_Subset
    <3>3. Cardinality(keep) \in Nat /\ Cardinality(DOMAIN l.by_source) \in Nat
      BY <3>1, <3>2, FS_CardinalityType
    <3> QED
      BY <3>1, <3>2, <3>3
  <2>4. ASSUME NEW a \in Addr, a \in DOMAIN l.by_source, a \notin keep PROVE credit[a] = Full
    <3> DEFINE b == l.by_source[a]
    <3>1. b \in Bucket /\ ~(b.age < HANDSHAKE_TOKEN_TTL) /\ Covered(b, credit[a])
          /\ credit[a] \in 0 .. Full
      BY <2>4 DEF LimiterOK, Backed
    <3>2. b.tokens \in Nat /\ b.age \in Nat
      BY <3>1 DEF Bucket
    <3>3. b.tokens * HANDSHAKE_PROBE_INTERVAL \in Nat
      BY <3>2
    <3> HIDE DEF b
    <3> QED
      BY <3>1, <3>2, <3>3 DEF Covered
  <2> HIDE DEF r
  <2>5. LimiterOK(r)
    BY <2>2, <2>3 DEF LimiterOK
  <2>6. Backed(r, credit)
    BY <2>2, <2>4 DEF Backed
  <2> QED
    BY <2>1, <2>5, <2>6
<1> QED
  BY <1>1, <1>2

(* ProbeLimiter::allow keeps to the cap and pays for what it grants. *)
LEMMA AllowOK ==
  ASSUME NEW l, NEW credit \in [Addr -> Int], NEW src \in Addr, LimiterOK(l), Backed(l, credit)
  PROVE  LET p == Allow(l, src)
         IN  /\ LimiterOK(p.limiter)
             /\ Backed(p.limiter, [credit EXCEPT ![src] =
                          @ - IF p.ok THEN HANDSHAKE_PROBE_INTERVAL ELSE 0])
<1> USE LimiterConstants
<1> DEFINE k == Purged(l)
           known == src \in DOMAIN k.by_source
           b == IF known THEN k.by_source[src] ELSE NewBucket
           t == Take(b)
           p == Allow(l, src)
           paid == credit[src] - IF p.ok THEN HANDSHAKE_PROBE_INTERVAL ELSE 0
           after == [credit EXCEPT ![src] = paid]
<1>1. LimiterOK(k) /\ Backed(k, credit)
  BY PurgedOK
<1>2. b \in Bucket /\ Covered(b, credit[src]) /\ credit[src] \in 0 .. Full
  <2>1. credit[src] \in 0 .. Full /\ (~known => credit[src] = Full)
        /\ (known => Covered(k.by_source[src], credit[src]) /\ k.by_source[src] \in Bucket)
    BY <1>1 DEF Backed, LimiterOK
  <2> QED
    BY <2>1, NewCovered
<1>3. CASE ~known /\ Cardinality(DOMAIN k.by_source) >= HANDSHAKE_PROBE_GLOBAL_CAP
  <2>1. p = [ok |-> FALSE, limiter |-> k]
    BY <1>3 DEF Allow
  <2>2. paid = credit[src] /\ p.limiter = k
    BY <1>2, <2>1
  <2>3. after = credit
    BY <2>2
  <2> QED
    BY <1>1, <2>2, <2>3
<1>4. CASE ~(~known /\ Cardinality(DOMAIN k.by_source) >= HANDSHAKE_PROBE_GLOBAL_CAP)
  <2> DEFINE D == DOMAIN k.by_source \cup {src}
             f == [a \in D |-> IF a = src THEN t.bucket ELSE k.by_source[a]]
  <2>1. p = [ok |-> t.ok, limiter |-> [by_source |-> f, purge |-> k.purge]]
    <3>1. p = [ok |-> t.ok, limiter |-> [k EXCEPT !.by_source = f]]
      BY <1>4 DEF Allow
    <3>2. k = [by_source |-> k.by_source, purge |-> k.purge]
      BY <1>1 DEF LimiterOK
    <3> HIDE DEF f, k, t, p
    <3>3. [k EXCEPT !.by_source = f] = [by_source |-> f, purge |-> k.purge]
      BY <3>2
    <3> QED
      BY <3>1, <3>3
  <2>2. t.bucket \in Bucket /\ paid \in 0 .. Full /\ Covered(t.bucket, paid)
    <3>1. p.ok = t.ok
      BY <2>1
    <3> HIDE DEF b, p
    <3> QED
      BY <1>2, <3>1, TakeCovered
  <2>3. /\ DOMAIN f = D /\ f[src] = t.bucket
        /\ \A a \in D \ {src} : a \in DOMAIN k.by_source /\ f[a] = k.by_source[a]
    OBVIOUS
  <2>4. after[src] = paid /\ \A a \in Addr \ {src} : after[a] = credit[a]
    BY <2>2
  <2>5. IsFiniteSet(D) /\ Cardinality(D) <= HANDSHAKE_PROBE_GLOBAL_CAP
    <3>1. /\ IsFiniteSet(DOMAIN k.by_source)
          /\ Cardinality(DOMAIN k.by_source) <= HANDSHAKE_PROBE_GLOBAL_CAP
      BY <1>1 DEF LimiterOK
    <3>2. Cardinality(DOMAIN k.by_source) \in Nat
      BY <3>1, FS_CardinalityType
    <3>3. /\ IsFiniteSet(D)
          /\ Cardinality(D) = IF known THEN Cardinality(DOMAIN k.by_source)
                                      ELSE Cardinality(DOMAIN k.by_source) + 1
      BY <3>1, FS_AddElement
    <3> HIDE DEF k, D
    <3> QED
      BY <1>4, <3>1, <3>2, <3>3
  <2>6. p.limiter = [by_source |-> f, purge |-> k.purge]
    BY <2>1
  <2> HIDE DEF f, p, t, after, paid, k
  <2>7. LimiterOK(p.limiter)
    BY <1>1, <2>2, <2>3, <2>5, <2>6 DEF LimiterOK
  <2>8. Backed(p.limiter, after)
    BY <1>1, <2>2, <2>3, <2>4, <2>6 DEF Backed, LimiterOK
  <2> QED
    BY <2>7, <2>8 DEF p, after, paid
<1> QED
  BY <1>3, <1>4

-----------------------------------------------------------------------------
(* The inductive invariant *)

Pkt == [n : Nat, ip : TunNet]

Inbound == Ip \cup {Junk, Bye}

Posted == [sid : Session, ip : Ip]

Place == [at : {"none", "select", "ended"}] \cup [at : {"post"}, ip : Ip]

(* Where the dispatcher is, and what the channels can hold.  A connection  *)
(* is accepted only for a session that may still be created. *)
Placed ==
  /\ scene \in Scenes
  /\ \/ disp \in {Select, [at |-> "stopped"]}
     \/ disp \in [at : {"accept"}, from : Addr] /\ created < scene.sessions
     \/ disp \in [at : {"tun"}, to : 1 .. created, packet : Packet]
  /\ table \subseteq 1 .. created
  /\ tun_ips \in [Session -> SUBSET TunNet]
  /\ \A s \in Session :
       /\ s > created <=> task[s].at = "none"
       /\ Len(udp[s]) <= PER_CLIENT_CHAN /\ Len(tun[s]) <= PER_CLIENT_CHAN
  /\ Len(tun_write) <= TUN_WRITE_CHAN

QueuesTyped ==
  /\ created \in 0 .. MaxSessions /\ read \in Nat
  /\ task \in [Session -> Place]
  /\ udp \in [Session -> Seq(Inbound)]
  /\ tun \in [Session -> Seq(Pkt)]
  /\ routed \in [Session -> Seq(Pkt)] /\ taken \in [Session -> Seq(Pkt)]
  /\ tun_write \in Seq(Posted)
  /\ used \in [Session -> SUBSET Ip]

Limited == LimiterOK(limiter) /\ ideal \in [Addr -> Int] /\ Backed(limiter, ideal)

(* What a session's client has sent from reaches the table of owners by    *)
(* way of its channel, its task and the aggregator. *)
Traced ==
  /\ \A s \in Session : \A i \in DOMAIN udp[s] : udp[s][i] \in {Junk, Bye} \cup used[s]
  /\ \A s \in Session : task[s].at = "post" => task[s].ip \in used[s]
  /\ \A i \in DOMAIN tun_write : tun_write[i].ip \in used[tun_write[i].sid]
  /\ \A s \in Session : tun_ips[s] \subseteq used[s]

(* A session that does not live has nothing routed to it. *)
Cleared ==
  \A s \in Session : ~Alive(s) => routed[s] = <<>> /\ taken[s] = <<>> /\ tun[s] = <<>>

QInv ==
  /\ Placed /\ QueuesTyped /\ Traced /\ Cleared /\ ReturnInOrder /\ ReturnToOwner

LEMMA TypeFromParts == Placed /\ Limited => TypeOK
BY DEF Placed, Limited, LimiterOK, Bucket, TypeOK

LEMMA ChannelsInit == Init => QInv /\ Limited
<1> SUFFICES ASSUME Init PROVE QInv /\ Limited
  OBVIOUS
<1> USE ChannelsAssumption
<1>1. DOMAIN limiter.by_source = {} /\ limiter = [by_source |-> <<>>, purge |-> 0]
  BY DEF Init
<1>2. IsFiniteSet({}) /\ Cardinality({}) = 0
  BY FS_EmptySet
<1>3. LimiterOK(limiter)
  BY <1>1, <1>2, LimiterConstants DEF LimiterOK
<1>4. Limited
  BY <1>1, <1>3, LimiterConstants DEF Init, Limited, Backed
<1>5. QueuesTyped
  BY DEF Init, QueuesTyped, Place
<1>6. Placed
  <2>1. \A s \in Session : s > created
    BY DEF Init, Session
  <2>2. PER_CLIENT_CHAN \in Nat /\ TUN_WRITE_CHAN \in Nat
    OBVIOUS
  <2> QED
    BY <2>1, <2>2 DEF Init, Placed
<1>7. Traced /\ Cleared /\ ReturnInOrder /\ ReturnToOwner
  BY DEF Init, Traced, Cleared, ReturnInOrder, ReturnToOwner, Alive
<1> QED
  BY <1>4, <1>5, <1>6, <1>7 DEF QInv

-----------------------------------------------------------------------------
(* The limiter, through every step *)

LEMMA ProbeLimited ==
  ASSUME Limited, NEW src \in Addr, Probe(src)
  PROVE  Limited'
<1> DEFINE p == Allow(limiter, src)
<1>1. /\ limiter' = p.limiter
      /\ ideal' = [ideal EXCEPT ![src] = @ - IF p.ok THEN HANDSHAKE_PROBE_INTERVAL ELSE 0]
  BY DEF Probe
<1>2. LimiterOK(p.limiter) /\ Backed(p.limiter, ideal')
  BY <1>1, AllowOK DEF Limited
<1>3. ideal' \in [Addr -> Int]
  BY <1>1, LimiterConstants DEF Limited
<1> HIDE DEF p
<1>4. LimiterOK(limiter') /\ Backed(limiter', ideal')
  BY <1>1, <1>2
<1> QED
  BY <1>3, <1>4 DEF Limited, LimiterOK, Backed

LEMMA TickLimited ==
  ASSUME Limited, Tick
  PROVE  Limited'
<1> USE LimiterConstants
<1> DEFINE D == DOMAIN limiter.by_source
<1>1. /\ limiter' = [by_source |-> [a \in D |->
                        [limiter.by_source[a] EXCEPT !.age = Older(limiter.by_source[a].age)]],
                     purge |-> Older(limiter.purge)]
      /\ ideal' = [a \in Addr |-> Min({ideal[a] + 1, Full})]
  BY DEF Tick
<1>2. \A g \in Nat : Older(g) = IF g + 1 <= HANDSHAKE_TOKEN_TTL THEN g + 1 ELSE HANDSHAKE_TOKEN_TTL
  BY MinPair DEF Older
<1>3. LimiterOK(limiter) /\ Backed(limiter, ideal) /\ ideal \in [Addr -> Int]
  BY DEF Limited
<1>4. /\ DOMAIN limiter'.by_source = D
      /\ limiter' = [by_source |-> limiter'.by_source, purge |-> limiter'.purge]
      /\ limiter'.purge = Older(limiter.purge)
      /\ \A a \in D : limiter'.by_source[a] =
           [limiter.by_source[a] EXCEPT !.age = Older(limiter.by_source[a].age)]
  BY <1>1
<1>5. ASSUME NEW a \in D
      PROVE  LET b == limiter.by_source[a]
             IN  /\ b \in Bucket /\ b.age \in Nat /\ b.tokens \in Nat
                 /\ limiter'.by_source[a] = [tokens |-> b.tokens, age |-> Older(b.age)]
                 /\ limiter'.by_source[a] \in Bucket
  <2> DEFINE b == limiter.by_source[a]
  <2>1. b \in Bucket
    BY <1>3 DEF LimiterOK
  <2>2. b.age \in Nat /\ b.tokens \in Nat
    BY <2>1 DEF Bucket
  <2>3. [b EXCEPT !.age = Older(b.age)] = [tokens |-> b.tokens, age |-> Older(b.age)]
    BY <2>1 DEF Bucket
  <2>4. Older(b.age) \in 0 .. HANDSHAKE_TOKEN_TTL
    BY <1>2, <2>1, <2>2 DEF Bucket
  <2>5. [tokens |-> b.tokens, age |-> Older(b.age)] \in Bucket
    BY <2>1, <2>4 DEF Bucket
  <2> QED
    BY <1>4, <2>1, <2>2, <2>3, <2>5
<1>6. limiter'.purge \in Nat
  BY <1>2, <1>3, <1>4 DEF LimiterOK
<1>7. LimiterOK(limiter)'
  BY <1>3, <1>4, <1>5, <1>6 DEF LimiterOK
<1>8. \A a \in Addr : /\ ideal[a] \in 0 .. Full
                      /\ ideal'[a] = IF ideal[a] + 1 <= Full THEN ideal[a] + 1 ELSE Full
  <2> SUFFICES ASSUME NEW a \in Addr
               PROVE  /\ ideal[a] \in 0 .. Full
                      /\ ideal'[a] = IF ideal[a] + 1 <= Full THEN ideal[a] + 1 ELSE Full
    OBVIOUS
  <2>1. ideal[a] \in 0 .. Full
    BY <1>3 DEF Backed
  <2>2. ideal'[a] = Min({ideal[a] + 1, Full})
    BY <1>1
  <2> QED
    BY <2>1, <2>2, MinPair
<1>9. ideal' \in [Addr -> Int]
  BY <1>1, <1>8
<1>10. ASSUME NEW a \in D, a \in Addr PROVE Covered(limiter'.by_source[a], ideal'[a])
  <2> DEFINE b == limiter.by_source[a]
             h == b.tokens * HANDSHAKE_PROBE_INTERVAL
  <2>1. /\ b.age \in Nat /\ b.tokens \in Nat /\ b.age <= HANDSHAKE_TOKEN_TTL
        /\ limiter'.by_source[a].tokens = b.tokens
        /\ limiter'.by_source[a].age = Older(b.age)
    <3>1. /\ b \in Bucket /\ b.age \in Nat /\ b.tokens \in Nat
          /\ limiter'.by_source[a] = [tokens |-> b.tokens, age |-> Older(b.age)]
      BY <1>5, <1>10
    <3>2. b.age <= HANDSHAKE_TOKEN_TTL
      BY <3>1 DEF Bucket
    <3> HIDE DEF b
    <3> QED
      BY <3>1, <3>2
  <2>2. h \in Nat
    BY <2>1
  <2>3. ideal[a] >= Full \/ ideal[a] >= h + b.age
    BY <1>3, <1>10 DEF Backed, Covered
  <2>4. Older(b.age) <= b.age + 1 /\ Older(b.age) \in Nat
    BY <1>2, <2>1
  <2>5. ideal[a] \in Nat /\ ideal[a] <= Full
        /\ ideal'[a] = IF ideal[a] + 1 <= Full THEN ideal[a] + 1 ELSE Full
    BY <1>8, <1>10
  <2> HIDE DEF h, b
  <2>6. ideal'[a] >= Full \/ ideal'[a] >= h + Older(b.age)
    BY <2>1, <2>2, <2>3, <2>4, <2>5
  <2> QED
    BY <2>1, <2>6 DEF Covered, h
<1>11. \A a \in Addr : ideal'[a] \in 0 .. Full /\ (a \notin D => ideal'[a] = Full)
  BY <1>3, <1>8 DEF Backed
<1>12. Backed(limiter, ideal)'
  BY <1>4, <1>10, <1>11 DEF Backed
<1> QED
  BY <1>7, <1>9, <1>12 DEF Limited

-----------------------------------------------------------------------------
(* The queues, through every step *)

LEMMA SceneType ==
  ASSUME scene \in Scenes
  PROVE  /\ scene.from \subseteq Addr /\ scene.ips \subseteq Ip
         /\ scene.sessions \in 0 .. MaxSessions /\ scene.packets \in Nat
BY ChannelsAssumption DEF Scene

(* Nothing moves, but sessions may leave the table, the aggregator may be  *)
(* dropped, and the dispatcher may go where it waits for no session. *)
LEMMA QuietKeeps ==
  ASSUME QInv, UNCHANGED <<scene, created, read, task, udp, tun, routed, taken, tun_ips, used>>,
         tun_write' = tun_write \/ tun_write' = <<>>,
         table' \subseteq table,
         \/ disp' = disp
         \/ /\ disp.at # "tun"
            /\ \/ disp' \in {Select, [at |-> "stopped"]}
               \/ disp' \in [at : {"accept"}, from : Addr] /\ created < scene.sessions
  PROVE  QInv'
<1> USE DEF QInv
<1>1. Packet' = Packet
  BY DEF Packet
<1>2. tun_write' \in Seq(Posted)
  BY EmptySeq DEF QueuesTyped
<1>3. QueuesTyped'
  BY <1>2 DEF QueuesTyped
<1>4. Len(tun_write') <= TUN_WRITE_CHAN
  BY ChannelsAssumption DEF Placed
<1>5. Placed'
  <2>1. \/ disp' \in {Select, [at |-> "stopped"]}
        \/ disp' \in [at : {"accept"}, from : Addr] /\ created' < scene'.sessions
        \/ disp' \in [at : {"tun"}, to : 1 .. created, packet : Packet]
    BY DEF Placed
  <2> QED
    BY <1>1, <1>4, <2>1 DEF Placed
<1>6. Traced'
  BY DEF Traced
<1>7. Cleared' /\ ReturnToOwner'
  BY DEF Cleared, ReturnToOwner, Alive
<1>8. disp' = disp \/ (disp.at # "tun" /\ disp'.at # "tun")
  BY DEF Select
<1>9. ReturnInOrder'
  BY <1>8 DEF ReturnInOrder, Alive
<1> QED
  BY <1>3, <1>5, <1>6, <1>7, <1>9

(* A datagram comes in, or none; a client may have sent it from an address *)
(* of its own. *)
LEMMA InboundKeeps ==
  ASSUME QInv,
         UNCHANGED <<scene, disp, table, created, read, task, tun, tun_write, routed, taken,
                     tun_ips>>,
         used' \in [Session -> SUBSET Ip], \A s \in Session : used[s] \subseteq used'[s],
         \/ udp' = udp
         \/ \E s \in Session : \E d \in Inbound :
              /\ Len(udp[s]) < PER_CLIENT_CHAN
              /\ udp' = [udp EXCEPT ![s] = Append(udp[s], d)]
              /\ d \in {Junk, Bye} \cup used'[s]
  PROVE  QInv'
<1> USE DEF QInv
<1>1. /\ udp' \in [Session -> Seq(Inbound)]
      /\ \A s \in Session : Len(udp'[s]) <= PER_CLIENT_CHAN
      /\ \A s \in Session : \A i \in DOMAIN udp'[s] : udp'[s][i] \in {Junk, Bye} \cup used'[s]
  <2>1. /\ udp \in [Session -> Seq(Inbound)]
        /\ \A s \in Session : Len(udp[s]) <= PER_CLIENT_CHAN
        /\ \A s \in Session : \A i \in DOMAIN udp[s] : udp[s][i] \in {Junk, Bye} \cup used'[s]
    BY DEF QueuesTyped, Placed, Traced
  <2>2. ASSUME NEW s \in Session, NEW d \in Inbound,
               Len(udp[s]) < PER_CLIENT_CHAN,
               udp' = [udp EXCEPT ![s] = Append(udp[s], d)],
               d \in {Junk, Bye} \cup used'[s]
        PROVE  /\ udp' \in [Session -> Seq(Inbound)]
               /\ \A x \in Session : Len(udp'[x]) <= PER_CLIENT_CHAN
               /\ \A x \in Session : \A i \in DOMAIN udp'[x] :
                    udp'[x][i] \in {Junk, Bye} \cup used'[x]
    <3>1. udp[s] \in Seq(Inbound)
      BY <2>1
    <3>2. /\ Append(udp[s], d) \in Seq(Inbound) /\ Len(Append(udp[s], d)) = Len(udp[s]) + 1
          /\ \A i \in DOMAIN Append(udp[s], d) :
               Append(udp[s], d)[i] = d \/ (i \in DOMAIN udp[s] /\ Append(udp[s], d)[i] = udp[s][i])
      BY <3>1
    <3>3. udp'[s] = Append(udp[s], d) /\ \A x \in Session \ {s} : udp'[x] = udp[x]
      BY <2>1, <2>2
    <3>4. udp' \in [Session -> Seq(Inbound)]
      BY <2>1, <2>2, <3>2, ZenonT(20)
    <3>5. Len(udp'[s]) <= PER_CLIENT_CHAN
      BY <2>2, <3>1, <3>2, <3>3, ChannelsAssumption
    <3>6. \A i \in DOMAIN udp'[s] : udp'[s][i] \in {Junk, Bye} \cup used'[s]
      BY <2>1, <2>2, <3>2, <3>3
    <3> QED
      BY <2>1, <3>3, <3>4, <3>5, <3>6
  <2> QED
    BY <2>1, <2>2
<1>2. QueuesTyped'
  BY <1>1 DEF QueuesTyped
<1>3. Placed'
  BY <1>1 DEF Placed, Packet
<1>4. Cleared' /\ ReturnInOrder'
  BY DEF Cleared, ReturnInOrder, Alive
<1>5. Traced'
  <2>1. \A i \in DOMAIN tun_write : tun_write[i] \in Posted
    BY DEF QueuesTyped
  <2>2. \A i \in DOMAIN tun_write : tun_write[i].sid \in Session
    BY <2>1 DEF Posted
  <2> QED
    BY <1>1, <2>2 DEF Traced
<1>6. ReturnToOwner'
  BY DEF ReturnToOwner
<1> QED
  BY <1>2, <1>3, <1>4, <1>5, <1>6

(* A new session starts with nothing on its way. *)
LEMMA SpawnKeeps ==
  ASSUME QInv, NEW a \in Addr, Spawn(a), created < scene.sessions, disp.at # "tun",
         disp' = Select,
         UNCHANGED <<scene, read, udp, tun, tun_write, routed, taken, tun_ips, used>>
  PROVE  QInv'
<1> USE DEF QInv
<1> DEFINE s == created + 1
<1>1. scene.sessions \in Nat /\ scene.sessions <= MaxSessions /\ created \in Nat
  BY SceneType, ChannelsAssumption DEF Placed, QueuesTyped
<1>2. s \in Session /\ created' = s /\ created' \in 0 .. MaxSessions
  BY <1>1, ChannelsAssumption DEF Spawn, Session
<1>3. task[s].at = "none"
  BY <1>1, <1>2 DEF Placed
<1>4. /\ task' = [task EXCEPT ![s] = [at |-> "select"]]
      /\ table' = table \cup {s}
  BY DEF Spawn
<1>5. /\ task' \in [Session -> Place] /\ task'[s] = [at |-> "select"]
      /\ \A x \in Session \ {s} : task'[x] = task[x]
  BY <1>2, <1>4 DEF QueuesTyped, Place
<1>6. QueuesTyped'
  BY <1>2, <1>5 DEF QueuesTyped
<1>7. Placed'
  <2>1. \A x \in Session : x > created' <=> task'[x].at = "none"
    BY <1>1, <1>2, <1>5 DEF Placed, Session
  <2>2. table' \subseteq 1 .. created'
    <3>1. table \subseteq 1 .. created
      BY DEF Placed
    <3>2. 1 .. created \subseteq 1 .. s /\ s \in 1 .. s
      BY <1>1
    <3> HIDE DEF s
    <3> QED
      BY <1>2, <1>4, <3>1, <3>2
  <2> QED
    BY <2>1, <2>2 DEF Placed
<1>8. Traced'
  BY <1>5 DEF Traced
<1>9. routed[s] = <<>> /\ taken[s] = <<>> /\ tun[s] = <<>>
  BY <1>2, <1>3 DEF Cleared, Alive
<1>10. Cleared'
  BY <1>5 DEF Cleared, Alive
<1>11. ReturnInOrder'
  <2>1. disp'.at # "tun"
    BY DEF Select
  <2>2. \A x \in Session \ {s} : Alive(x)' => routed'[x] = taken'[x] \o tun'[x] \o <<>>
    BY <1>5 DEF ReturnInOrder, Alive
  <2>3. routed'[s] = taken'[s] \o tun'[s] \o <<>>
    <3>1. <<>> \o <<>> = <<>>
      OBVIOUS
    <3> QED
      BY <1>9, <3>1
  <2> QED
    BY <1>2, <2>1, <2>2, <2>3 DEF ReturnInOrder
<1>12. ReturnToOwner'
  BY DEF ReturnToOwner
<1> QED
  BY <1>6, <1>7, <1>8, <1>10, <1>11, <1>12

(* A packet for a session that lives goes to the end of what is routed to  *)
(* it: into its channel, or into the dispatcher's hands. *)
LEMMA TunPacketKeeps ==
  ASSUME QInv, NEW ip \in TunNet, TunPacket(ip)
  PROVE  QInv'
<1> USE DEF QInv
<1> DEFINE pk == [n |-> read + 1, ip |-> ip]
<1>1. /\ disp = Select /\ read' = read + 1 /\ read \in Nat
      /\ UNCHANGED <<scene, created, table, task, udp, tun_write, taken, tun_ips, used>>
  BY DEF TunPacket, QueuesTyped, clientVars
<1>2. pk \in Pkt /\ pk \in Packet'
  BY <1>1 DEF Pkt, Packet
<1>3. disp.at # "tun"
  BY <1>1 DEF Select
<1>4. Traced'
  BY <1>1 DEF Traced
<1>5. CASE Owners(ip) = {}
  <2>1. UNCHANGED <<disp, tun, routed>>
    BY <1>5 DEF TunPacket
  <2>2. QueuesTyped' /\ Placed'
    BY <1>1, <2>1 DEF QueuesTyped, Placed
  <2>3. Cleared' /\ ReturnInOrder' /\ ReturnToOwner'
    BY <1>1, <2>1 DEF Cleared, ReturnInOrder, ReturnToOwner, Alive
  <2> QED
    BY <1>4, <2>2, <2>3
<1>6. ASSUME NEW s \in Owners(ip), HandOver(s, pk),
             routed' = [routed EXCEPT ![s] = Append(routed[s], pk)]
      PROVE  QInv'
  <2>1. s \in table /\ s \in 1 .. created /\ s \in Session /\ Alive(s) /\ ip \in used[s]
    BY ChannelsAssumption DEF Owners, Placed, QueuesTyped, Traced, Session
  <2>2. tun[s] \in Seq(Pkt) /\ routed[s] \in Seq(Pkt) /\ taken[s] \in Seq(Pkt)
        /\ tun \in [Session -> Seq(Pkt)] /\ routed \in [Session -> Seq(Pkt)]
    BY <2>1 DEF QueuesTyped
  <2>3. routed[s] = taken[s] \o tun[s] \o <<>>
    BY <1>3, <2>1 DEF ReturnInOrder
  <2>4. routed[s] = taken[s] \o tun[s]
    <3>1. taken[s] \o tun[s] \in Seq(Pkt)
      BY <2>2, ConcatProperties
    <3> QED
      BY <2>3, <3>1, ConcatEmptySeq
  <2> HIDE DEF pk
  <2>5. /\ routed'[s] = (taken[s] \o tun[s]) \o <<pk>>
        /\ routed'[s] = taken[s] \o Append(tun[s], pk)
    <3>1. routed'[s] = Append(routed[s], pk)
      BY <1>6, <2>1, <2>2
    <3>2. /\ Append(taken[s] \o tun[s], pk) = Behind(taken[s] \o tun[s], pk)
          /\ Behind(taken[s] \o tun[s], pk) = taken[s] \o Append(tun[s], pk)
      <4>1. taken[s] \in Seq(Pkt) /\ tun[s] \in Seq(Pkt) /\ pk \in Pkt
        BY <1>2, <2>2
      <4>2. taken[s] \o tun[s] \in Seq(Pkt)
        BY <4>1, ConcatProperties
      <4>3. Append(taken[s] \o tun[s], pk) = Behind(taken[s] \o tun[s], pk)
        BY <4>1, <4>2, AppendBehind
      <4>4. Behind(taken[s] \o tun[s], pk) = taken[s] \o Append(tun[s], pk)
        BY <4>1, AppendLast
      <4> QED
        BY <4>3, <4>4
    <3>3. Behind(taken[s] \o tun[s], pk) = (taken[s] \o tun[s]) \o <<pk>>
      BY DEF Behind
    <3> QED
      BY <2>4, <3>1, <3>2, <3>3
  <2>6. \A x \in Session \ {s} : routed'[x] = routed[x]
    BY <1>6, <2>2
  <2>7. routed' \in [Session -> Seq(Pkt)] /\ Append(tun[s], pk) \in Seq(Pkt)
    <3>1. Append(routed[s], pk) \in Seq(Pkt) /\ Append(tun[s], pk) \in Seq(Pkt)
      BY <1>2, <2>2
    <3> QED
      BY <1>6, <2>2, <3>1
  <2>8. ReturnToOwner'
    <3> SUFFICES ASSUME NEW x \in Session, NEW i \in DOMAIN routed'[x]
                 PROVE  routed'[x][i].ip \in used[x]
      BY <1>1 DEF ReturnToOwner
    <3>1. CASE x = s
      <4>1. routed'[s] = Append(routed[s], pk)
        BY <1>6, <2>1, <2>2
      <4>2. routed'[s][i] = pk \/ (i \in DOMAIN routed[s] /\ routed'[s][i] = routed[s][i])
        BY <2>2, <3>1, <4>1
      <4>3. pk.ip = ip
        BY DEF pk
      <4> QED
        BY <2>1, <3>1, <4>2, <4>3 DEF ReturnToOwner
    <3>2. CASE x # s
      BY <2>6, <3>2 DEF ReturnToOwner
    <3> QED
      BY <3>1, <3>2
  <2>9. CASE Len(tun[s]) < PER_CLIENT_CHAN
    <3>1. tun' = [tun EXCEPT ![s] = Append(tun[s], pk)] /\ disp' = disp
      BY <1>6, <2>9 DEF HandOver
    <3>2. /\ tun'[s] = Append(tun[s], pk) /\ \A x \in Session \ {s} : tun'[x] = tun[x]
          /\ tun' \in [Session -> Seq(Pkt)]
      BY <2>1, <2>2, <2>7, <3>1
    <3>3. Len(tun'[s]) <= PER_CLIENT_CHAN
      BY <2>2, <2>9, <3>2, ChannelsAssumption
    <3>4. QueuesTyped'
      BY <1>1, <2>7, <3>2 DEF QueuesTyped
    <3>5. Placed'
      BY <1>1, <3>1, <3>2, <3>3 DEF Placed
    <3>6. Cleared'
      BY <1>1, <2>1, <2>6, <3>2 DEF Cleared, Alive
    <3>7. ReturnInOrder'
      <4>1. routed'[s] = taken'[s] \o tun'[s] \o <<>>
        <5>1. taken[s] \o tun'[s] \in Seq(Pkt)
          BY <2>1, <2>2, <3>2, ConcatProperties
        <5>2. (taken[s] \o tun'[s]) \o <<>> = taken[s] \o tun'[s]
          BY <5>1, ConcatEmptySeq
        <5> QED
          BY <1>1, <2>5, <3>2, <5>2
      <4>2. \A x \in Session \ {s} : Alive(x)' => routed'[x] = taken'[x] \o tun'[x] \o <<>>
        BY <1>1, <1>3, <2>6, <3>2 DEF ReturnInOrder, Alive
      <4> QED
        BY <1>3, <3>1, <4>1, <4>2 DEF ReturnInOrder
    <3> QED
      BY <1>4, <2>8, <3>4, <3>5, <3>6, <3>7
  <2>10. CASE ~(Len(tun[s]) < PER_CLIENT_CHAN)
    <3>1. tun' = tun /\ disp' = [at |-> "tun", to |-> s, packet |-> pk]
      BY <1>6, <2>10 DEF HandOver
    <3>2. QueuesTyped'
      BY <1>1, <2>7, <3>1 DEF QueuesTyped
    <3>3. disp' \in [at : {"tun"}, to : 1 .. created', packet : Packet']
      BY <1>1, <1>2, <2>1, <3>1
    <3>4. Placed'
      BY <1>1, <3>1, <3>3 DEF Placed
    <3>5. Cleared'
      BY <1>1, <2>1, <2>6, <3>1 DEF Cleared, Alive
    <3>6. disp'.at = "tun" /\ disp'.to = s /\ disp'.packet = pk
      BY <3>1
    <3>7. ReturnInOrder'
      <4>1. routed'[s] = taken'[s] \o tun'[s] \o <<pk>>
        BY <1>1, <2>5, <3>1
      <4>2. \A x \in Session \ {s} : Alive(x)' => routed'[x] = taken'[x] \o tun'[x] \o <<>>
        BY <1>1, <1>3, <2>6, <3>1 DEF ReturnInOrder, Alive
      <4> QED
        BY <3>6, <4>1, <4>2 DEF ReturnInOrder
    <3> QED
      BY <1>4, <2>8, <3>2, <3>4, <3>5, <3>7
  <2> QED
    BY <2>9, <2>10
<1> QED
  BY <1>5, <1>6 DEF TunPacket

(* The packet in the dispatcher's hands goes where it was routed, or is    *)
(* lost with the session. *)
LEMMA UnblockKeeps ==
  ASSUME QInv, SendUnblocks
  PROVE  QInv'
<1> USE DEF QInv
<1> DEFINE s == disp.to
           pk == disp.packet
<1>1. /\ disp.at = "tun" /\ disp' = Select
      /\ UNCHANGED <<scene, created, table, read, task, udp, tun_write, routed, taken, tun_ips,
                     used>>
  BY DEF SendUnblocks, clientVars
<1>2. disp \in [at : {"tun"}, to : 1 .. created, packet : Packet]
  BY <1>1 DEF Placed, Select
<1>3. s \in Session /\ pk \in Pkt
  <2>1. s \in 1 .. created /\ pk \in Packet
    BY <1>2
  <2>2. created \in Nat /\ created <= MaxSessions
    BY ChannelsAssumption DEF QueuesTyped
  <2> QED
    BY <2>1, <2>2, ChannelsAssumption DEF Session, Packet, Pkt
<1> HIDE DEF s, pk
<1>4. disp'.at # "tun"
  BY <1>1 DEF Select
<1>5. Traced' /\ ReturnToOwner'
  BY <1>1 DEF Traced, ReturnToOwner
<1>6. /\ tun \in [Session -> Seq(Pkt)] /\ tun[s] \in Seq(Pkt) /\ taken[s] \in Seq(Pkt)
      /\ \A x \in Session : taken[x] \in Seq(Pkt)
  BY <1>3 DEF QueuesTyped
<1>7. \A x \in Session \ {s} : Alive(x) => routed[x] = taken[x] \o tun[x] \o <<>>
  BY DEF ReturnInOrder, s
<1>8. CASE Alive(s)
  <2>1. Len(tun[s]) < PER_CLIENT_CHAN /\ tun' = [tun EXCEPT ![s] = Append(tun[s], pk)]
    BY <1>8 DEF SendUnblocks, s, pk
  <2>2. Append(tun[s], pk) \in Seq(Pkt)
    BY <1>3, <1>6
  <2>3. /\ tun'[s] = Append(tun[s], pk) /\ \A x \in Session \ {s} : tun'[x] = tun[x]
        /\ tun' \in [Session -> Seq(Pkt)]
    BY <1>3, <1>6, <2>1, <2>2
  <2>4. Len(tun'[s]) <= PER_CLIENT_CHAN
    BY <1>6, <2>1, <2>3, ChannelsAssumption
  <2>5. QueuesTyped' /\ Placed'
    BY <1>1, <2>3, <2>4 DEF QueuesTyped, Placed
  <2>6. Cleared'
    BY <1>1, <1>8, <2>3 DEF Cleared, Alive
  <2>7. routed'[s] = taken'[s] \o tun'[s] \o <<>>
    <3>1. routed[s] = taken[s] \o tun[s] \o <<pk>>
      BY <1>1, <1>3, <1>8 DEF ReturnInOrder, s, pk
    <3>2. (taken[s] \o tun[s]) \o <<pk>> = taken[s] \o Append(tun[s], pk)
      <4>1. Behind(taken[s] \o tun[s], pk) = taken[s] \o Append(tun[s], pk)
        <5>1. taken[s] \in Seq(Pkt) /\ tun[s] \in Seq(Pkt) /\ pk \in Pkt
          BY <1>3, <1>6
        <5> QED
          BY <5>1, AppendLast
      <4> QED
        BY <4>1 DEF Behind
    <3>3. taken[s] \o Append(tun[s], pk) \in Seq(Pkt)
      BY <1>6, <2>2, ConcatProperties
    <3>4. (taken[s] \o Append(tun[s], pk)) \o <<>> = taken[s] \o Append(tun[s], pk)
      BY <3>3, ConcatEmptySeq
    <3> QED
      BY <1>1, <2>3, <3>1, <3>2, <3>4
  <2>8. ReturnInOrder'
    BY <1>1, <1>4, <1>7, <2>3, <2>7 DEF ReturnInOrder, Alive
  <2> QED
    BY <1>5, <2>5, <2>6, <2>8
<1>9. CASE ~Alive(s)
  <2>1. tun' = tun
    BY <1>9 DEF SendUnblocks, s
  <2>2. QueuesTyped' /\ Placed'
    BY <1>1, <2>1 DEF QueuesTyped, Placed
  <2>3. Cleared'
    BY <1>1, <2>1 DEF Cleared, Alive
  <2>4. ReturnInOrder'
    BY <1>1, <1>4, <1>7, <1>9, <2>1 DEF ReturnInOrder, Alive
  <2> QED
    BY <1>5, <2>2, <2>3, <2>4
<1> QED
  BY <1>8, <1>9

(* The dispatcher learns an address for the session whose task posted it. *)
LEMMA TunWriteKeeps ==
  ASSUME QInv, TunWrite
  PROVE  QInv'
<1> USE DEF QInv
<1> DEFINE h == Head(tun_write)
<1>1. /\ tun_write # <<>> /\ tun_write' = Tail(tun_write) /\ Learn(h.sid, h.ip)
      /\ UNCHANGED <<scene, disp, created, table, read, task, udp, tun, routed, taken, used>>
  BY DEF TunWrite, clientVars
<1>2. /\ tun_write \in Seq(Posted) /\ tun_ips \in [Session -> SUBSET TunNet]
      /\ Len(tun_write) <= TUN_WRITE_CHAN /\ Len(tun_write) \in Nat \ {0}
  BY <1>1, EmptySeq DEF QueuesTyped, Placed
<1>3. /\ h = tun_write[1] /\ 1 \in DOMAIN tun_write /\ h \in Posted
      /\ tun_write' \in Seq(Posted) /\ Len(tun_write') = Len(tun_write) - 1
      /\ \A i \in DOMAIN tun_write' : i + 1 \in DOMAIN tun_write /\ tun_write'[i] = tun_write[i + 1]
  BY <1>1, <1>2
<1>4. h.sid \in Session /\ h.ip \in used[h.sid]
  BY <1>3 DEF Traced, Posted
<1> HIDE DEF h
<1>5. /\ tun_ips' \in [Session -> SUBSET TunNet]
      /\ \A s \in Session : tun_ips'[s] \subseteq used[s]
  <2>1. CASE h.sid \in table
    <3>1. tun_ips' = [tun_ips EXCEPT ![h.sid] = tun_ips[h.sid] \cup ({h.ip} \cap TunNet)]
      BY <1>1, <2>1 DEF Learn
    <3> QED
      BY <1>2, <1>4, <3>1 DEF Traced
  <2>2. CASE h.sid \notin table
    BY <1>1, <1>2, <2>2 DEF Learn, Traced
  <2> QED
    BY <2>1, <2>2
<1>6. QueuesTyped'
  BY <1>1, <1>3 DEF QueuesTyped
<1>7. Placed'
  <2>1. Len(tun_write') <= TUN_WRITE_CHAN
    BY <1>2, <1>3, ChannelsAssumption
  <2> QED
    BY <1>1, <1>5, <2>1 DEF Placed, Packet
<1>8. Traced'
  BY <1>1, <1>3, <1>5 DEF Traced
<1>9. Cleared' /\ ReturnInOrder' /\ ReturnToOwner'
  BY <1>1 DEF Cleared, ReturnInOrder, ReturnToOwner, Alive
<1> QED
  BY <1>6, <1>7, <1>8, <1>9

(* A task that ends takes its channels with it. *)
LEMMA EndsKeeps ==
  ASSUME QInv, NEW s \in Session, task[s].at = "select", Ends(s)
  PROVE  QInv'
<1> USE DEF QInv
<1>1. /\ UNCHANGED <<scene, disp, created, table, read, tun_write, tun_ips, used>>
      /\ task' = [task EXCEPT ![s] = [at |-> "ended"]]
      /\ udp' = [udp EXCEPT ![s] = <<>>] /\ tun' = [tun EXCEPT ![s] = <<>>]
      /\ routed' = [routed EXCEPT ![s] = <<>>] /\ taken' = [taken EXCEPT ![s] = <<>>]
  BY DEF Ends, clientVars
<1>2. /\ task \in [Session -> Place] /\ udp \in [Session -> Seq(Inbound)]
      /\ tun \in [Session -> Seq(Pkt)] /\ routed \in [Session -> Seq(Pkt)]
      /\ taken \in [Session -> Seq(Pkt)]
  BY DEF QueuesTyped
<1>3. /\ task'[s] = [at |-> "ended"] /\ udp'[s] = <<>> /\ tun'[s] = <<>>
      /\ routed'[s] = <<>> /\ taken'[s] = <<>>
      /\ \A x \in Session \ {s} : /\ task'[x] = task[x] /\ udp'[x] = udp[x]
                                  /\ tun'[x] = tun[x] /\ routed'[x] = routed[x]
                                  /\ taken'[x] = taken[x]
  BY <1>1, <1>2
<1>4. QueuesTyped'
  <2>1. [at |-> "ended"] \in Place
    BY DEF Place
  <2>2. <<>> \in Seq(Inbound) /\ <<>> \in Seq(Pkt)
    BY EmptySeq
  <2>3. task' \in [Session -> Place]
    BY <1>1, <1>2, <2>1
  <2>4. /\ udp' \in [Session -> Seq(Inbound)] /\ tun' \in [Session -> Seq(Pkt)]
        /\ routed' \in [Session -> Seq(Pkt)] /\ taken' \in [Session -> Seq(Pkt)]
    BY <1>1, <1>2, <2>2, ZenonT(20)
  <2> QED
    BY <1>1, <2>3, <2>4 DEF QueuesTyped
<1>5. Placed'
  <2>1. PER_CLIENT_CHAN \in Nat
    BY ChannelsAssumption
  <2>2. \A x \in Session :
          /\ x > created <=> task'[x].at = "none"
          /\ Len(udp'[x]) <= PER_CLIENT_CHAN /\ Len(tun'[x]) <= PER_CLIENT_CHAN
    BY <1>3, <2>1 DEF Placed
  <2> QED
    BY <1>1, <2>2 DEF Placed, Packet
<1>6. Traced'
  BY <1>1, <1>3 DEF Traced
<1>7. Cleared'
  BY <1>3 DEF Cleared, Alive
<1>8. ReturnInOrder'
  <2>1. ~Alive(s)'
    BY <1>3 DEF Alive
  <2> QED
    BY <1>1, <1>3, <2>1 DEF ReturnInOrder, Alive
<1>9. ReturnToOwner'
  BY <1>1, <1>3 DEF ReturnToOwner
<1> QED
  BY <1>4, <1>5, <1>6, <1>7, <1>8, <1>9

(* A task takes a datagram from its channel. *)
LEMMA TaskUdpKeeps ==
  ASSUME QInv, NEW s \in Session, TaskUdp(s)
  PROVE  QInv'
<1> USE DEF QInv
<1> DEFINE d == Head(udp[s])
           here == IF d = Junk THEN task[s] ELSE [at |-> "post", ip |-> d]
<1>1. CASE d = Bye
  BY <1>1, EndsKeeps DEF TaskUdp
<1>2. CASE d # Bye
  <2>1. /\ task[s].at = "select" /\ udp[s] # <<>>
        /\ udp' = [udp EXCEPT ![s] = Tail(udp[s])] /\ task' = [task EXCEPT ![s] = here]
        /\ UNCHANGED <<scene, disp, created, table, read, tun, tun_write, routed, taken,
                       tun_ips, used>>
    BY <1>2 DEF TaskUdp, dispVars, clientVars
  <2>2. /\ udp \in [Session -> Seq(Inbound)] /\ udp[s] \in Seq(Inbound)
        /\ task \in [Session -> Place] /\ task[s] \in Place
        /\ Len(udp[s]) \in Nat /\ Len(udp[s]) <= PER_CLIENT_CHAN
    BY DEF QueuesTyped, Placed
  <2>3. /\ 1 \in DOMAIN udp[s] /\ d = udp[s][1] /\ d \in Inbound
        /\ Tail(udp[s]) \in Seq(Inbound) /\ Len(Tail(udp[s])) = Len(udp[s]) - 1
        /\ \A i \in DOMAIN Tail(udp[s]) : i + 1 \in DOMAIN udp[s] /\ Tail(udp[s])[i] = udp[s][i + 1]
    BY <2>1, <2>2
  <2>4. d = Junk \/ (d \in Ip /\ d \in used[s])
    <3>1. d \in {Junk, Bye} \cup used[s] /\ used[s] \subseteq Ip
      BY <2>3 DEF Traced, QueuesTyped
    <3> QED
      BY <1>2, <3>1
  <2>5. here \in Place /\ (here.at = "select" \/ (here.at = "post" /\ here.ip \in used[s]))
    <3>1. CASE d = Junk
      BY <2>1, <2>2, <3>1
    <3>2. CASE d # Junk
      BY <2>4, <3>2 DEF Place
    <3> QED
      BY <3>1, <3>2
  <2> HIDE DEF d, here
  <2>6. /\ udp'[s] = Tail(udp[s]) /\ task'[s] = here
        /\ \A x \in Session \ {s} : udp'[x] = udp[x] /\ task'[x] = task[x]
        /\ udp' \in [Session -> Seq(Inbound)] /\ task' \in [Session -> Place]
    BY <2>1, <2>2, <2>3, <2>5
  <2>7. QueuesTyped'
    BY <2>1, <2>6 DEF QueuesTyped
  <2>8. \A x \in Session : Alive(x)' <=> Alive(x)
    BY <2>1, <2>5, <2>6 DEF Alive
  <2>9. Placed'
    <3>1. Len(udp'[s]) <= PER_CLIENT_CHAN
      BY <2>2, <2>3, <2>6, ChannelsAssumption
    <3>2. s > created <=> task'[s].at = "none"
      BY <2>1, <2>5, <2>6 DEF Placed
    <3> QED
      BY <2>1, <2>6, <3>1, <3>2 DEF Placed, Packet
  <2>10. Traced'
    <3>1. \A i \in DOMAIN udp'[s] : udp'[s][i] \in {Junk, Bye} \cup used[s]
      BY <2>3, <2>6 DEF Traced
    <3>2. task'[s].at = "post" => task'[s].ip \in used[s]
      BY <2>5, <2>6
    <3> QED
      BY <2>1, <2>6, <3>1, <3>2 DEF Traced
  <2>11. Cleared' /\ ReturnInOrder' /\ ReturnToOwner'
    BY <2>1, <2>8 DEF Cleared, ReturnInOrder, ReturnToOwner
  <2> QED
    BY <2>7, <2>9, <2>10, <2>11
<1> QED
  BY <1>1, <1>2

(* A task posts what its client sent, under its own session. *)
LEMMA TaskPostKeeps ==
  ASSUME QInv, NEW s \in Session, TaskPost(s)
  PROVE  QInv'
<1> USE DEF QInv
<1> DEFINE m == [sid |-> s, ip |-> task[s].ip]
<1>1. /\ task[s].at = "post" /\ task' = [task EXCEPT ![s] = [at |-> "select"]]
      /\ \/ tun_write' = tun_write
         \/ Len(tun_write) < TUN_WRITE_CHAN /\ tun_write' = Append(tun_write, m)
      /\ UNCHANGED <<scene, disp, created, table, read, udp, tun, routed, taken, tun_ips, used>>
  BY DEF TaskPost, dispVars, clientVars
<1>2. /\ task \in [Session -> Place] /\ tun_write \in Seq(Posted) /\ task[s].ip \in used[s]
      /\ Len(tun_write) <= TUN_WRITE_CHAN /\ used[s] \subseteq Ip
  BY <1>1 DEF QueuesTyped, Placed, Traced
<1>3. m \in Posted /\ m.sid = s /\ m.ip \in used[s]
  BY <1>2 DEF Posted
<1> HIDE DEF m
<1>4. /\ tun_write' \in Seq(Posted) /\ Len(tun_write') <= TUN_WRITE_CHAN
      /\ \A i \in DOMAIN tun_write' : tun_write'[i] = m \/ (i \in DOMAIN tun_write /\ tun_write'[i] = tun_write[i])
  <2>1. CASE tun_write' = tun_write
    BY <1>2, <2>1
  <2>2. CASE Len(tun_write) < TUN_WRITE_CHAN /\ tun_write' = Append(tun_write, m)
    BY <1>2, <1>3, <2>2, ChannelsAssumption
  <2> QED
    BY <1>1, <2>1, <2>2
<1>5. [at |-> "select"] \in Place
  BY DEF Place
<1>6. /\ task'[s] = [at |-> "select"] /\ \A x \in Session \ {s} : task'[x] = task[x]
      /\ task' \in [Session -> Place]
  BY <1>1, <1>2, <1>5
<1>7. QueuesTyped'
  BY <1>1, <1>4, <1>6 DEF QueuesTyped
<1>8. \A x \in Session : /\ Alive(x)' <=> Alive(x)
                         /\ task'[x].at = "none" <=> task[x].at = "none"
                         /\ task'[x].at = "post" => task'[x] = task[x]
  BY <1>1, <1>6 DEF Alive
<1>9. Placed'
  BY <1>1, <1>4, <1>8 DEF Placed, Packet
<1>10. Traced'
  BY <1>1, <1>3, <1>4, <1>8 DEF Traced
<1>11. Cleared' /\ ReturnInOrder' /\ ReturnToOwner'
  BY <1>1, <1>8 DEF Cleared, ReturnInOrder, ReturnToOwner
<1> QED
  BY <1>7, <1>9, <1>10, <1>11

(* A task takes the packet at the front of its channel. *)
LEMMA TaskTunKeeps ==
  ASSUME QInv, NEW s \in Session, TaskTun(s)
  PROVE  QInv'
<1> USE DEF QInv
<1> DEFINE h == Head(tun[s])
<1>1. /\ task[s].at = "select" /\ tun[s] # <<>>
      /\ tun' = [tun EXCEPT ![s] = Tail(tun[s])]
      /\ taken' = [taken EXCEPT ![s] = Append(taken[s], h)]
      /\ UNCHANGED <<scene, disp, created, table, read, task, udp, tun_write, routed, tun_ips,
                     used>>
  BY DEF TaskTun, dispVars, clientVars
<1>2. /\ tun \in [Session -> Seq(Pkt)] /\ taken \in [Session -> Seq(Pkt)]
      /\ tun[s] \in Seq(Pkt) /\ taken[s] \in Seq(Pkt)
      /\ Len(tun[s]) \in Nat /\ Len(tun[s]) <= PER_CLIENT_CHAN
  BY DEF QueuesTyped, Placed
<1>3. taken[s] \o tun[s] = Append(taken[s], h) \o Tail(tun[s])
  BY <1>1, <1>2, MoveFirst
<1>4. /\ h \in Pkt /\ Tail(tun[s]) \in Seq(Pkt) /\ Len(Tail(tun[s])) = Len(tun[s]) - 1
  BY <1>1, <1>2
<1> HIDE DEF h
<1>5. Append(taken[s], h) \in Seq(Pkt)
  BY <1>2, <1>4
<1>6. /\ tun'[s] = Tail(tun[s]) /\ taken'[s] = Append(taken[s], h)
      /\ \A x \in Session \ {s} : tun'[x] = tun[x] /\ taken'[x] = taken[x]
      /\ tun' \in [Session -> Seq(Pkt)] /\ taken' \in [Session -> Seq(Pkt)]
  BY <1>1, <1>2, <1>4, <1>5
<1>7. QueuesTyped'
  BY <1>1, <1>6 DEF QueuesTyped
<1>8. Placed'
  <2>1. Len(tun'[s]) <= PER_CLIENT_CHAN
    BY <1>2, <1>4, <1>6, ChannelsAssumption
  <2> QED
    BY <1>1, <1>6, <2>1 DEF Placed, Packet
<1>9. Traced' /\ ReturnToOwner'
  BY <1>1 DEF Traced, ReturnToOwner
<1>10. Cleared'
  BY <1>1, <1>6 DEF Cleared, Alive
<1>11. ReturnInOrder'
  <2>1. \A x \in Session : taken'[x] \o tun'[x] = taken[x] \o tun[x]
    BY <1>3, <1>6
  <2> QED
    BY <1>1, <2>1 DEF ReturnInOrder, Alive
<1> QED
  BY <1>7, <1>8, <1>9, <1>10, <1>11

-----------------------------------------------------------------------------
(* Every step *)

LEMMA DispatcherKeeps ==
  ASSUME QInv, Limited, Dispatcher
  PROVE  QInv' /\ Limited'
<1>1. scene \in Scenes /\ scene.from \subseteq Addr /\ scene.ips \subseteq Ip
  BY SceneType DEF QInv, Placed
<1>2. /\ used \in [Session -> SUBSET Ip] /\ created \in 0 .. MaxSessions
      /\ table \subseteq 1 .. created
  BY DEF QInv, QueuesTyped, Placed
<1>3. UNCHANGED limitVars => Limited'
  BY DEF limitVars, Limited
<1>4. table \subseteq Session
  BY <1>2, ChannelsAssumption DEF Session
<1>5. ASSUME NEW a \in scene.from, DispatchJunk(a) PROVE QInv' /\ Limited'
  <2>1. Limited'
    BY <1>1, <1>5, ProbeLimited DEF DispatchJunk
  <2>2. /\ UNCHANGED <<scene, disp, table, created, read, task, tun, tun_write, routed, taken,
                       tun_ips, used>>
        /\ \/ udp' = udp
           \/ /\ addr_index[a] \in table /\ Len(udp[addr_index[a]]) < PER_CLIENT_CHAN
              /\ udp' = [udp EXCEPT ![addr_index[a]] = Append(udp[addr_index[a]], Junk)]
    BY <1>5 DEF DispatchJunk, Room, dispVars, clientVars
  <2>3. \/ udp' = udp
        \/ \E s \in Session : \E d \in Inbound :
             /\ Len(udp[s]) < PER_CLIENT_CHAN
             /\ udp' = [udp EXCEPT ![s] = Append(udp[s], d)]
             /\ d \in {Junk, Bye} \cup used'[s]
    BY <1>4, <2>2 DEF Inbound
  <2>4. used' \in [Session -> SUBSET Ip] /\ \A s \in Session : used[s] \subseteq used'[s]
    BY <1>2, <2>2
  <2> QED
    BY <2>1, <2>2, <2>3, <2>4, InboundKeeps
<1>6. ASSUME NEW a \in scene.from, DispatchHello(a) PROVE QInv' /\ Limited'
  <2>1. Limited'
    BY <1>1, <1>6, ProbeLimited DEF DispatchHello
  <2>2. /\ disp = Select /\ created < scene.sessions
        /\ UNCHANGED <<scene, disp, read, udp, tun, tun_write, routed, taken, tun_ips, used>>
        /\ Spawn(a) \/ UNCHANGED <<created, table, task>>
    BY <1>6 DEF DispatchHello, clientVars
  <2>3. disp.at # "tun"
    BY <2>2 DEF Select
  <2>4. CASE Spawn(a)
    BY <1>1, <2>1, <2>2, <2>3, <2>4, SpawnKeeps
  <2>5. CASE UNCHANGED <<created, table, task>>
    BY <2>1, <2>2, <2>5, QuietKeeps
  <2> QED
    BY <2>2, <2>4, <2>5
<1>7. ASSUME NEW a \in scene.from, Accept(a) PROVE QInv' /\ Limited'
  <2>1. /\ disp = Select /\ created < scene.sessions /\ disp' = [at |-> "accept", from |-> a]
        /\ UNCHANGED <<scene, created, table, read, task, udp, tun, tun_write, routed, taken,
                       tun_ips, used, limitVars>>
    BY <1>7 DEF Accept, taskVars, clientVars
  <2>2. disp.at # "tun" /\ disp' \in [at : {"accept"}, from : Addr]
    BY <1>1, <2>1 DEF Select
  <2> QED
    BY <1>3, <2>1, <2>2, QuietKeeps
<1>8. ASSUME NEW s \in Session, NEW d \in scene.ips \cup {Bye}, DispatchData(s, d)
      PROVE  QInv' /\ Limited'
  <2>1. Limited'
    BY <1>1, <1>3, <1>8, ProbeLimited DEF DispatchData
  <2>2. /\ UNCHANGED <<scene, disp, table, created, read, task, tun, tun_write, routed, taken,
                       tun_ips>>
        /\ used' = [used EXCEPT ![s] = used[s] \cup ({d} \cap Ip)]
        /\ \/ udp' = udp
           \/ Len(udp[s]) < PER_CLIENT_CHAN /\ udp' = [udp EXCEPT ![s] = Append(udp[s], d)]
    BY <1>8 DEF DispatchData, Room, dispVars
  <2>3. /\ used' \in [Session -> SUBSET Ip] /\ used'[s] = used[s] \cup ({d} \cap Ip)
        /\ \A x \in Session : used[x] \subseteq used'[x]
    BY <1>2, <2>2
  <2>4. d \in Inbound /\ d \in {Junk, Bye} \cup used'[s]
    BY <1>1, <2>3 DEF Inbound
  <2> QED
    BY <2>1, <2>2, <2>3, <2>4, InboundKeeps
<1>9. ASSUME NEW hello \in BOOLEAN, FirstMessage(hello) PROVE QInv' /\ Limited'
  <2>1. /\ disp.at = "accept" /\ disp' = Select
        /\ UNCHANGED <<scene, read, udp, tun, tun_write, routed, taken, tun_ips, used, limitVars>>
        /\ Spawn(disp.from) \/ UNCHANGED <<created, table, task>>
    BY <1>9 DEF FirstMessage, clientVars
  <2>2. disp.at # "tun" /\ disp.from \in Addr /\ created < scene.sessions
    BY <2>1 DEF QInv, Placed, Select
  <2>3. CASE Spawn(disp.from)
    BY <1>3, <2>1, <2>2, <2>3, SpawnKeeps
  <2>4. CASE UNCHANGED <<created, table, task>>
    BY <1>3, <2>1, <2>2, <2>4, QuietKeeps
  <2> QED
    BY <2>1, <2>3, <2>4
<1>10. ASSUME NEW ip \in TunNet \cap scene.ips, TunPacket(ip) PROVE QInv' /\ Limited'
  BY <1>3, <1>10, TunPacketKeeps DEF TunPacket
<1>11. CASE SendUnblocks
  BY <1>3, <1>11, UnblockKeeps DEF SendUnblocks
<1>12. CASE TunWrite
  BY <1>3, <1>12, TunWriteKeeps DEF TunWrite
<1>13. CASE Sweep
  <2>1. /\ UNCHANGED <<scene, disp, created, read, task, udp, tun, tun_write, routed, taken,
                       tun_ips, used, limitVars>>
        /\ table' \subseteq table
    BY <1>13 DEF Sweep, taskVars, clientVars
  <2> QED
    BY <1>3, <2>1, QuietKeeps
<1>14. CASE Shutdown
  <2>1. /\ UNCHANGED <<scene, created, read, task, udp, tun, routed, taken, tun_ips, used,
                       limitVars>>
        /\ disp = Select /\ disp' = [at |-> "stopped"] /\ table' \subseteq table /\ tun_write' = <<>>
    BY <1>14 DEF Shutdown, clientVars
  <2>2. disp.at # "tun"
    BY <2>1 DEF Select
  <2> QED
    BY <1>3, <2>1, <2>2, QuietKeeps
<1> QED
  BY <1>5, <1>6, <1>7, <1>8, <1>9, <1>10, <1>11, <1>12, <1>13, <1>14 DEF Dispatcher

LEMMA TasksKeep ==
  ASSUME QInv, Limited, NEW s \in Session, Task(s)
  PROVE  QInv' /\ Limited'
<1>1. UNCHANGED limitVars => Limited'
  BY DEF limitVars, Limited
<1>2. CASE TaskUdp(s)
  <2>1. UNCHANGED limitVars
    BY <1>2 DEF TaskUdp, Ends
  <2> QED
    BY <1>1, <1>2, <2>1, TaskUdpKeeps
<1>3. CASE TaskPost(s)
  BY <1>1, <1>3, TaskPostKeeps DEF TaskPost
<1>4. CASE TaskTun(s)
  BY <1>1, <1>4, TaskTunKeeps DEF TaskTun
<1>5. CASE TaskTimeout(s) \/ TaskStopped(s) \/ TaskOrphaned(s)
  <2>1. task[s].at = "select" /\ Ends(s)
    BY <1>5 DEF TaskTimeout, TaskStopped, TaskOrphaned
  <2>2. UNCHANGED limitVars
    BY <2>1 DEF Ends
  <2> QED
    BY <1>1, <2>1, <2>2, EndsKeeps
<1> QED
  BY <1>2, <1>3, <1>4, <1>5 DEF Task

LEMMA ChannelsInductive == QInv /\ Limited /\ [Next]_vars => QInv' /\ Limited'
<1> SUFFICES ASSUME QInv, Limited, [Next]_vars PROVE QInv' /\ Limited'
  OBVIOUS
<1>1. CASE UNCHANGED vars \/ StopSignal \/ \E s \in Session : \E ip \in scene.ips : ClientSends(s, ip)
  <2>1. UNCHANGED <<scene, disp, table, created, read, task, udp, tun, tun_write, routed, taken,
                    tun_ips, used, limiter, ideal>>
    BY <1>1 DEF vars, StopSignal, ClientSends, dispVars, taskVars, limitVars, clientVars
  <2>2. Limited'
    BY <2>1 DEF Limited
  <2> QED
    BY <2>1, <2>2, QuietKeeps
<1>2. CASE Tick
  <2>1. UNCHANGED <<scene, disp, table, created, read, task, udp, tun, tun_write, routed, taken,
                    tun_ips, used>>
    BY <1>2 DEF Tick, dispVars, taskVars, clientVars
  <2> QED
    BY <1>2, <2>1, QuietKeeps, TickLimited
<1>3. CASE Dispatcher
  BY <1>3, DispatcherKeeps
<1>4. CASE \E s \in Session : Task(s)
  BY <1>4, TasksKeep
<1> QED
  BY <1>1, <1>2, <1>3, <1>4 DEF Next

LEMMA ChannelsInvariant == Spec => [](QInv /\ Limited)
BY ChannelsInit, ChannelsInductive, PTL DEF Spec

(* However a source spaces its probes, whatever the purge forgets and the  *)
(* cap refuses, ProbeLimiter::allow never grants a source more than a      *)
(* token bucket of the configured burst and rate, for every burst, rate    *)
(* and cap: a source that is unknown or forgotten has a full ideal bucket, *)
(* because the lifetime of an idle source is at least the time to refill   *)
(* one. *)
THEOREM ProbesAreRateBounded == Spec => []RateBounded
<1>1. QInv /\ Limited => RateBounded
  <2> SUFFICES ASSUME QInv, Limited PROVE RateBounded
    OBVIOUS
  <2>1. TypeOK
    BY TypeFromParts DEF QInv
  <2>2. \A a \in Addr : ideal[a] >= 0
    BY DEF Limited, Backed
  <2> QED
    BY <2>1, <2>2 DEF RateBounded
<1> QED
  BY <1>1, ChannelsInvariant, PTL

(* Return traffic of a living session is neither dropped nor reordered by  *)
(* run_server's dispatcher, for any number of sessions and any size of     *)
(* their channels. *)
THEOREM ReturnTrafficInOrder == Spec => []ReturnInOrder
BY ChannelsInvariant, PTL DEF QInv

(* A client is only ever sent packets for addresses its own traffic came   *)
(* from, though an address passes the client's channel, its task and the   *)
(* shared aggregator before the dispatcher learns it. *)
THEOREM ReturnTrafficToOwner == Spec => []ReturnToOwner
BY ChannelsInvariant, PTL DEF QInv

=============================================================================
