-------------------------- MODULE HostGuardsProofs --------------------------
(***************************************************************************)
(* What the client daemon leaves on its host, for any number of lives,     *)
(* crashes and failing commands, any configuration and any number of rules *)
(* in a chain.                                                             *)
(*                                                                         *)
(* The proof follows the program counter: todo is what is left of the      *)
(* program of the guard being worked on, and for each place in a program   *)
(* the inductive invariant says what the host is like there.               *)
(***************************************************************************)
EXTENDS HostGuards, SequenceTheorems, TLAPS

(* What is left of program p at its i-th operation, and after the IPv4     *)
(* half of an operation on both families. *)
Rest(p, i) == SubSeq(p, i, Len(p))
Half(p, i) == <<Op(p[i].verb, "v6")>> \o Rest(p, i + 1)

-----------------------------------------------------------------------------
(* The guards and the process *)

(* The guards that can only be missing after a fault; a daemon is refused  *)
(* to run without its kill switch. *)
Sure == {"ks"} \cup IF faults = 0 THEN {"resolv", "nat"} ELSE {}

ControlOK ==
  /\ up \in {"down", "running"} => stage = "none" /\ stages = {}
  /\ up = "down" => guards = {}
  /\ up = "starting" => /\ (stages \cup {stage}) \cap guards = {} /\ stage \notin stages
                        /\ stage # "none" => mode \in {"install", "undo"}
                        /\ \A g \in Sure : Wanted(cfg)[g] => g \in stages \cup guards \cup {stage}
  /\ up = "running" => \A g \in Sure : Wanted(cfg)[g] => g \in guards
  /\ up = "stopping" => /\ stages \subseteq guards /\ guards \subseteq stages \cup {stage}
                        /\ stage \in guards \cup {"none"} /\ stage \notin stages
                        /\ stage # "none" => mode = "remove"
  /\ stage = "none" => todo = <<>>
  /\ up \in {"starting", "running"} => outcome = "none"

ProcessTyped ==
  /\ up \in {"down", "starting", "running", "stopping"}
  /\ \A g \in Guards : Wanted(cfg)[g] \in BOOLEAN
  /\ stages \subseteq Guards /\ stage \in Guards \cup {"none"}
  /\ mode \in {"install", "undo", "remove"}
  /\ todo \in Seq(OpType)
  /\ guards \subseteq Guards
  /\ outcome \in {"none", "stopped", "ended", "failed", "refused", "crashed"}
  /\ starts \in 0 .. MaxStarts /\ faults \in 0 .. MaxFaults
  /\ orig \subseteq {"lan"} /\ split \in BOOLEAN /\ torn \in BOOLEAN
  /\ botched \in BOOLEAN /\ (botched => faults > 0)

-----------------------------------------------------------------------------
(* Chains *)

FullChain == [exists |-> TRUE, rules |-> Rules, jumps |-> 1]

MoreRules(x) == [x EXCEPT !.rules = @ + 1]
MoreJumps(x) == [x EXCEPT !.jumps = @ + 1]
NoJumps(x) == [x EXCEPT !.jumps = 0]
NewChain == [NoChain EXCEPT !.exists = TRUE]

Lowered(c) == \A f \in Fams : c[f].jumps = 0

(* Before the i-th operation of RemoveOps, and in its middle, on whatever  *)
(* an earlier process left.  An operation on both families goes on to IPv6 *)
(* only if it was possible for IPv4, so what IPv6 has IPv4 must have: of   *)
(* the rules, always; of chain and jump, unless a crash cut a removal.     *)
Flushed(c, i) ==
  /\ i < 3 => (c["v6"].rules > 0 => c["v4"].exists)
  /\ i > 2 => c["v4"].rules = 0 /\ c["v6"].rules = 0

HalfFlushed(c, i) ==
  /\ i = 1 => (c["v6"].rules > 0 => c["v4"].exists)
  /\ i = 2 => c["v4"].exists /\ c["v4"].rules = 0
  /\ i = 3 => c["v4"].rules = 0 /\ c["v6"].rules = 0

Cleaned(c, i) ==
  /\ i < 4 => (c["v6"].exists => c["v4"].exists)
  /\ i = 1 => c["v6"].jumps <= c["v4"].jumps
  /\ i > 1 => Lowered(c)
  /\ i = 4 => \A f \in Fams : c[f] = NoChain

HalfCleaned(c, i) ==
  /\ i < 3 => (c["v6"].exists => c["v4"].exists)
  /\ i = 1 => c["v4"].jumps = 0
  /\ i > 1 => Lowered(c)
  /\ i = 3 => c["v4"] = NoChain

(* If no removal failed (b), and besides none was cut (q). *)
Wiped(c, i, b, q) == (b => Flushed(c, i)) /\ (b /\ q => Cleaned(c, i))
HalfWiped(c, i, b, q) == (b => HalfFlushed(c, i)) /\ (b /\ q => HalfCleaned(c, i))

(* The rules of family f before the i-th operation of InstallOps. *)
Filled(f, i) ==
  LET n == IF f = "v4" THEN i - 5 ELSE i - 5 - Rules
  IN  IF n < 0 THEN 0 ELSE IF n > Rules THEN Rules ELSE n

Final == 6 + 2 * Rules

Raised(c, i) ==
  \A f \in Fams : c[f] = [exists |-> TRUE, rules |-> Filled(f, i),
                          jumps |-> IF i = Final THEN 1 ELSE 0]

Installed(c, i) == (i <= 4 => Wiped(c, i, ~botched, ~split)) /\ (i > 4 => Raised(c, i))

HalfInstalled(c, i) ==
  /\ i < 4 => HalfWiped(c, i, ~botched, ~split)
  /\ i = 4 => /\ c["v4"] = NewChain
              /\ ~botched => c["v6"].rules = 0
              /\ ~botched /\ ~split => c["v6"] = NoChain
  /\ i > 4 => c["v4"] = FullChain /\ c["v6"] = NoJumps(FullChain)

Installing(c) ==
  \E i \in 1 .. Final :
    \/ todo = Rest(InstallOps, i) /\ Installed(c, i)
    \/ /\ i \in {1, 2, 3, 4, Final - 1}
       /\ todo = Half(InstallOps, i) /\ HalfInstalled(c, i)

(* A guard that was held is whole, whatever was cut before. *)
Uncut == mode = "remove" \/ ~split

Removing(c) ==
  \E i \in 1 .. 4 :
    \/ todo = Rest(RemoveOps, i) /\ Wiped(c, i, ~botched, Uncut)
    \/ i < 4 /\ todo = Half(RemoveOps, i) /\ HalfWiped(c, i, ~botched, Uncut)

(* One family of a chain: what does not exist is empty, and nothing jumps  *)
(* to a chain twice. *)
Fam(x) == /\ x \in [exists : BOOLEAN, rules : 0 .. Rules, jumps : 0 .. 1]
          /\ x.exists \/ x = NoChain

(* What a refused start leaves of its kill switch. *)
Refused(c) == \A f \in Fams : c[f].rules = 0 /\ (split \/ c[f] = NoChain)

Gone(c) == \A f \in Fams : c[f] = NoChain

ChainOK ==
  /\ chain \in [Chains -> [Fams -> [exists : BOOLEAN, rules : 0 .. Rules, jumps : 0 .. 1]]]
  /\ \A g \in Chains :
       /\ \A f \in Fams : Fam(chain[g][f])
       /\ stage = g => IF mode = "install" THEN Installing(chain[g]) ELSE Removing(chain[g])
       /\ stage # g /\ g \in guards => \A f \in Fams : chain[g][f] = FullChain
       /\ stage # g => Wiped(chain[g], 1, ~botched, ~split)
  /\ stage # "ks" /\ outcome = "refused" /\ ~botched => Refused(chain["ks"])
  /\ stage # "ks" /\ outcome \in Graceful /\ ~botched /\ Wanted(cfg).ks /\ "ks" \notin guards =>
       Gone(chain["ks"])

-----------------------------------------------------------------------------
(* resolv.conf *)

InstallFiles == Write("backup") \o Write("resolv")
EmptyFiles   == Write("nothing") \o Write("resolv")
RemoveFiles  == Write("resolv") \o <<Op("unlink", "backup")>>

Safe == backup = "original" \/ (backup = "absent" /\ resolv = "original")

FilesInstalling ==
  \E i \in 1 .. 5 :
    /\ todo = Rest(InstallFiles, i) \/ (torn /\ todo = Rest(EmptyFiles, i))
    /\ i = 1 => backup = "absent"
    /\ i = 2 => backup = "empty"
    /\ i > 2 => backup # "absent"
    /\ ~torn => IF i < 3 THEN resolv = "original" ELSE backup = "original"

FilesRemoving ==
  \E i \in 1 .. 4 :
    /\ todo = Rest(RemoveFiles, i)
    /\ i < 4 => backup # "absent" /\ (torn \/ backup = "original")
    /\ i = 3 => torn \/ resolv = "original"
    /\ i = 4 /\ ~torn => Safe /\ (faults = 0 => backup = "absent")

FilesOK ==
  /\ resolv \in File /\ backup \in File \cup {"absent"}
  /\ stage = "resolv" => CASE mode = "install" -> FilesInstalling
                           [] mode = "undo"    -> todo = <<>> /\ faults > 0 /\ (torn \/ Safe)
                           [] mode = "remove"  -> FilesRemoving
  /\ stage # "resolv" => /\ torn \/ Safe
                         /\ "resolv" \in guards => backup # "absent"
  /\ stage # "resolv" /\ outcome \in Graceful /\ faults = 0 /\ Wanted(cfg).resolv /\ ~torn
       /\ "resolv" \notin guards => resolv = "original" /\ backup = "absent"

-----------------------------------------------------------------------------
(* Routes *)

Bypasses == {"subnet", "default", "from"}
RouteOps == [verb : {"add", "del"}, arg : Main] \cup [verb : {"bypass", "unbypass"}, arg : Bypasses]
RouteDrops == [verb : {"del"}, arg : Main] \cup [verb : {"unbypass"}, arg : Bypasses]

(* Drop for RouteGuard, where "lan" was added and where it was there. *)
DropRoutes(l) ==
  IF l THEN <<Op("unbypass", "default"), Op("del", "default"), Op("del", "lan"), Op("del", "server")>>
  ELSE <<Op("unbypass", "default"), Op("del", "default"), Op("del", "server")>>

(* The main table holds what was there before the first start and what     *)
(* this process added. *)
Mine(routes) == main = orig \cup routes /\ orig \cap routes = {}

(* Before the i-th operation of InstallRoutes. *)
Routed(i) ==
  /\ i = 1 => added = <<>> /\ "default" \notin main
  /\ i > 1 => /\ Mine(Range(added)) /\ "server" \in Range(added)
              /\ i > 2 => "lan" \in main
              /\ "default" \in main <=> i > 3

(* Before the i-th operation of the drop. *)
Unrouted(l, i) ==
  LET lan == IF l THEN {"lan"} ELSE {}
  IN  /\ l <=> "lan" \notin orig
      /\ Mine(CASE i < 3            -> {"server", "default"} \cup lan
                [] i = 3            -> {"server"} \cup lan
                [] i = 4 /\ l       -> {"server"}
                [] i = 4 /\ ~l      -> {}
                [] i = 5            -> {})

RoutesOK ==
  /\ main \subseteq Main /\ bypass \subseteq Bypasses /\ added \in Seq(Main)
  /\ stage = "route" => todo \in Seq(IF mode = "install" THEN RouteOps ELSE RouteDrops)
  /\ faults = 0 =>
       /\ orig \subseteq main /\ ("lan" \in main \ orig => "server" \in main)
       /\ stage = "route" =>
            CASE mode = "install" -> \E i \in 1 .. 10 : todo = Rest(InstallRoutes, i) /\ Routed(i)
              [] mode = "undo"    -> todo = <<>> /\ added = <<>> /\ "default" \notin main
              [] mode = "remove"  -> \E l \in BOOLEAN : \E i \in 1 .. IF l THEN 5 ELSE 4 :
                                       todo = Rest(DropRoutes(l), i) /\ Unrouted(l, i)
       /\ stage # "route" /\ "route" \in guards => Routed(10)
       /\ stage # "route" /\ "route" \notin guards =>
            /\ "default" \notin main
            /\ outcome # "crashed" /\ added # <<>> => main = orig
       /\ up = "starting" /\ "route" \in stages => stage = "none" /\ added = <<>>

-----------------------------------------------------------------------------
(* NAT *)

NatOps == [verb : {"natadd4", "natadd6", "natdel4", "natdel6"}, arg : NatSpecs]
NatDrops == [verb : {"natdel4", "natdel6"}, arg : NatSpecs]

AllNatted == <<"masquerade", "forward", "masquerade", "forward">>

DropNat ==
  <<Op("natdel4", "masquerade"), Op("natdel6", "masquerade"),
    Op("natdel4", "forward"), Op("natdel6", "forward"),
    Op("natdel4", "masquerade"), Op("natdel6", "masquerade"),
    Op("natdel4", "forward"), Op("natdel6", "forward")>>

(* Before the i-th operation of InstallNat. *)
Natted(i) ==
  /\ natted = CASE i < 3 -> <<>>
                [] i \in {3, 4} -> <<"masquerade">>
                [] i = 5 -> <<"masquerade", "forward">>
                [] i = 6 -> <<"masquerade", "forward", "masquerade">>
                [] i = 7 -> AllNatted
  /\ i = 2 => nat["v4"]["masquerade"] = 0
  /\ i = 4 => nat["v4"]["forward"] = 0
  /\ i < 6 => nat["v6"]["masquerade"] < starts
  /\ i < 7 => nat["v6"]["forward"] < starts

(* Before the i-th operation of the drop: no more copies than deletions    *)
(* to come. *)
Unnatted(i) ==
  /\ nat["v4"]["masquerade"] <= IF i <= 1 THEN 2 ELSE IF i <= 5 THEN 1 ELSE 0
  /\ nat["v6"]["masquerade"] <= IF i <= 2 THEN 2 ELSE IF i <= 6 THEN 1 ELSE 0
  /\ nat["v4"]["forward"] <= IF i <= 3 THEN 2 ELSE IF i <= 7 THEN 1 ELSE 0
  /\ nat["v6"]["forward"] <= IF i <= 4 THEN 2 ELSE IF i <= 8 THEN 1 ELSE 0

NatOK ==
  /\ nat \in [Fams -> [NatSpecs -> Nat]] /\ natted \in Seq(NatSpecs)
  /\ stage = "nat" => todo \in Seq(IF mode = "install" THEN NatOps ELSE NatDrops)
  /\ faults = 0 =>
       /\ \A r \in NatSpecs : nat["v4"][r] <= 1 /\ nat["v6"][r] <= starts
       /\ up = "starting" /\ "nat" \in stages =>
            natted = <<>> /\ \A r \in NatSpecs : nat["v6"][r] < starts
       /\ stage = "nat" =>
            CASE mode = "install" -> \E i \in 1 .. 7 : todo = Rest(InstallNat, i) /\ Natted(i)
              [] mode = "undo"    -> FALSE
              [] mode = "remove"  -> \E i \in 1 .. 9 : todo = Rest(DropNat, i)
                                                        /\ (starts <= 2 => Unnatted(i))
       /\ stage # "nat" /\ "nat" \in guards => natted = AllNatted
       /\ stage # "nat" /\ outcome \in Graceful /\ Wanted(cfg).nat /\ "nat" \notin guards
            /\ starts <= 2 => \A f \in Fams, r \in NatSpecs : nat[f][r] = 0

HInv == ProcessTyped /\ ControlOK /\ ChainOK /\ FilesOK /\ RoutesOK /\ NatOK

-----------------------------------------------------------------------------
(* Programs *)

LEMMA RestSteps ==
  ASSUME NEW S, NEW p \in Seq(S), NEW i \in 1 .. Len(p)
  PROVE  /\ Rest(p, i) # <<>> /\ Head(Rest(p, i)) = p[i]
         /\ Tail(Rest(p, i)) = Rest(p, i + 1)
<1>1. Rest(p, i) \in Seq(S) /\ Len(Rest(p, i)) = Len(p) - i + 1
      /\ \A j \in 1 .. Len(p) - i + 1 : Rest(p, i)[j] = p[i + j - 1]
  BY SubSeqProperties DEF Rest
<1>2. Rest(p, i + 1) \in Seq(S) /\ Len(Rest(p, i + 1)) = Len(p) - i
      /\ \A j \in 1 .. Len(p) - i : Rest(p, i + 1)[j] = p[i + j]
  BY SubSeqProperties DEF Rest
<1> DEFINE r == Rest(p, i)
           q == Rest(p, i + 1)
<1> HIDE DEF r, q
<1>3. r # <<>> /\ Head(r) = p[i]
  BY <1>1 DEF r
<1>4. Tail(r) = q
  <2>1. Tail(r) \in Seq(S) /\ Len(Tail(r)) = Len(r) - 1
        /\ \A j \in 1 .. Len(Tail(r)) : Tail(r)[j] = r[j + 1]
    BY <1>1, <1>3, HeadTailProperties DEF r
  <2>2. Len(Tail(r)) = Len(q) /\ \A j \in 1 .. Len(Tail(r)) : Tail(r)[j] = q[j]
    <3>1. Len(r) = Len(p) - i + 1 /\ Len(q) = Len(p) - i /\ Len(p) \in Nat
      BY <1>1, <1>2 DEF r, q
    <3>2. ASSUME NEW j \in 1 .. Len(Tail(r)) PROVE Tail(r)[j] = q[j]
      <4>1. j \in 1 .. Len(p) - i /\ j + 1 \in 1 .. Len(p) - i + 1 /\ i + (j + 1) - 1 = i + j
        BY <2>1, <3>1
      <4>2. r[j + 1] = p[i + (j + 1) - 1] /\ q[j] = p[i + j]
        BY <1>1, <1>2, <4>1 DEF r, q
      <4> QED
        BY <2>1, <4>1, <4>2
    <3> QED
      BY <2>1, <3>1, <3>2
  <2> QED
    BY <1>2, <2>1, <2>2, SeqEqual DEF q
<1> QED
  BY <1>3, <1>4 DEF r, q

LEMMA RestEnds ==
  ASSUME NEW S, NEW p \in Seq(S)
  PROVE  /\ Rest(p, 1) = p
         /\ Rest(p, Len(p) + 1) = <<>>
         /\ \A i \in 1 .. Len(p) + 1 : Rest(p, i) = <<>> => i = Len(p) + 1
         /\ \A i \in 1 .. Len(p) + 1 : Rest(p, i) \in Seq(S)
<1>1. ASSUME NEW i \in 1 .. Len(p) + 1
      PROVE  /\ Rest(p, i) \in Seq(S) /\ Len(Rest(p, i)) = Len(p) - i + 1
             /\ \A j \in 1 .. Len(p) - i + 1 : Rest(p, i)[j] = p[i + j - 1]
  BY SubSeqProperties DEF Rest
<1>2. Rest(p, 1) = p
  <2> DEFINE r == Rest(p, 1)
  <2>1. r \in Seq(S) /\ Len(r) = Len(p) /\ \A j \in 1 .. Len(r) : r[j] = p[j]
    BY <1>1
  <2> HIDE DEF r
  <2> QED
    BY <2>1, SeqEqual DEF r
<1>3. Rest(p, Len(p) + 1) = <<>>
  <2>1. Len(p) + 1 \in 1 .. Len(p) + 1
    OBVIOUS
  <2>2. Rest(p, Len(p) + 1) \in Seq(S) /\ Len(Rest(p, Len(p) + 1)) = 0
    BY <1>1, <2>1
  <2> QED
    BY <2>2, EmptySeq
<1>4. \A i \in 1 .. Len(p) + 1 : Rest(p, i) = <<>> => i = Len(p) + 1
  BY <1>1
<1> QED
  BY <1>1, <1>2, <1>3, <1>4

LEMMA HalfSteps ==
  ASSUME NEW p \in Seq(OpType), NEW i \in 1 .. Len(p)
  PROVE  /\ Half(p, i) \in Seq(OpType) /\ Half(p, i) # <<>>
         /\ Head(Half(p, i)) = Op(p[i].verb, "v6")
         /\ Tail(Half(p, i)) = Rest(p, i + 1)
<1> DEFINE o == Op(p[i].verb, "v6")
           r == Rest(p, i + 1)
<1>1. r \in Seq(OpType)
  BY RestEnds
<1>2. o \in OpType
  <2>1. p[i] \in OpType
    OBVIOUS
  <2> QED
    BY <2>1 DEF OpType, Op, Fams
<1> HIDE DEF o, r
<1>3. <<o>> \in Seq(OpType) /\ Len(<<o>>) = 1 /\ <<o>>[1] = o
  BY <1>2
<1> DEFINE w == <<o>> \o r
<1>4. /\ w \in Seq(OpType) /\ Len(w) = 1 + Len(r)
      /\ \A j \in 1 .. 1 + Len(r) : w[j] = IF j <= 1 THEN o ELSE r[j - 1]
  BY <1>1, <1>3, ConcatProperties
<1> HIDE DEF w
<1>5. w # <<>> /\ Head(w) = o
  BY <1>1, <1>4
<1>6. Tail(w) = r
  <2>1. Tail(w) \in Seq(OpType) /\ Len(Tail(w)) = Len(r)
        /\ \A j \in 1 .. Len(Tail(w)) : Tail(w)[j] = r[j]
    BY <1>1, <1>4, <1>5
  <2> QED
    BY <1>1, <2>1, SeqEqual
<1>7. Half(p, i) = w
  BY DEF Half, w, o, r
<1> QED
  BY <1>4, <1>5, <1>6, <1>7 DEF o, r

LEMMA Paste ==
  ASSUME NEW S, NEW s \in Seq(S), NEW t \in Seq(S), NEW w \in Seq(S),
         Len(w) = Len(s) + Len(t),
         \A i \in 1 .. Len(w) : w[i] = IF i <= Len(s) THEN s[i] ELSE t[i - Len(s)]
  PROVE  s \o t = w
<1> DEFINE x == s \o t
<1>1. /\ x \in Seq(S) /\ Len(x) = Len(s) + Len(t)
      /\ \A i \in 1 .. Len(s) + Len(t) : x[i] = IF i <= Len(s) THEN s[i] ELSE t[i - Len(s)]
  BY ConcatProperties
<1> HIDE DEF x
<1>2. x = w
  BY <1>1, SeqEqual
<1> QED
  BY <1>2 DEF x

LEMMA PasteTwoOne ==
  ASSUME NEW a, NEW b, NEW c
  PROVE  <<a, b>> \o <<c>> = <<a, b, c>>
<1> DEFINE S == {a, b, c}
           s == <<a, b>>
           t == <<c>>
           w == <<a, b, c>>
<1>1. s \in Seq(S) /\ t \in Seq(S) /\ w \in Seq(S) /\ Len(s) = 2 /\ Len(t) = 1 /\ Len(w) = 3
  OBVIOUS
<1>2. \A i \in 1 .. 3 : w[i] = IF i <= 2 THEN s[i] ELSE t[i - 2]
  OBVIOUS
<1> HIDE DEF S, s, t, w
<1>3. /\ Len(w) = Len(s) + Len(t)
      /\ \A i \in 1 .. Len(w) : w[i] = IF i <= Len(s) THEN s[i] ELSE t[i - Len(s)]
  BY <1>1, <1>2
<1>4. s \o t = w
  BY <1>1, <1>3, Paste
<1> QED
  BY <1>4 DEF s, t, w

LEMMA PasteTwoTwo ==
  ASSUME NEW a, NEW b, NEW c, NEW d
  PROVE  <<a, b>> \o <<c, d>> = <<a, b, c, d>>
<1> DEFINE S == {a, b, c, d}
           s == <<a, b>>
           t == <<c, d>>
           w == <<a, b, c, d>>
<1>1. s \in Seq(S) /\ t \in Seq(S) /\ w \in Seq(S) /\ Len(s) = 2 /\ Len(t) = 2 /\ Len(w) = 4
  OBVIOUS
<1>2. \A i \in 1 .. 4 : w[i] = IF i <= 2 THEN s[i] ELSE t[i - 2]
  OBVIOUS
<1> HIDE DEF S, s, t, w
<1>3. /\ Len(w) = Len(s) + Len(t)
      /\ \A i \in 1 .. Len(w) : w[i] = IF i <= Len(s) THEN s[i] ELSE t[i - Len(s)]
  BY <1>1, <1>2
<1>4. s \o t = w
  BY <1>1, <1>3, Paste
<1> QED
  BY <1>4 DEF s, t, w

LEMMA PasteOneTwo ==
  ASSUME NEW a, NEW b, NEW c
  PROVE  <<a>> \o <<b, c>> = <<a, b, c>>
<1> DEFINE S == {a, b, c}
           s == <<a>>
           t == <<b, c>>
           w == <<a, b, c>>
<1>1. s \in Seq(S) /\ t \in Seq(S) /\ w \in Seq(S) /\ Len(s) = 1 /\ Len(t) = 2 /\ Len(w) = 3
  OBVIOUS
<1>2. \A i \in 1 .. 3 : w[i] = IF i <= 1 THEN s[i] ELSE t[i - 1]
  OBVIOUS
<1> HIDE DEF S, s, t, w
<1>3. /\ Len(w) = Len(s) + Len(t)
      /\ \A i \in 1 .. Len(w) : w[i] = IF i <= Len(s) THEN s[i] ELSE t[i - Len(s)]
  BY <1>1, <1>2
<1>4. s \o t = w
  BY <1>1, <1>3, Paste
<1> QED
  BY <1>4 DEF s, t, w

LEMMA PasteOneThree ==
  ASSUME NEW a, NEW b, NEW c, NEW d
  PROVE  <<a>> \o <<b, c, d>> = <<a, b, c, d>>
<1> DEFINE S == {a, b, c, d}
           s == <<a>>
           t == <<b, c, d>>
           w == <<a, b, c, d>>
<1>1. s \in Seq(S) /\ t \in Seq(S) /\ w \in Seq(S) /\ Len(s) = 1 /\ Len(t) = 3 /\ Len(w) = 4
  OBVIOUS
<1>2. \A i \in 1 .. 4 : w[i] = IF i <= 1 THEN s[i] ELSE t[i - 1]
  OBVIOUS
<1> HIDE DEF S, s, t, w
<1>3. /\ Len(w) = Len(s) + Len(t)
      /\ \A i \in 1 .. Len(w) : w[i] = IF i <= Len(s) THEN s[i] ELSE t[i - Len(s)]
  BY <1>1, <1>2
<1>4. s \o t = w
  BY <1>1, <1>3, Paste
<1> QED
  BY <1>4 DEF s, t, w

LEMMA FunctionIsSeq ==
  ASSUME NEW n \in Nat, NEW S, NEW f \in [1 .. n -> S]
  PROVE  f \in Seq(S) /\ Len(f) = n
OBVIOUS

LEMMA RemoveProgram ==
  /\ RemoveOps \in Seq(OpType) /\ Len(RemoveOps) = 3
  /\ RemoveOps[1] = Op("unjump", "both") /\ RemoveOps[2] = Op("flush", "both")
  /\ RemoveOps[3] = Op("delete", "both")
BY DEF RemoveOps, Op, OpType

LEMMA InstallProgramOps ==
  /\ InstallOps \in Seq(OpType) /\ Len(InstallOps) = Final - 1
  /\ InstallOps[1] = Op("unjump", "both") /\ InstallOps[2] = Op("flush", "both")
  /\ InstallOps[3] = Op("delete", "both") /\ InstallOps[4] = Op("create", "both")
  /\ \A i \in 5 .. 4 + 2 * Rules :
       InstallOps[i] = Op("append", IF i <= 4 + Rules THEN "v4" ELSE "v6")
  /\ InstallOps[Final - 1] = Op("jump", "both")
<1> USE HostGuardsAssumption
<1> DEFINE a == RemoveOps
           b == <<Op("create", "both")>>
           c == AppendRules
           d == <<Op("jump", "both")>>
<1>1. a \in Seq(OpType) /\ Len(a) = 3
  BY RemoveProgram
<1>2. b \in Seq(OpType) /\ Len(b) = 1 /\ b[1] = Op("create", "both")
  BY DEF OpType, Op
<1>3. /\ c \in Seq(OpType) /\ Len(c) = 2 * Rules
      /\ \A i \in 1 .. 2 * Rules : c[i] = Op("append", IF i <= Rules THEN "v4" ELSE "v6")
  <2>1. \A i \in 1 .. 2 * Rules : Op("append", IF i <= Rules THEN "v4" ELSE "v6") \in OpType
    BY DEF OpType, Op, Fams
  <2>2. \A i \in 1 .. 2 * Rules : AppendRules[i] = Op("append", IF i <= Rules THEN "v4" ELSE "v6")
    BY DEF AppendRules
  <2>3. AppendRules \in [1 .. 2 * Rules -> OpType]
    BY <2>1 DEF AppendRules
  <2>4. 2 * Rules \in Nat
    OBVIOUS
  <2>5. AppendRules \in Seq(OpType) /\ Len(AppendRules) = 2 * Rules
    BY <2>3, <2>4
  <2> QED
    BY <2>2, <2>5
<1>4. d \in Seq(OpType) /\ Len(d) = 1 /\ d[1] = Op("jump", "both")
  BY DEF OpType, Op
<1> HIDE DEF a, b, c, d
<1> DEFINE ab == a \o b
<1>5. /\ ab \in Seq(OpType) /\ Len(ab) = 4
      /\ \A i \in 1 .. 4 : ab[i] = IF i <= 3 THEN a[i] ELSE b[i - 3]
  <2>1. /\ ab \in Seq(OpType) /\ Len(ab) = Len(a) + Len(b)
        /\ \A i \in 1 .. Len(a) + Len(b) : ab[i] = IF i <= Len(a) THEN a[i] ELSE b[i - Len(a)]
    BY <1>1, <1>2, ConcatProperties
  <2> HIDE DEF ab
  <2> QED
    BY <1>1, <1>2, <2>1
<1> HIDE DEF ab
<1> DEFINE abc == ab \o c
<1>6. /\ abc \in Seq(OpType) /\ Len(abc) = 4 + 2 * Rules
      /\ \A i \in 1 .. 4 + 2 * Rules : abc[i] = IF i <= 4 THEN ab[i] ELSE c[i - 4]
  <2>1. /\ abc \in Seq(OpType) /\ Len(abc) = Len(ab) + Len(c)
        /\ \A i \in 1 .. Len(ab) + Len(c) : abc[i] = IF i <= Len(ab) THEN ab[i] ELSE c[i - Len(ab)]
    BY <1>3, <1>5, ConcatProperties
  <2> HIDE DEF abc
  <2> QED
    BY <1>3, <1>5, <2>1
<1> HIDE DEF abc
<1> DEFINE s == abc \o d
<1>7. /\ s \in Seq(OpType) /\ Len(s) = 5 + 2 * Rules
      /\ \A i \in 1 .. 5 + 2 * Rules : s[i] = IF i <= 4 + 2 * Rules THEN abc[i] ELSE d[i - (4 + 2 * Rules)]
  <2>1. /\ s \in Seq(OpType) /\ Len(s) = Len(abc) + Len(d)
        /\ \A i \in 1 .. Len(abc) + Len(d) : s[i] = IF i <= Len(abc) THEN abc[i] ELSE d[i - Len(abc)]
    BY <1>4, <1>6, ConcatProperties
  <2> HIDE DEF s
  <2> QED
    BY <1>4, <1>6, <2>1
<1> HIDE DEF s
<1>8. InstallOps = s
  BY DEF InstallOps, s, abc, ab, a, b, c, d
<1>9. /\ s[1] = a[1] /\ s[2] = a[2] /\ s[3] = a[3] /\ s[4] = b[1]
      /\ \A i \in 5 .. 4 + 2 * Rules : s[i] = c[i - 4]
      /\ s[5 + 2 * Rules] = d[1]
  BY <1>5, <1>6, <1>7
<1>10. \A i \in 5 .. 4 + 2 * Rules : s[i] = Op("append", IF i <= 4 + Rules THEN "v4" ELSE "v6")
  <2> SUFFICES ASSUME NEW i \in 5 .. 4 + 2 * Rules
               PROVE  s[i] = Op("append", IF i <= 4 + Rules THEN "v4" ELSE "v6")
    OBVIOUS
  <2>1. i - 4 \in 1 .. 2 * Rules /\ (i - 4 <= Rules <=> i <= 4 + Rules)
    OBVIOUS
  <2> QED
    BY <1>3, <1>9, <2>1
<1> QED
  BY <1>2, <1>4, <1>7, <1>8, <1>9, <1>10, RemoveProgram DEF Final, a

LEMMA FilePrograms ==
  /\ InstallFiles = <<Op("truncate", "backup"), Op("fill", "backup"),
                      Op("truncate", "resolv"), Op("fill", "resolv")>>
  /\ EmptyFiles = <<Op("truncate", "nothing"), Op("fill", "nothing"),
                    Op("truncate", "resolv"), Op("fill", "resolv")>>
  /\ RemoveFiles = <<Op("truncate", "resolv"), Op("fill", "resolv"), Op("unlink", "backup")>>
  /\ InstallFiles \in Seq(OpType) /\ Len(InstallFiles) = 4
  /\ EmptyFiles \in Seq(OpType) /\ Len(EmptyFiles) = 4
  /\ RemoveFiles \in Seq(OpType) /\ Len(RemoveFiles) = 3
<1>1. InstallFiles = <<Op("truncate", "backup"), Op("fill", "backup"),
                      Op("truncate", "resolv"), Op("fill", "resolv")>>
  BY PasteTwoTwo DEF InstallFiles, Write
<1>2. EmptyFiles = <<Op("truncate", "nothing"), Op("fill", "nothing"),
                    Op("truncate", "resolv"), Op("fill", "resolv")>>
  BY PasteTwoTwo DEF EmptyFiles, Write
<1>3. RemoveFiles = <<Op("truncate", "resolv"), Op("fill", "resolv"), Op("unlink", "backup")>>
  BY PasteTwoOne DEF RemoveFiles, Write
<1>4. InstallFiles \in Seq(OpType) /\ Len(InstallFiles) = 4
  BY <1>1 DEF OpType, Op
<1>5. EmptyFiles \in Seq(OpType) /\ Len(EmptyFiles) = 4
  BY <1>2 DEF OpType, Op
<1>6. RemoveFiles \in Seq(OpType) /\ Len(RemoveFiles) = 3
  BY <1>3 DEF OpType, Op
<1> QED
  BY <1>1, <1>2, <1>3, <1>4, <1>5, <1>6

LEMMA ResolvPrograms ==
  /\ InstallResolv = IF backup = "absent" THEN InstallFiles ELSE Rest(InstallFiles, 3)
  /\ RemoveResolv = IF backup = "absent" THEN Rest(RemoveFiles, 4) ELSE RemoveFiles
<1>1. InstallResolv = IF backup = "absent" THEN InstallFiles ELSE Write("resolv")
  <2>1. <<>> \o Write("resolv") = Write("resolv")
    BY DEF Write
  <2> QED
    BY <2>1 DEF InstallResolv, InstallFiles
<1>2. Write("resolv") = Rest(InstallFiles, 3)
  <2>1. /\ InstallFiles \in Seq(OpType) /\ Len(InstallFiles) = 4
        /\ InstallFiles[3] = Op("truncate", "resolv") /\ InstallFiles[4] = Op("fill", "resolv")
    BY FilePrograms
  <2>2. /\ Rest(InstallFiles, 3) \in Seq(OpType) /\ Len(Rest(InstallFiles, 3)) = 2
        /\ \A j \in 1 .. 2 : Rest(InstallFiles, 3)[j] = InstallFiles[3 + j - 1]
    BY <2>1, SubSeqProperties DEF Rest
  <2>3. /\ Write("resolv") \in Seq(OpType) /\ Len(Write("resolv")) = 2
        /\ Write("resolv")[1] = Op("truncate", "resolv") /\ Write("resolv")[2] = Op("fill", "resolv")
    BY DEF Write, OpType, Op
  <2>4. \A j \in 1 .. Len(Write("resolv")) : Write("resolv")[j] = Rest(InstallFiles, 3)[j]
    <3>1. Rest(InstallFiles, 3)[1] = InstallFiles[3] /\ Rest(InstallFiles, 3)[2] = InstallFiles[4]
      BY <2>2
    <3> QED
      BY <2>1, <2>3, <3>1
  <2> QED
    BY <2>2, <2>3, <2>4, SeqEqual
<1>3. Rest(RemoveFiles, 4) = <<>>
  <2>1. Rest(RemoveFiles, Len(RemoveFiles) + 1) = <<>>
    BY FilePrograms, RestEnds
  <2> QED
    BY <2>1, FilePrograms
<1> QED
  BY <1>1, <1>2, <1>3 DEF RemoveResolv, RemoveFiles

LEMMA RoutePrograms ==
  /\ InstallRoutes \in Seq(RouteOps) /\ Len(InstallRoutes) = 9
  /\ InstallRoutes[1] = Op("add", "server") /\ InstallRoutes[2] = Op("add", "lan")
  /\ InstallRoutes[3] = Op("add", "default")
  /\ \A i \in 4 .. 9 : InstallRoutes[i].verb \in {"bypass", "unbypass"}
  /\ RemoveRoutes = DropRoutes("lan" \in Range(added))
  /\ \A l \in BOOLEAN : DropRoutes(l) \in Seq(RouteDrops) /\ Len(DropRoutes(l)) = IF l THEN 4 ELSE 3
<1> DEFINE a == [i \in DOMAIN RouteAllPlan |-> Op("add", RouteAllPlan[i])]
           b == InstallBypass
<1>1. a \in Seq(RouteOps) /\ Len(a) = 3 /\ a[1] = Op("add", "server") /\ a[2] = Op("add", "lan")
      /\ a[3] = Op("add", "default")
  <2>1. DOMAIN RouteAllPlan = 1 .. 3 /\ \A i \in 1 .. 3 : RouteAllPlan[i] \in Main
    BY DEF RouteAllPlan, Main
  <2>2. a = [i \in 1 .. 3 |-> Op("add", RouteAllPlan[i])]
    BY <2>1
  <2>3. a \in [1 .. 3 -> RouteOps]
    BY <2>1, <2>2 DEF RouteOps, Op
  <2>4. a[1] = Op("add", "server") /\ a[2] = Op("add", "lan") /\ a[3] = Op("add", "default")
    BY <2>2 DEF RouteAllPlan
  <2> HIDE DEF a
  <2>5. 3 \in Nat
    OBVIOUS
  <2>6. a \in Seq(RouteOps) /\ Len(a) = 3
    BY <2>3, <2>5, FunctionIsSeq
  <2> QED
    BY <2>4, <2>6
<1>2. b \in Seq(RouteOps) /\ Len(b) = 6 /\ \A i \in 1 .. 6 : b[i].verb \in {"bypass", "unbypass"}
  <2>1. Len(BypassPlan) = 3 /\ \A i \in 1 .. 3 : BypassPlan[i] \in Bypasses
    BY DEF BypassPlan, Bypasses
  <2>2. \A i \in 1 .. 6 : (i + 1) \div 2 \in 1 .. 3
    OBVIOUS
  <2>3. b = [i \in 1 .. 6 |-> Op(IF i % 2 = 1 THEN "unbypass" ELSE "bypass", BypassPlan[(i + 1) \div 2])]
    BY <2>1 DEF InstallBypass
  <2>4. b \in [1 .. 6 -> RouteOps] /\ \A i \in 1 .. 6 : b[i].verb \in {"bypass", "unbypass"}
    BY <2>1, <2>2, <2>3 DEF RouteOps, Op
  <2> HIDE DEF b
  <2>5. 6 \in Nat
    OBVIOUS
  <2>6. b \in Seq(RouteOps) /\ Len(b) = 6
    BY <2>4, <2>5, FunctionIsSeq
  <2> QED
    BY <2>4, <2>6
<1> HIDE DEF a, b
<1>3. InstallRoutes = a \o b
  BY DEF InstallRoutes, a, b
<1> DEFINE s == a \o b
<1>4. /\ s \in Seq(RouteOps) /\ Len(s) = Len(a) + Len(b)
      /\ \A i \in 1 .. Len(a) + Len(b) : s[i] = IF i <= Len(a) THEN a[i] ELSE b[i - Len(a)]
  BY <1>1, <1>2, ConcatProperties
<1> HIDE DEF s
<1>5. /\ Len(s) = 9 /\ s[1] = a[1] /\ s[2] = a[2] /\ s[3] = a[3]
      /\ \A i \in 4 .. 9 : s[i] = b[i - 3]
  BY <1>1, <1>2, <1>4
<1>6. \A i \in 4 .. 9 : s[i].verb \in {"bypass", "unbypass"}
  <2>1. \A i \in 4 .. 9 : i - 3 \in 1 .. 6
    OBVIOUS
  <2> QED
    BY <1>2, <1>5, <2>1
<1>7. \A l \in BOOLEAN : DropRoutes(l) \in Seq(RouteDrops) /\ Len(DropRoutes(l)) = IF l THEN 4 ELSE 3
  <2>1. /\ Op("unbypass", "default") \in RouteDrops
        /\ \A r \in Main : Op("del", r) \in RouteDrops
    BY DEF RouteDrops, Op, Main, Bypasses
  <2>2. DropRoutes(TRUE) \in Seq(RouteDrops) /\ Len(DropRoutes(TRUE)) = 4
    BY <2>1 DEF DropRoutes, Main
  <2>3. DropRoutes(FALSE) \in Seq(RouteDrops) /\ Len(DropRoutes(FALSE)) = 3
    BY <2>1 DEF DropRoutes, Main
  <2> QED
    BY <2>2, <2>3
<1>8. RemoveRoutes = DropRoutes("lan" \in Range(added))
  <2>1. RemoveBypass = <<Op("unbypass", "default")>>
    <3>1. BypassPlan[1] = "subnet" /\ BypassPlan[2] = "default" /\ BypassPlan[3] = "from"
      BY DEF BypassPlan
    <3>2. Recorded(BypassPlan[1]) = <<>> /\ Recorded(BypassPlan[2]) = <<>> /\ Recorded(BypassPlan[3]) = <<>>
      BY <3>1 DEF Recorded
    <3>3. <<>> \o <<>> \o <<>> \o <<Op("unbypass", "default")>> = <<Op("unbypass", "default")>>
      OBVIOUS
    <3> QED
      BY <3>2, <3>3 DEF RemoveBypass
  <2>2. /\ Dels(<<"default", "lan", "server">>) = <<Op("del", "default"), Op("del", "lan"), Op("del", "server")>>
        /\ Dels(<<"default", "server">>) = <<Op("del", "default"), Op("del", "server")>>
    BY DEF Dels
  <2>3. CASE "lan" \in Range(added)
    BY <2>1, <2>2, <2>3, PasteOneThree DEF RemoveRoutes, DropRoutes
  <2>4. CASE "lan" \notin Range(added)
    BY <2>1, <2>2, <2>4, PasteOneTwo DEF RemoveRoutes, DropRoutes
  <2> QED
    BY <2>3, <2>4
<1> QED
  BY <1>1, <1>3, <1>4, <1>5, <1>6, <1>7, <1>8 DEF s

LEMMA NatPrograms ==
  /\ InstallNat \in Seq(NatOps) /\ Len(InstallNat) = 6
  /\ DropNat \in Seq(NatDrops) /\ Len(DropNat) = 8
  /\ natted \in Seq(NatSpecs) => RemoveNat \in Seq(NatDrops)
  /\ natted = AllNatted => RemoveNat = DropNat
  /\ natted = <<>> => RemoveNat = <<>>
<1>1. InstallNat \in Seq(NatOps) /\ Len(InstallNat) = 6 /\ DropNat \in Seq(NatDrops) /\ Len(DropNat) = 8
  BY DEF InstallNat, NatOps, DropNat, NatDrops, NatSpecs, Op
<1>2. ASSUME natted \in Seq(NatSpecs) PROVE RemoveNat \in Seq(NatDrops)
  <2>1. 2 * Len(natted) \in Nat /\ \A i \in 1 .. 2 * Len(natted) : (i + 1) \div 2 \in 1 .. Len(natted)
    BY <1>2
  <2>2. \A j \in 1 .. Len(natted) : natted[j] \in NatSpecs
    BY <1>2
  <2>3. RemoveNat \in [1 .. 2 * Len(natted) -> NatDrops]
    BY <2>1, <2>2 DEF RemoveNat, NatDrops, Op
  <2> QED
    BY <2>1, <2>3
<1>3. ASSUME natted = AllNatted PROVE RemoveNat = DropNat
  <2>1. /\ Len(natted) = 4 /\ natted[1] = "masquerade" /\ natted[2] = "forward"
        /\ natted[3] = "masquerade" /\ natted[4] = "forward" /\ natted \in Seq(NatSpecs)
    BY <1>3 DEF AllNatted, NatSpecs
  <2>2. RemoveNat = [i \in 1 .. 8 |-> Op(IF i % 2 = 1 THEN "natdel4" ELSE "natdel6", natted[(i + 1) \div 2])]
    BY <2>1 DEF RemoveNat
  <2>3. RemoveNat \in Seq(NatDrops) /\ Len(RemoveNat) = 8
    BY <1>2, <2>1, <2>2
  <2>4. \A i \in 1 .. 8 : RemoveNat[i] = DropNat[i]
    BY <2>1, <2>2 DEF DropNat
  <2> QED
    BY <1>1, <2>3, <2>4, SeqEqual
<1>4. natted = <<>> => RemoveNat = <<>>
  BY DEF RemoveNat
<1> QED
  BY <1>1, <1>2, <1>3, <1>4

LEMMA SeqMonotone ==
  ASSUME NEW S, NEW T, S \subseteq T, NEW s \in Seq(S)
  PROVE  s \in Seq(T)
OBVIOUS

LEMMA OpKinds ==
  /\ RouteDrops \subseteq RouteOps /\ RouteOps \subseteq OpType
  /\ NatDrops \subseteq NatOps /\ NatOps \subseteq OpType
BY DEF RouteDrops, RouteOps, NatDrops, NatOps, OpType, Bypasses, Main, NatSpecs, Fams

LEMMA ProgramsTyped ==
  ASSUME NEW g \in Guards, natted \in Seq(NatSpecs)
  PROVE  InstallProgram(g) \in Seq(OpType) /\ DropProgram(g) \in Seq(OpType)
<1>1. CASE g \in Chains
  BY <1>1, InstallProgramOps, RemoveProgram DEF InstallProgram, DropProgram, Chains
<1>2. CASE g = "route"
  <2>1. InstallRoutes \in Seq(OpType) /\ RemoveRoutes \in Seq(OpType)
    <3>1. ("lan" \in Range(added)) \in BOOLEAN
      OBVIOUS
    <3>2. RemoveRoutes \in Seq(RouteDrops) /\ InstallRoutes \in Seq(RouteOps)
      BY <3>1, RoutePrograms
    <3> QED
      BY <3>2, OpKinds, SeqMonotone
  <2> QED
    BY <1>2, <2>1 DEF InstallProgram, DropProgram, Chains
<1>3. CASE g = "resolv"
  <2>1. Rest(InstallFiles, 3) \in Seq(OpType) /\ Rest(RemoveFiles, 4) \in Seq(OpType)
    <3>1. 3 \in 1 .. Len(InstallFiles) + 1 /\ 4 \in 1 .. Len(RemoveFiles) + 1
      BY FilePrograms
    <3> QED
      BY <3>1, FilePrograms, RestEnds
  <2>2. InstallResolv \in Seq(OpType) /\ RemoveResolv \in Seq(OpType)
    BY <2>1, FilePrograms, ResolvPrograms
  <2> QED
    BY <1>3, <2>2 DEF InstallProgram, DropProgram, Chains
<1>4. CASE g = "nat"
  <2>1. InstallNat \in Seq(OpType) /\ RemoveNat \in Seq(OpType)
    BY NatPrograms, OpKinds, SeqMonotone
  <2> QED
    BY <1>4, <2>1 DEF InstallProgram, DropProgram, Chains
<1> QED
  BY <1>1, <1>2, <1>3, <1>4 DEF Guards, Chains

-----------------------------------------------------------------------------
(* The process, through every step *)

(* A command works on the guard of the stage and leaves the process where  *)
(* it is. *)
Commanded ==
  /\ UNCHANGED <<procRest, starts, orig, split>>
  /\ faults' \in faults .. MaxFaults
  /\ botched' \in BOOLEAN /\ (botched => botched') /\ (botched' => botched \/ faults' > 0)
  /\ todo' \in Seq(OpType)
  /\ mode' = mode \/ (mode = "install" /\ mode' = "undo")

LEMMA CommandKeeps ==
  ASSUME ProcessTyped, ControlOK, Commanded, stage # "none", torn' \in BOOLEAN
  PROVE  ProcessTyped' /\ ControlOK'
<1>1. UNCHANGED <<up, cfg, stages, stage, guards, outcome, starts, orig, split>>
  BY DEF Commanded, procRest
<1>2. faults \in Nat /\ MaxFaults \in Nat /\ faults' \in 0 .. MaxFaults /\ (faults' = 0 => faults = 0)
  BY HostGuardsAssumption DEF ProcessTyped, Commanded
<1>3. mode' \in {"install", "undo", "remove"}
  BY DEF ProcessTyped, Commanded
<1>4. ProcessTyped'
  BY <1>1, <1>2, <1>3 DEF ProcessTyped, Commanded
<1>5. Sure' \subseteq Sure
  BY <1>2 DEF Sure
<1>6. up = "starting" => mode' \in {"install", "undo"}
  BY DEF ControlOK, Commanded
<1>7. up = "stopping" => mode' = "remove"
  BY DEF ControlOK, Commanded
<1>8. ControlOK'
  BY <1>1, <1>5, <1>6, <1>7 DEF ControlOK
<1> QED
  BY <1>4, <1>8

LEMMA DefaultWanted == \A g \in Guards : Wanted(ClientDefault)[g] \in BOOLEAN
<1> DEFINE c == ClientDefault
<1>1. /\ c.route_all = TRUE /\ c.kill_switch = FALSE /\ c.dns_leak_protection = TRUE
      /\ c.enable_nat = TRUE
  BY DEF ClientDefault
<1> HIDE DEF c
<1> DEFINE r == c.dns # {<<>>}
<1>2. r \in BOOLEAN
  OBVIOUS
<1> HIDE DEF r
<1>3. Wanted(c) = [route |-> TRUE, dns |-> TRUE, resolv |-> r, ks |-> FALSE, nat |-> TRUE]
  BY <1>1, <1>2 DEF Wanted, RouteAll, r
<1> DEFINE w == Wanted(c)
<1>4. w["route"] = TRUE /\ w["dns"] = TRUE /\ w["resolv"] = r /\ w["ks"] = FALSE /\ w["nat"] = TRUE
  BY <1>3
<1> HIDE DEF w
<1>5. \A g \in Guards : w[g] \in BOOLEAN
  BY <1>2, <1>4 DEF Guards
<1> QED
  BY <1>5 DEF c, w

LEMMA ProcessInit == Init => ProcessTyped /\ ControlOK
<1> SUFFICES ASSUME Init PROVE ProcessTyped /\ ControlOK
  OBVIOUS
<1>1. ProcessTyped
  <2>1. \A g \in Guards : Wanted(cfg)[g] \in BOOLEAN
    BY DefaultWanted DEF Init
  <2>2. 0 \in 0 .. MaxStarts /\ 0 \in 0 .. MaxFaults
    BY HostGuardsAssumption
  <2>3. main \subseteq {"lan"} /\ <<>> \in Seq(OpType) /\ {} \subseteq Guards
    BY DEF Init
  <2> QED
    BY <2>1, <2>2, <2>3 DEF Init, ProcessTyped
<1>2. ControlOK
  BY DEF Init, ControlOK
<1> QED
  BY <1>1, <1>2

LEMMA StartProcess ==
  ASSUME ProcessTyped, ControlOK, NEW c, \A g \in Guards : Wanted(c)[g] \in BOOLEAN, Start(c)
  PROVE  ProcessTyped' /\ ControlOK'
<1>1. /\ up = "down" /\ up' = "starting" /\ cfg' = c /\ outcome' = "none" /\ starts < MaxStarts
      /\ stages' = {g \in Guards : Wanted(c)[g]} /\ mode' = "install" /\ starts' = starts + 1
      /\ UNCHANGED <<stage, todo, guards, faults, orig, split, botched, torn>>
  BY DEF Start
<1>2. stage = "none" /\ guards = {} /\ todo = <<>>
  BY <1>1 DEF ControlOK
<1>3. starts' \in 0 .. MaxStarts
  BY <1>1, HostGuardsAssumption DEF ProcessTyped
<1>4. Wanted(cfg)' = Wanted(c)
  BY <1>1 DEF Wanted, RouteAll
<1>5. ProcessTyped'
  BY <1>1, <1>3, <1>4 DEF ProcessTyped
<1>6. Sure' \subseteq Guards
  BY DEF Sure, Guards
<1>7. "none" \notin stages'
  BY <1>1 DEF Guards
<1>8. ControlOK'
  BY <1>1, <1>2, <1>4, <1>6, <1>7 DEF ControlOK
<1> QED
  BY <1>5, <1>8

LEMMA BeginStep ==
  ASSUME ProcessTyped, BeginStage
  PROVE  /\ stage' \in stages /\ stage' \in Guards /\ stages' = stages \ {stage'}
         /\ \A h \in stages : Order[stage'] <= Order[h]
         /\ up \in {"starting", "stopping"} /\ stage = "none"
         /\ mode' = IF up = "starting" THEN "install" ELSE "remove"
         /\ todo' = IF up = "starting" THEN InstallProgram(stage') ELSE DropProgram(stage')
         /\ UNCHANGED <<chain, nat, main, bypass, resolv, backup, up, cfg, added, natted, guards,
                        outcome, starts, faults, orig, split, botched, torn>>
BY DEF BeginStage, ProcessTyped, host, ghosts

LEMMA BeginProcess ==
  ASSUME ProcessTyped, ControlOK, natted \in Seq(NatSpecs), BeginStage
  PROVE  ProcessTyped' /\ ControlOK'
<1> DEFINE g == stage'
<1>1. /\ g \in stages /\ g \in Guards /\ stages' = stages \ {g}
      /\ up \in {"starting", "stopping"} /\ stage = "none"
      /\ mode' = IF up = "starting" THEN "install" ELSE "remove"
      /\ todo' = IF up = "starting" THEN InstallProgram(g) ELSE DropProgram(g)
      /\ UNCHANGED <<up, cfg, guards, outcome, starts, faults, orig, split, botched, torn>>
  BY BeginStep
<1> HIDE DEF g
<1>2. todo' \in Seq(OpType)
  BY <1>1, ProgramsTyped
<1>3. stage' = g /\ g # "none" /\ mode' \in {"install", "undo", "remove"}
  BY <1>1 DEF g, Guards
<1>4. Wanted(cfg)' = Wanted(cfg) /\ Sure' = Sure
  BY <1>1 DEF Wanted, RouteAll, Sure
<1>5. ProcessTyped'
  BY <1>1, <1>2, <1>3, <1>4 DEF ProcessTyped
<1>6. stages' \cup {stage'} = stages
  BY <1>1, <1>3
<1>7. CASE up = "starting"
  <2>1. /\ stages \cap guards = {} /\ outcome = "none"
        /\ \A x \in Sure : Wanted(cfg)[x] => x \in stages \cup guards \cup {"none"}
    BY <1>1, <1>7 DEF ControlOK
  <2>2. \A x \in Sure : Wanted(cfg)[x] => x \in stages \cup guards
    <3>1. "none" \notin Sure
      BY DEF Sure
    <3> QED
      BY <2>1, <3>1
  <2>3. /\ (stages' \cup {stage'}) \cap guards' = {} /\ stage' \notin stages'
        /\ \A x \in Sure' : Wanted(cfg)'[x] => x \in stages' \cup guards' \cup {stage'}
    BY <1>1, <1>3, <1>4, <1>6, <2>1, <2>2
  <2> QED
    BY <1>1, <1>3, <1>5, <1>7, <2>1, <2>3 DEF ControlOK
<1>8. CASE up = "stopping"
  <2>1. stages = guards
    BY <1>1, <1>8 DEF ControlOK, ProcessTyped, Guards
  <2> QED
    BY <1>1, <1>3, <1>5, <1>6, <1>8, <2>1 DEF ControlOK
<1> QED
  BY <1>1, <1>5, <1>7, <1>8

LEMMA EndStep ==
  ASSUME ProcessTyped, EndStage
  PROVE  /\ stage \in Guards /\ todo = <<>> /\ stage' = "none"
         /\ guards' = CASE mode = "install" -> guards \cup {stage}
                        [] mode = "undo"    -> guards
                        [] mode = "remove"  -> guards \ {stage}
         /\ IF stage = "ks" /\ mode = "undo"
            THEN up' = "stopping" /\ stages' = guards /\ outcome' = "refused"
            ELSE UNCHANGED <<up, stages, outcome>>
         /\ UNCHANGED <<chain, nat, main, bypass, resolv, backup, cfg, mode, todo, added, natted,
                        starts, faults, orig, split, botched, torn>>
BY DEF EndStage, ProcessTyped, host, ghosts

(* A failed kill switch ends the start; another one may be missing.  That  *)
(* resolv.conf and NAT fail only with a fault is for their own parts. *)
LEMMA EndProcess ==
  ASSUME ProcessTyped, ControlOK, EndStage,
         stage \in {"resolv", "nat"} /\ mode = "undo" => faults > 0
  PROVE  ProcessTyped' /\ ControlOK'
<1>1. /\ stage \in Guards /\ todo = <<>> /\ stage' = "none"
      /\ UNCHANGED <<cfg, mode, todo, starts, faults, orig, split, botched, torn>>
  BY EndStep
<1>2. /\ mode = "install" => guards' = guards \cup {stage}
      /\ mode = "undo" => guards' = guards
      /\ mode = "remove" => guards' = guards \ {stage}
  BY EndStep
<1>3. Wanted(cfg)' = Wanted(cfg) /\ Sure' = Sure
  BY <1>1 DEF Wanted, RouteAll, Sure
<1>4. stage # "none" /\ up \in {"starting", "stopping"} /\ mode \in {"install", "undo", "remove"}
  BY <1>1 DEF Guards, ControlOK, ProcessTyped
<1>5. guards' \subseteq Guards
  BY <1>1, <1>2, <1>4 DEF ProcessTyped
<1>6. CASE stage = "ks" /\ mode = "undo"
  <2>1. up' = "stopping" /\ stages' = guards /\ outcome' = "refused" /\ guards' = guards
    BY <1>2, <1>6, EndStep
  <2>2. ProcessTyped'
    BY <1>1, <1>3, <2>1 DEF ProcessTyped
  <2>3. ControlOK'
    <3>1. "none" \notin guards
      BY DEF ProcessTyped, Guards
    <3> QED
      BY <1>1, <2>1, <3>1 DEF ControlOK
  <2> QED
    BY <2>2, <2>3
<1>7. CASE ~(stage = "ks" /\ mode = "undo")
  <2>1. UNCHANGED <<up, stages, outcome>>
    BY <1>7, EndStep
  <2>2. ProcessTyped'
    BY <1>1, <1>3, <1>5, <2>1 DEF ProcessTyped
  <2>3. "none" \notin stages /\ "none" \notin guards'
    BY <1>5 DEF ProcessTyped, Guards
  <2>4. CASE up = "starting"
    <3>1. mode \in {"install", "undo"} /\ stage \notin stages /\ stages \cap guards = {}
      BY <1>4, <2>4 DEF ControlOK
    <3>2. \A x \in Sure : x = stage => mode = "install"
      BY <1>7, <3>1 DEF Sure, ProcessTyped
    <3>3. \A x \in Sure : Wanted(cfg)[x] => x \in stages \cup guards'
      BY <1>2, <2>4, <3>1, <3>2 DEF ControlOK
    <3>4. stages \cap guards' = {}
      BY <1>2, <3>1
    <3> QED
      BY <1>1, <1>3, <2>1, <2>2, <2>3, <2>4, <3>3, <3>4 DEF ControlOK
  <2>5. CASE up = "stopping"
    <3>1. guards' = guards \ {stage} /\ stages = guards'
      BY <1>2, <1>4, <2>5 DEF ControlOK
    <3> QED
      BY <1>1, <2>1, <2>2, <2>3, <2>5, <3>1 DEF ControlOK
  <2> QED
    BY <1>4, <2>4, <2>5
<1> QED
  BY <1>6, <1>7

LEMMA TurnProcess ==
  ASSUME ProcessTyped, ControlOK, Run \/ Stop \/ SessionEnds \/ Fail \/ Exit \/ Crash
  PROVE  ProcessTyped' /\ ControlOK'
<1>1. ~Crash => UNCHANGED <<cfg, mode, starts, faults, orig, botched>>
  BY DEF Run, Stop, SessionEnds, Fail, Exit, host, ghosts
<1>2. ~Crash => Wanted(cfg)' = Wanted(cfg) /\ Sure' = Sure
  BY <1>1 DEF Wanted, RouteAll, Sure
<1>3. CASE Run /\ ~Crash
  <2>1. /\ up = "starting" /\ stage = "none" /\ stages = {} /\ up' = "running"
        /\ UNCHANGED <<stages, stage, todo, guards, outcome, split, botched, torn>>
    BY <1>3 DEF Run, ghosts
  <2>2. ProcessTyped'
    BY <1>1, <1>2, <1>3, <2>1 DEF ProcessTyped
  <2>3. \A g \in Sure : Wanted(cfg)[g] => g \in guards
    <3>1. "none" \notin Sure
      BY DEF Sure
    <3> QED
      BY <2>1, <3>1 DEF ControlOK
  <2> QED
    BY <1>1, <1>2, <1>3, <2>1, <2>2, <2>3 DEF ControlOK
<1>4. CASE (Stop \/ SessionEnds \/ Fail) /\ ~Crash
  <2>1. /\ up = "running" /\ up' = "stopping" /\ stages' = guards
        /\ outcome' \in {"stopped", "ended", "failed"}
        /\ UNCHANGED <<stage, todo, guards, split, botched, torn>>
    BY <1>4 DEF Stop, SessionEnds, Fail, ghosts
  <2>2. ProcessTyped'
    BY <1>1, <1>2, <1>4, <2>1 DEF ProcessTyped
  <2>3. stage = "none" /\ "none" \notin guards
    BY <2>1 DEF ControlOK, ProcessTyped, Guards
  <2> QED
    BY <1>1, <1>2, <1>4, <2>1, <2>2, <2>3 DEF ControlOK
<1>5. CASE Exit /\ ~Crash
  <2>1. /\ up = "stopping" /\ stage = "none" /\ stages = {} /\ up' = "down"
        /\ UNCHANGED <<stages, stage, todo, guards, outcome, split, botched, torn>>
    BY <1>5 DEF Exit, ghosts
  <2>2. guards = {}
    BY <2>1 DEF ControlOK, ProcessTyped, Guards
  <2>3. ProcessTyped'
    BY <1>1, <1>2, <1>5, <2>1 DEF ProcessTyped
  <2> QED
    BY <1>1, <1>2, <1>5, <2>1, <2>2, <2>3 DEF ControlOK
<1>6. CASE Crash
  <2>1. /\ up' = "down" /\ outcome' = "crashed" /\ stages' = {} /\ stage' = "none"
        /\ cfg' = ClientDefault /\ mode' = "install" /\ todo' = <<>> /\ guards' = {}
        /\ split' \in BOOLEAN /\ torn' \in BOOLEAN
        /\ UNCHANGED <<starts, faults, orig, botched>>
    BY <1>6 DEF Crash
  <2>2. Wanted(cfg)' = Wanted(ClientDefault)
    BY <2>1 DEF Wanted, RouteAll
  <2>3. ProcessTyped'
    BY <2>1, <2>2, DefaultWanted DEF ProcessTyped
  <2> QED
    BY <2>1, <2>3 DEF ControlOK
<1> QED
  BY <1>3, <1>4, <1>5, <1>6

-----------------------------------------------------------------------------
(* resolv.conf, through every step *)

(* How a program of four steps is run. *)
LEMMA FourSteps ==
  ASSUME NEW p \in Seq(OpType), Len(p) = 4
  PROVE  /\ \A i \in 1 .. 4 : /\ Rest(p, i) # <<>> /\ Head(Rest(p, i)) = p[i]
                              /\ Tail(Rest(p, i)) = Rest(p, i + 1)
         /\ Rest(p, 1) = p /\ Rest(p, 5) = <<>>
<1>1. \A i \in 1 .. 4 : /\ Rest(p, i) # <<>> /\ Head(Rest(p, i)) = p[i]
                       /\ Tail(Rest(p, i)) = Rest(p, i + 1)
  BY RestSteps
<1>2. Rest(p, 1) = p /\ Rest(p, Len(p) + 1) = <<>>
  BY RestEnds
<1>3. Len(p) + 1 = 5
  OBVIOUS
<1> QED
  BY <1>1, <1>2, <1>3

LEMMA FileSteps ==
  /\ \A i \in 1 .. 4 : /\ Rest(InstallFiles, i) # <<>> /\ Head(Rest(InstallFiles, i)) = InstallFiles[i]
                       /\ Tail(Rest(InstallFiles, i)) = Rest(InstallFiles, i + 1)
  /\ \A i \in 1 .. 4 : /\ Rest(EmptyFiles, i) # <<>> /\ Head(Rest(EmptyFiles, i)) = EmptyFiles[i]
                       /\ Tail(Rest(EmptyFiles, i)) = Rest(EmptyFiles, i + 1)
  /\ \A i \in 1 .. 3 : /\ Rest(RemoveFiles, i) # <<>> /\ Head(Rest(RemoveFiles, i)) = RemoveFiles[i]
                       /\ Tail(Rest(RemoveFiles, i)) = Rest(RemoveFiles, i + 1)
  /\ Rest(InstallFiles, 1) = InstallFiles /\ Rest(InstallFiles, 5) = <<>>
  /\ Rest(EmptyFiles, 1) = EmptyFiles /\ Rest(EmptyFiles, 5) = <<>>
  /\ Rest(RemoveFiles, 1) = RemoveFiles /\ Rest(RemoveFiles, 4) = <<>>
<1>1. /\ RemoveFiles \in Seq(OpType) /\ Len(RemoveFiles) = 3
  BY FilePrograms
<1>2. \A i \in 1 .. Len(RemoveFiles) :
        /\ Rest(RemoveFiles, i) # <<>> /\ Head(Rest(RemoveFiles, i)) = RemoveFiles[i]
        /\ Tail(Rest(RemoveFiles, i)) = Rest(RemoveFiles, i + 1)
  BY <1>1, RestSteps
<1>3. Rest(RemoveFiles, 1) = RemoveFiles /\ Rest(RemoveFiles, Len(RemoveFiles) + 1) = <<>>
  BY <1>1, RestEnds
<1>4. Rest(RemoveFiles, 4) = <<>> /\ 1 .. Len(RemoveFiles) = 1 .. 3
  <2>1. Len(RemoveFiles) + 1 = 4
    BY <1>1
  <2> QED
    BY <1>1, <1>3, <2>1
<1>5. /\ \A i \in 1 .. 4 : /\ Rest(InstallFiles, i) # <<>> /\ Head(Rest(InstallFiles, i)) = InstallFiles[i]
                           /\ Tail(Rest(InstallFiles, i)) = Rest(InstallFiles, i + 1)
      /\ Rest(InstallFiles, 1) = InstallFiles /\ Rest(InstallFiles, 5) = <<>>
  BY FilePrograms, FourSteps
<1>6. /\ \A i \in 1 .. 4 : /\ Rest(EmptyFiles, i) # <<>> /\ Head(Rest(EmptyFiles, i)) = EmptyFiles[i]
                           /\ Tail(Rest(EmptyFiles, i)) = Rest(EmptyFiles, i + 1)
      /\ Rest(EmptyFiles, 1) = EmptyFiles /\ Rest(EmptyFiles, 5) = <<>>
  BY FilePrograms, FourSteps
<1> QED
  BY <1>2, <1>3, <1>4, <1>5, <1>6

LEMMA FileNames ==
  /\ InstallFiles[1] = Op("truncate", "backup") /\ InstallFiles[2] = Op("fill", "backup")
  /\ InstallFiles[3] = Op("truncate", "resolv") /\ InstallFiles[4] = Op("fill", "resolv")
  /\ EmptyFiles[1] = Op("truncate", "nothing") /\ EmptyFiles[2] = Op("fill", "nothing")
  /\ EmptyFiles[3] = Op("truncate", "resolv") /\ EmptyFiles[4] = Op("fill", "resolv")
  /\ RemoveFiles[1] = Op("truncate", "resolv") /\ RemoveFiles[2] = Op("fill", "resolv")
  /\ RemoveFiles[3] = Op("unlink", "backup")
BY FilePrograms

LEMMA FilesInit == Init => FilesOK
BY DEF Init, FilesOK, File, Safe

LEMMA FilesElsewhere ==
  ASSUME FilesOK, ProcessTyped, Commanded, stage # "resolv", UNCHANGED <<resolv, backup, torn>>
  PROVE  FilesOK'
<1>1. UNCHANGED <<stage, guards, outcome, cfg>>
  BY DEF Commanded, procRest
<1>2. faults' = 0 => faults = 0
  BY HostGuardsAssumption DEF Commanded, ProcessTyped
<1>3. Wanted(cfg)' = Wanted(cfg) /\ Safe' = Safe
  BY <1>1 DEF Wanted, RouteAll, Safe
<1> QED
  BY <1>1, <1>2, <1>3 DEF FilesOK

LEMMA FilesBegin ==
  ASSUME FilesOK, ProcessTyped, ControlOK, BeginStage
  PROVE  FilesOK'
<1>1. /\ stage = "none" /\ UNCHANGED <<resolv, backup, torn, guards, outcome, cfg, faults, up>>
      /\ mode' = (IF up = "starting" THEN "install" ELSE "remove")
      /\ todo' = (IF up = "starting" THEN InstallProgram(stage') ELSE DropProgram(stage'))
      /\ stage' \in stages /\ up \in {"starting", "stopping"}
  BY BeginStep
<1>2. Wanted(cfg)' = Wanted(cfg) /\ Safe' = Safe
  BY <1>1 DEF Wanted, RouteAll, Safe
<1>3. torn \/ Safe
  BY <1>1 DEF FilesOK
<1>4. stage' = "resolv" /\ up = "starting" => FilesInstalling'
  <2> SUFFICES ASSUME stage' = "resolv", up = "starting" PROVE FilesInstalling'
    OBVIOUS
  <2>1. todo' = InstallResolv
    BY <1>1 DEF InstallProgram, Chains
  <2>2. CASE backup = "absent"
    <3>1. todo' = Rest(InstallFiles, 1)
      BY <2>1, <2>2, ResolvPrograms, FileSteps
    <3>2. torn \/ resolv = "original"
      BY <1>3, <2>2 DEF Safe
    <3> QED
      BY <1>1, <2>2, <3>1, <3>2 DEF FilesInstalling
  <2>3. CASE backup # "absent"
    <3>1. todo' = Rest(InstallFiles, 3)
      BY <2>1, <2>3, ResolvPrograms
    <3>2. torn \/ backup = "original"
      BY <1>3, <2>3 DEF Safe
    <3> QED
      BY <1>1, <2>3, <3>1, <3>2 DEF FilesInstalling
  <2> QED
    BY <2>2, <2>3
<1>5. stage' = "resolv" /\ up = "stopping" => FilesRemoving'
  <2> SUFFICES ASSUME stage' = "resolv", up = "stopping" PROVE FilesRemoving'
    OBVIOUS
  <2>1. "resolv" \in guards
    BY <1>1 DEF ControlOK
  <2>2. backup # "absent" /\ (torn \/ backup = "original")
    BY <1>1, <1>3, <2>1 DEF FilesOK, Safe
  <2>3. todo' = Rest(RemoveFiles, 1)
    <3>1. todo' = RemoveResolv
      BY <1>1 DEF DropProgram, Chains
    <3> QED
      BY <2>2, <3>1, ResolvPrograms, FileSteps
  <2> QED
    BY <1>1, <2>2, <2>3 DEF FilesRemoving
<1>6. stage' = "resolv" => (mode' = "install" /\ FilesInstalling') \/ (mode' = "remove" /\ FilesRemoving')
  BY <1>1, <1>4, <1>5
<1> QED
  BY <1>1, <1>2, <1>6 DEF FilesOK

LEMMA FilesEnd ==
  ASSUME FilesOK, ProcessTyped, ControlOK, EndStage
  PROVE  FilesOK' /\ (stage = "resolv" /\ mode = "undo" => faults > 0)
<1>1. /\ stage' = "none" /\ todo = <<>> /\ UNCHANGED <<resolv, backup, torn, cfg, faults>>
      /\ mode \in {"install", "undo", "remove"}
      /\ mode = "install" => guards' = guards \cup {stage}
      /\ mode = "undo" => guards' = guards
      /\ mode = "remove" => guards' = guards \ {stage}
      /\ outcome' = outcome \/ outcome' \notin Graceful
  BY EndStep DEF ProcessTyped, Graceful
<1>2. Wanted(cfg)' = Wanted(cfg) /\ Safe' = Safe
  BY <1>1 DEF Wanted, RouteAll, Safe
<1>3. CASE stage # "resolv"
  <2>1. "resolv" \in guards' <=> "resolv" \in guards
    BY <1>1, <1>3
  <2> QED
    BY <1>1, <1>2, <1>3, <2>1 DEF FilesOK
<1>4. CASE stage = "resolv"
  <2>1. mode # "remove" => up = "starting" /\ stage \notin guards /\ outcome' \notin Graceful
    BY <1>1, <1>4 DEF ControlOK, ProcessTyped, Graceful
  <2>2. CASE mode = "install"
    <3>1. FilesInstalling
      BY <1>4, <2>2 DEF FilesOK
    <3>2. backup # "absent" /\ (torn \/ backup = "original")
      <4>1. PICK i \in 1 .. 5 :
              /\ todo = Rest(InstallFiles, i) \/ (torn /\ todo = Rest(EmptyFiles, i))
              /\ i > 2 => backup # "absent"
              /\ ~torn => IF i < 3 THEN resolv = "original" ELSE backup = "original"
        BY <3>1 DEF FilesInstalling
      <4>2. i \notin 1 .. 4
        BY <1>1, <4>1, FileSteps
      <4> QED
        BY <4>1, <4>2
    <3> QED
      BY <1>1, <1>2, <2>1, <2>2, <3>2 DEF FilesOK, Safe
  <2>3. CASE mode = "undo"
    <3>1. faults > 0 /\ (torn \/ Safe)
      BY <1>4, <2>3 DEF FilesOK
    <3> QED
      BY <1>1, <1>2, <1>4, <2>1, <2>3, <3>1 DEF FilesOK
  <2>4. CASE mode = "remove"
    <3>1. FilesRemoving
      BY <1>4, <2>4 DEF FilesOK
    <3>2. torn \/ (Safe /\ (faults = 0 => backup = "absent"))
      <4>1. PICK i \in 1 .. 4 :
              /\ todo = Rest(RemoveFiles, i)
              /\ i = 4 /\ ~torn => Safe /\ (faults = 0 => backup = "absent")
        BY <3>1 DEF FilesRemoving
      <4>2. i \notin 1 .. 3
        BY <1>1, <4>1, FileSteps
      <4> QED
        BY <4>1, <4>2
    <3> QED
      BY <1>1, <1>2, <1>4, <2>4, <3>2 DEF FilesOK, Safe
  <2> QED
    BY <1>1, <2>2, <2>3, <2>4
<1> QED
  BY <1>3, <1>4

LEMMA FilesCrash ==
  ASSUME FilesOK, ProcessTyped, Crash
  PROVE  FilesOK'
<1>1. /\ stage' = "none" /\ guards' = {} /\ outcome' \notin Graceful /\ UNCHANGED <<resolv, backup>>
      /\ torn' = (torn \/ CutAt(Op("fill", "backup")))
  BY DEF Crash, Graceful
<1>2. torn' \/ Safe
  <2>1. CASE stage # "resolv"
    BY <1>1, <2>1 DEF FilesOK
  <2>2. CASE stage = "resolv" /\ mode = "install"
    <3>1. FilesInstalling
      BY <2>2 DEF FilesOK
    <3>2. PICK i \in 1 .. 5 :
            /\ todo = Rest(InstallFiles, i) \/ (torn /\ todo = Rest(EmptyFiles, i))
            /\ i = 1 => backup = "absent"
            /\ ~torn => IF i < 3 THEN resolv = "original" ELSE backup = "original"
      BY <3>1 DEF FilesInstalling
    <3>3. CASE i = 2 /\ ~torn
      <4>1. 2 \in 1 .. 4
        OBVIOUS
      <4>2. todo # <<>> /\ Head(todo) = Op("fill", "backup")
        BY <3>2, <3>3, <4>1, FileSteps, FileNames
      <4> QED
        BY <1>1, <4>2 DEF CutAt
    <3>4. CASE i # 2 \/ torn
      <4>1. torn \/ Safe
        BY <3>2, <3>4 DEF Safe
      <4> QED
        BY <1>1, <4>1
    <3> QED
      BY <3>3, <3>4
  <2>3. CASE stage = "resolv" /\ mode = "undo"
    BY <1>1, <2>3 DEF FilesOK
  <2>4. CASE stage = "resolv" /\ mode = "remove"
    <3>1. FilesRemoving
      BY <2>4 DEF FilesOK
    <3>2. torn \/ Safe
      BY <3>1 DEF FilesRemoving, Safe
    <3> QED
      BY <1>1, <3>2
  <2> QED
    BY <2>1, <2>2, <2>3, <2>4 DEF ProcessTyped
<1> QED
  BY <1>1, <1>2 DEF FilesOK, Safe

LEMMA FilesTurn ==
  ASSUME FilesOK, ProcessTyped, ControlOK,
         (\E c : Start(c)) \/ Run \/ Stop \/ SessionEnds \/ Fail \/ Exit
  PROVE  FilesOK'
<1>1. UNCHANGED <<resolv, backup, torn, stage, guards, faults>>
  BY DEF Start, Run, Stop, SessionEnds, Fail, Exit, host, ghosts
<1>2. stage = "none"
  BY DEF Start, Run, Stop, SessionEnds, Fail, Exit, ControlOK
<1>3. outcome' \in Graceful => cfg' = cfg /\ (outcome \in Graceful \/ up = "running")
  BY DEF Start, Run, Stop, SessionEnds, Fail, Exit, Graceful
<1>4. cfg' = cfg => Wanted(cfg)' = Wanted(cfg)
  BY DEF Wanted, RouteAll
<1>5. up = "running" /\ faults = 0 /\ Wanted(cfg).resolv => "resolv" \in guards
  BY DEF ControlOK, Sure
<1> QED
  BY <1>1, <1>2, <1>3, <1>4, <1>5 DEF FilesOK, Safe

LEMMA TailTyped ==
  ASSUME NEW S, NEW s \in Seq(S), s # <<>>
  PROVE  Tail(s) \in Seq(S) /\ Head(s) \in S
OBVIOUS

LEMMA FileOpKeeps ==
  ASSUME FilesOK, ProcessTyped, FileOp
  PROVE  FilesOK' /\ Commanded /\ torn' \in BOOLEAN
<1>1. /\ stage = "resolv" /\ todo # <<>> /\ todo' = Tail(todo) /\ mode' = mode
      /\ UNCHANGED <<torn, procRest, starts, faults, orig, split, botched>>
  BY DEF FileOp, Busy, Done, ghosts
<1>2. UNCHANGED <<up, cfg, stages, stage, guards, outcome>>
  BY <1>1 DEF procRest
<1>3. Commanded /\ torn' \in BOOLEAN
  <2>1. todo' \in Seq(OpType)
    BY <1>1, TailTyped DEF ProcessTyped
  <2>2. faults' \in faults .. MaxFaults
    BY <1>1, HostGuardsAssumption DEF ProcessTyped
  <2> QED
    BY <1>1, <2>1, <2>2 DEF Commanded, ProcessTyped
<1> DEFINE new == CASE op.verb = "truncate" -> "empty"
                    [] op.verb = "fill"     -> Content
                    [] op.verb = "unlink"   -> "absent"
<1>4. IF op.arg = "resolv" THEN resolv' = new /\ backup' = backup ELSE backup' = new /\ resolv' = resolv
  BY DEF FileOp
<1>5. resolv \in File /\ backup \in File \cup {"absent"}
  BY DEF FilesOK
<1>6. CASE mode = "install"
  <2>1. PICK i \in 1 .. 5 :
          /\ todo = Rest(InstallFiles, i) \/ (torn /\ todo = Rest(EmptyFiles, i))
          /\ i = 1 => backup = "absent"
          /\ i = 2 => backup = "empty"
          /\ i > 2 => backup # "absent"
          /\ ~torn => IF i < 3 THEN resolv = "original" ELSE backup = "original"
    BY <1>1, <1>6 DEF FilesOK, FilesInstalling
  <2>2. i \in 1 .. 4
    BY <1>1, <2>1, FileSteps
  <2>3. \/ op = InstallFiles[i] /\ todo' = Rest(InstallFiles, i + 1)
        \/ torn /\ op = EmptyFiles[i] /\ todo' = Rest(EmptyFiles, i + 1)
    BY <1>1, <2>1, <2>2, FileSteps DEF op
  <2> DEFINE ahead == todo' = Rest(InstallFiles, i + 1) \/ (torn' /\ todo' = Rest(EmptyFiles, i + 1))
  <2>a. ahead
    BY <1>1, <2>3
  <2> HIDE DEF ahead
  <2>4. CASE i = 1
    <3>1. op.verb = "truncate" /\ op.arg \in {"backup", "nothing"}
      BY <2>3, <2>4, FileNames DEF Op
    <3>2. backup' = "empty" /\ resolv' = resolv
      BY <1>4, <3>1
    <3>3. FilesInstalling'
      BY <1>1, <2>1, <2>a, <2>4, <3>2 DEF FilesInstalling, ahead
    <3> QED
      BY <1>1, <1>2, <1>3, <1>5, <1>6, <3>2, <3>3 DEF FilesOK, File
  <2>5. CASE i = 2
    <3>1. op.verb = "fill" /\ (op.arg = "backup" \/ (torn /\ op.arg = "nothing"))
      BY <2>3, <2>5, FileNames DEF Op
    <3>2. /\ backup' = resolv \/ (torn /\ backup' = "empty")
          /\ resolv' = resolv
      BY <1>4, <3>1 DEF Content
    <3>3. FilesInstalling'
      BY <1>1, <1>5, <2>1, <2>a, <2>5, <3>2 DEF FilesInstalling, File, ahead
    <3> QED
      BY <1>1, <1>2, <1>3, <1>5, <1>6, <3>2, <3>3 DEF FilesOK, File
  <2>6. CASE i \in 3 .. 4
    <3>1. op.verb \in {"truncate", "fill"} /\ op.arg = "resolv"
      BY <2>3, <2>6, FileNames DEF Op
    <3>2. backup' = backup /\ resolv' \in File
      BY <1>4, <1>6, <3>1 DEF Content, File
    <3>3. FilesInstalling'
      BY <1>1, <2>1, <2>a, <2>6, <3>2 DEF FilesInstalling, ahead
    <3> QED
      BY <1>1, <1>2, <1>3, <1>5, <1>6, <3>2, <3>3 DEF FilesOK
  <2> QED
    BY <2>2, <2>4, <2>5, <2>6
<1>7. CASE mode = "undo"
  BY <1>1, <1>7 DEF FilesOK
<1>8. CASE mode = "remove"
  <2>1. PICK i \in 1 .. 4 :
          /\ todo = Rest(RemoveFiles, i)
          /\ i < 4 => backup # "absent" /\ (torn \/ backup = "original")
          /\ i = 3 => torn \/ resolv = "original"
    BY <1>1, <1>8 DEF FilesOK, FilesRemoving
  <2>2. i \in 1 .. 3
    BY <1>1, <2>1, FileSteps
  <2>3. op = RemoveFiles[i] /\ todo' = Rest(RemoveFiles, i + 1)
    BY <1>1, <2>1, <2>2, FileSteps DEF op
  <2>4. CASE i = 1
    <3>1. op.verb = "truncate" /\ op.arg = "resolv"
      BY <2>3, <2>4, FileNames DEF Op
    <3>2. backup' = backup /\ resolv' = "empty"
      BY <1>4, <3>1
    <3>3. FilesRemoving'
      BY <1>1, <2>1, <2>3, <2>4, <3>2 DEF FilesRemoving
    <3> QED
      BY <1>1, <1>2, <1>3, <1>5, <1>8, <3>2, <3>3 DEF FilesOK, File
  <2>5. CASE i = 2
    <3>1. op.verb = "fill" /\ op.arg = "resolv"
      BY <2>3, <2>5, FileNames DEF Op
    <3>2. backup' = backup /\ resolv' = backup
      BY <1>4, <1>8, <3>1 DEF Content
    <3>3. FilesRemoving' /\ resolv' \in File
      BY <1>1, <1>5, <2>1, <2>3, <2>5, <3>2 DEF FilesRemoving
    <3> QED
      BY <1>1, <1>2, <1>3, <1>5, <1>8, <3>2, <3>3 DEF FilesOK
  <2>6. CASE i = 3
    <3>1. op.verb = "unlink" /\ op.arg = "backup"
      BY <2>3, <2>6, FileNames DEF Op
    <3>2. backup' = "absent" /\ resolv' = resolv
      BY <1>4, <3>1
    <3>3. FilesRemoving'
      BY <1>1, <2>1, <2>3, <2>6, <3>2 DEF FilesRemoving, Safe
    <3> QED
      BY <1>1, <1>2, <1>3, <1>5, <1>8, <3>2, <3>3 DEF FilesOK
  <2> QED
    BY <2>2, <2>4, <2>5, <2>6
<1> QED
  BY <1>6, <1>7, <1>8 DEF ProcessTyped

LEMMA FileFailsKeeps ==
  ASSUME FilesOK, ProcessTyped, FileFails
  PROVE  FilesOK' /\ Commanded /\ torn' \in BOOLEAN
<1>1. /\ stage = "resolv" /\ todo # <<>> /\ todo' = <<>>
      /\ mode' = (IF mode = "install" THEN "undo" ELSE mode)
      /\ torn' = (torn \/ op = Op("fill", "backup")) /\ faults' = faults + 1 /\ faults < MaxFaults
      /\ UNCHANGED <<resolv, backup, procRest, starts, orig, split, botched>>
  BY DEF FileFails, Busy, Fails, host
<1>2. UNCHANGED <<up, cfg, stages, stage, guards, outcome>>
  BY <1>1 DEF procRest
<1>3. faults' \in faults .. MaxFaults /\ faults' > 0
  BY <1>1, HostGuardsAssumption DEF ProcessTyped
<1>4. Commanded /\ torn' \in BOOLEAN
  BY <1>1, <1>3 DEF Commanded, ProcessTyped
<1>5. CASE mode = "install"
  <2>1. torn' \/ Safe
    <3>1. FilesInstalling
      BY <1>1, <1>5 DEF FilesOK
    <3>2. PICK i \in 1 .. 5 :
            /\ todo = Rest(InstallFiles, i) \/ (torn /\ todo = Rest(EmptyFiles, i))
            /\ i = 1 => backup = "absent"
            /\ ~torn => IF i < 3 THEN resolv = "original" ELSE backup = "original"
      BY <3>1 DEF FilesInstalling
    <3>3. CASE i = 2 /\ ~torn
      <4>1. 2 \in 1 .. 4
        OBVIOUS
      <4>2. op = Op("fill", "backup")
        BY <3>2, <3>3, <4>1, FileSteps, FileNames DEF op
      <4> QED
        BY <1>1, <4>2
    <3>4. CASE i # 2 \/ torn
      <4>1. torn \/ Safe
        BY <3>2, <3>4 DEF Safe
      <4> QED
        BY <1>1, <4>1
    <3> QED
      BY <3>3, <3>4
  <2>2. torn' \/ Safe'
    BY <1>1, <2>1 DEF Safe
  <2> QED
    BY <1>1, <1>2, <1>3, <1>4, <1>5, <2>2 DEF FilesOK
<1>6. CASE mode = "undo"
  BY <1>1, <1>6 DEF FilesOK
<1>7. CASE mode = "remove"
  <2>1. torn \/ Safe
    <3>1. FilesRemoving
      BY <1>1, <1>7 DEF FilesOK
    <3> QED
      BY <3>1 DEF FilesRemoving, Safe
  <2>2. torn' \/ Safe'
    BY <1>1, <2>1 DEF Safe
  <2>3. FilesRemoving'
    <3>1. 4 \in 1 .. 4 /\ todo' = Rest(RemoveFiles, 4) /\ faults' # 0
      BY <1>1, <1>3, FileSteps
    <3> QED
      BY <2>2, <3>1 DEF FilesRemoving
  <2> QED
    BY <1>1, <1>2, <1>3, <1>4, <1>7, <2>3 DEF FilesOK
<1> QED
  BY <1>5, <1>6, <1>7 DEF ProcessTyped

LEMMA ReadFailsKeeps ==
  ASSUME FilesOK, ProcessTyped, ReadFails
  PROVE  FilesOK' /\ Commanded /\ torn' \in BOOLEAN
<1>1. /\ stage = "resolv" /\ todo # <<>> /\ op = Op("truncate", "backup")
      /\ todo' = EmptyFiles /\ mode' = mode /\ torn' = TRUE
      /\ faults' = faults + 1 /\ faults < MaxFaults
      /\ UNCHANGED <<resolv, backup, procRest, starts, orig, split, botched>>
  BY DEF ReadFails, Busy, Fails, host, EmptyFiles
<1>2. UNCHANGED <<up, cfg, stages, stage, guards, outcome>>
  BY <1>1 DEF procRest
<1>3. faults' \in faults .. MaxFaults /\ faults' > 0
  BY <1>1, HostGuardsAssumption DEF ProcessTyped
<1>4. Commanded /\ torn' \in BOOLEAN
  BY <1>1, <1>3, FilePrograms DEF Commanded, ProcessTyped
<1>5. op.verb = "truncate" /\ op.arg = "backup"
  BY <1>1 DEF Op
<1>6. mode # "undo"
  BY <1>1 DEF FilesOK
<1>7. mode # "remove"
  <2> SUFFICES ASSUME mode = "remove" PROVE FALSE
    OBVIOUS
  <2>1. PICK i \in 1 .. 4 : todo = Rest(RemoveFiles, i)
    BY <1>1 DEF FilesOK, FilesRemoving
  <2>2. i \in 1 .. 3
    BY <1>1, <2>1, FileSteps
  <2>3. op = RemoveFiles[i]
    BY <2>1, <2>2, FileSteps DEF op
  <2> QED
    BY <1>5, <2>2, <2>3, FileNames DEF Op
<1>8. mode = "install"
  BY <1>6, <1>7 DEF ProcessTyped
<1>9. backup = "absent"
  <2>1. PICK i \in 1 .. 5 :
          /\ todo = Rest(InstallFiles, i) \/ (torn /\ todo = Rest(EmptyFiles, i))
          /\ i = 1 => backup = "absent"
    BY <1>1, <1>8 DEF FilesOK, FilesInstalling
  <2>2. i \in 1 .. 4
    BY <1>1, <2>1, FileSteps
  <2>3. op = InstallFiles[i] \/ op = EmptyFiles[i]
    BY <2>1, <2>2, FileSteps DEF op
  <2>4. i = 1
    BY <1>5, <2>2, <2>3, FileNames DEF Op
  <2> QED
    BY <2>1, <2>4
<1>10. FilesInstalling'
  <2>1. todo' = Rest(EmptyFiles, 1)
    BY <1>1, FileSteps
  <2> QED
    BY <1>1, <1>9, <2>1 DEF FilesInstalling
<1> QED
  BY <1>1, <1>2, <1>3, <1>4, <1>8, <1>10 DEF FilesOK

-----------------------------------------------------------------------------
(* Chains, through every step *)

LEMMA ChainSteps ==
  /\ \A i \in 1 .. Final - 1 :
       /\ Rest(InstallOps, i) # <<>> /\ Head(Rest(InstallOps, i)) = InstallOps[i]
       /\ Tail(Rest(InstallOps, i)) = Rest(InstallOps, i + 1)
       /\ Half(InstallOps, i) # <<>> /\ Head(Half(InstallOps, i)) = Op(InstallOps[i].verb, "v6")
       /\ Tail(Half(InstallOps, i)) = Rest(InstallOps, i + 1)
  /\ \A i \in 1 .. 3 :
       /\ Rest(RemoveOps, i) # <<>> /\ Head(Rest(RemoveOps, i)) = RemoveOps[i]
       /\ Tail(Rest(RemoveOps, i)) = Rest(RemoveOps, i + 1)
       /\ Half(RemoveOps, i) # <<>> /\ Head(Half(RemoveOps, i)) = Op(RemoveOps[i].verb, "v6")
       /\ Tail(Half(RemoveOps, i)) = Rest(RemoveOps, i + 1)
  /\ Rest(InstallOps, 1) = InstallOps /\ Rest(InstallOps, Final) = <<>>
  /\ Rest(RemoveOps, 1) = RemoveOps /\ Rest(RemoveOps, 4) = <<>>
<1>1. /\ InstallOps \in Seq(OpType) /\ Len(InstallOps) = Final - 1
      /\ RemoveOps \in Seq(OpType) /\ Len(RemoveOps) = 3
  BY InstallProgramOps, RemoveProgram
<1>2. \A i \in 1 .. Len(InstallOps) :
        /\ Rest(InstallOps, i) # <<>> /\ Head(Rest(InstallOps, i)) = InstallOps[i]
        /\ Tail(Rest(InstallOps, i)) = Rest(InstallOps, i + 1)
        /\ Half(InstallOps, i) # <<>> /\ Head(Half(InstallOps, i)) = Op(InstallOps[i].verb, "v6")
        /\ Tail(Half(InstallOps, i)) = Rest(InstallOps, i + 1)
  BY <1>1, RestSteps, HalfSteps
<1>3. \A i \in 1 .. Len(RemoveOps) :
        /\ Rest(RemoveOps, i) # <<>> /\ Head(Rest(RemoveOps, i)) = RemoveOps[i]
        /\ Tail(Rest(RemoveOps, i)) = Rest(RemoveOps, i + 1)
        /\ Half(RemoveOps, i) # <<>> /\ Head(Half(RemoveOps, i)) = Op(RemoveOps[i].verb, "v6")
        /\ Tail(Half(RemoveOps, i)) = Rest(RemoveOps, i + 1)
  BY <1>1, RestSteps, HalfSteps
<1>4. Rest(InstallOps, 1) = InstallOps /\ Rest(InstallOps, Len(InstallOps) + 1) = <<>>
  BY <1>1, RestEnds
<1>5. Rest(RemoveOps, 1) = RemoveOps /\ Rest(RemoveOps, Len(RemoveOps) + 1) = <<>>
  BY <1>1, RestEnds
<1>6. Rest(InstallOps, Final) = <<>> /\ Rest(RemoveOps, 4) = <<>>
  <2>1. Len(InstallOps) + 1 = Final /\ Len(RemoveOps) + 1 = 4
    BY <1>1, HostGuardsAssumption DEF Final
  <2> QED
    BY <1>4, <1>5, <2>1
<1>7. 1 .. Len(InstallOps) = 1 .. Final - 1 /\ 1 .. Len(RemoveOps) = 1 .. 3
  BY <1>1
<1> QED
  BY <1>2, <1>3, <1>4, <1>5, <1>6, <1>7

(* The command at hand turned its family of chain c into that of d. *)
Turned(c, d) ==
  /\ Possible(c[ChainFam]) /\ d[ChainFam] = Applied(c[ChainFam])
  /\ \A f \in Fams \ {ChainFam} : d[f] = c[f]

ChainRecord == [exists : BOOLEAN, rules : Nat, jumps : Nat]

Chain(n, m) == [exists |-> TRUE, rules |-> n, jumps |-> m]

LEMMA SameChain ==
  ASSUME NEW x \in ChainRecord, NEW y \in ChainRecord,
         x.exists = y.exists, x.rules = y.rules, x.jumps = y.jumps
  PROVE  x = y
BY DEF ChainRecord

LEMMA ChainUpdates ==
  ASSUME NEW n \in Nat, NEW m \in Nat
  PROVE  /\ MoreRules(Chain(n, m)) = Chain(n + 1, m)
         /\ MoreJumps(Chain(n, m)) = Chain(n, m + 1)
         /\ NoJumps(Chain(n, m)) = Chain(n, 0)
         /\ NewChain = Chain(0, 0)
<1> DEFINE r == MoreRules(Chain(n, m))
           j == MoreJumps(Chain(n, m))
           z == NoJumps(Chain(n, m))
           r1 == Chain(n + 1, m)
           j1 == Chain(n, m + 1)
           z1 == Chain(n, 0)
           e1 == Chain(0, 0)
<1>1. r1 \in ChainRecord /\ j1 \in ChainRecord /\ z1 \in ChainRecord /\ e1 \in ChainRecord
  BY DEF Chain, ChainRecord
<1>2. Chain(n, m) \in ChainRecord /\ NoChain \in ChainRecord
  BY DEF Chain, NoChain, ChainRecord
<1>3. Chain(n, m).rules + 1 \in Nat /\ Chain(n, m).jumps + 1 \in Nat
  BY DEF Chain
<1>4. r \in ChainRecord /\ j \in ChainRecord /\ z \in ChainRecord /\ NewChain \in ChainRecord
  BY <1>2, <1>3 DEF ChainRecord, MoreRules, MoreJumps, NoJumps, NewChain
<1>5. r.exists = r1.exists /\ r.rules = r1.rules /\ r.jumps = r1.jumps
  BY DEF Chain, MoreRules
<1>6. j.exists = j1.exists /\ j.rules = j1.rules /\ j.jumps = j1.jumps
  BY DEF Chain, MoreJumps
<1>7. z.exists = z1.exists /\ z.rules = z1.rules /\ z.jumps = z1.jumps
  BY DEF Chain, NoJumps
<1>8. NewChain.exists = e1.exists /\ NewChain.rules = e1.rules /\ NewChain.jumps = e1.jumps
  BY DEF Chain, NoChain, NewChain
<1> HIDE DEF r, j, z, r1, j1, z1, e1
<1>9. r = r1 /\ j = j1 /\ z = z1 /\ NewChain = e1
  BY <1>1, <1>4, <1>5, <1>6, <1>7, <1>8, SameChain
<1> QED
  BY <1>9 DEF r, j, z, r1, j1, z1, e1

LEMMA ChainShapes ==
  /\ \A n, m : Chain(n, m).exists = TRUE /\ Chain(n, m).rules = n /\ Chain(n, m).jumps = m
  /\ FullChain = Chain(Rules, 1)
  /\ \A n \in 0 .. Rules, m \in 0 .. 1 : Fam(Chain(n, m))
<1>1. \A n, m : Chain(n, m).exists = TRUE /\ Chain(n, m).rules = n /\ Chain(n, m).jumps = m
  BY DEF Chain
<1>2. FullChain = Chain(Rules, 1)
  BY DEF Chain, FullChain
<1>3. \A n \in 0 .. Rules, m \in 0 .. 1 : Fam(Chain(n, m))
  BY DEF Chain, Fam
<1> QED
  BY <1>1, <1>2, <1>3

(* The three operations that take a chain down: a step for IPv4, for IPv6, *)
(* and one that is impossible. *)
Takedown(i) == CASE i = 1 -> "unjump" [] i = 2 -> "flush" [] i = 3 -> "delete"

LEMMA TakedownOps ==
  ASSUME NEW i \in 1 .. 3
  PROVE  RemoveOps[i] = Op(Takedown(i), "both") /\ InstallOps[i] = Op(Takedown(i), "both")
BY RemoveProgram, InstallProgramOps DEF Takedown

LEMMA TakedownRest ==
  ASSUME NEW c, NEW d, Fam(c["v4"]), Fam(c["v6"]), Turned(c, d),
         NEW i \in 1 .. 3, op = Op(Takedown(i), "both")
  PROVE  /\ Fam(d["v4"]) /\ Fam(d["v6"]) /\ op.arg = "both"
         /\ Flushed(c, i) => HalfFlushed(d, i)
         /\ Cleaned(c, i) => HalfCleaned(d, i)
<1> USE HostGuardsAssumption
<1>0. op.verb = Takedown(i) /\ op.arg = "both"
  BY DEF Op
<1>1. CASE i = 1
  <2>1. op.verb = "unjump"
    BY <1>0, <1>1 DEF Takedown
  <2>2. c["v4"].jumps > 0 /\ d["v4"] = [c["v4"] EXCEPT !.jumps = @ - 1] /\ d["v6"] = c["v6"]
    BY <1>0, <2>1 DEF Turned, ChainFam, Fams, Possible, Applied
  <2>3. Fam(d["v4"]) /\ Fam(d["v6"]) /\ d["v4"].jumps = 0 /\ d["v4"].exists = c["v4"].exists
    BY <2>2 DEF Fam, NoChain
  <2> QED
    BY <1>0, <1>1, <2>2, <2>3 DEF HalfFlushed, HalfCleaned, Flushed, Cleaned
<1>2. CASE i = 2
  <2>1. op.verb = "flush"
    BY <1>0, <1>2 DEF Takedown
  <2>2. c["v4"].exists /\ d["v4"] = [c["v4"] EXCEPT !.rules = 0] /\ d["v6"] = c["v6"]
    BY <1>0, <2>1 DEF Turned, ChainFam, Fams, Possible, Applied
  <2>3. d["v4"].rules = 0 /\ d["v4"].exists /\ d["v4"].jumps = c["v4"].jumps
    BY <2>2 DEF Fam
  <2>4. Fam(d["v4"]) /\ Fam(d["v6"])
    BY <2>2 DEF Fam, NoChain
  <2>5. HalfFlushed(d, 2)
    BY <2>3 DEF HalfFlushed
  <2>6. Cleaned(c, 2) => HalfCleaned(d, 2)
    <3> SUFFICES ASSUME Cleaned(c, 2) PROVE HalfCleaned(d, 2)
      OBVIOUS
    <3>1. Lowered(c)
      BY DEF Cleaned
    <3>2. Lowered(d)
      BY <2>2, <2>3, <3>1 DEF Lowered, Fams
    <3> QED
      BY <2>3, <3>2 DEF HalfCleaned
  <2> QED
    BY <1>0, <1>2, <2>3, <2>4, <2>5, <2>6
<1>3. CASE i = 3
  <2>1. op.verb = "delete"
    BY <1>0, <1>3 DEF Takedown
  <2>2. d["v4"] = NoChain /\ d["v6"] = c["v6"]
    BY <1>0, <2>1 DEF Turned, ChainFam, Fams, Applied
  <2>3. Fam(d["v4"]) /\ Fam(d["v6"]) /\ d["v4"].jumps = 0 /\ d["v4"].rules = 0
    BY <2>2 DEF Fam, NoChain
  <2> QED
    BY <1>0, <1>3, <2>2, <2>3 DEF HalfFlushed, HalfCleaned, Flushed, Cleaned, Lowered, Fams
<1> QED
  BY <1>1, <1>2, <1>3

LEMMA TakedownHalf ==
  ASSUME NEW c, NEW d, Fam(c["v4"]), Fam(c["v6"]), Turned(c, d),
         NEW i \in 1 .. 3, op = Op(Takedown(i), "v6")
  PROVE  /\ Fam(d["v4"]) /\ Fam(d["v6"])
         /\ HalfFlushed(c, i) => Flushed(d, i + 1)
         /\ HalfCleaned(c, i) => Cleaned(d, i + 1)
<1> USE HostGuardsAssumption
<1>0. op.arg = "v6" /\ op.verb = Takedown(i) /\ d["v4"] = c["v4"]
  BY DEF Op, Turned, ChainFam, Fams
<1>1. CASE i = 1
  <2>1. op.verb = "unjump"
    BY <1>0, <1>1 DEF Takedown
  <2>2. c["v6"].jumps > 0 /\ d["v6"] = [c["v6"] EXCEPT !.jumps = @ - 1]
    BY <1>0, <2>1 DEF Turned, ChainFam, Possible, Applied
  <2>3. /\ Fam(d["v6"]) /\ d["v6"].jumps = 0
        /\ d["v6"].exists = c["v6"].exists /\ d["v6"].rules = c["v6"].rules
    BY <2>2 DEF Fam, NoChain
  <2> QED
    BY <1>0, <1>1, <2>3 DEF HalfFlushed, HalfCleaned, Flushed, Cleaned, Lowered, Fams
<1>2. CASE i = 2
  <2>1. op.verb = "flush"
    BY <1>0, <1>2 DEF Takedown
  <2>2. c["v6"].exists /\ d["v6"] = [c["v6"] EXCEPT !.rules = 0]
    BY <1>0, <2>1 DEF Turned, ChainFam, Possible, Applied
  <2>3. d["v6"].rules = 0 /\ d["v6"].exists /\ d["v6"].jumps = c["v6"].jumps
    BY <2>2 DEF Fam
  <2>4. Fam(d["v6"])
    BY <2>2 DEF Fam, NoChain
  <2>5. HalfFlushed(c, 2) => Flushed(d, 3)
    BY <1>0, <2>3 DEF HalfFlushed, Flushed
  <2>6. HalfCleaned(c, 2) => Cleaned(d, 3)
    <3> SUFFICES ASSUME HalfCleaned(c, 2) PROVE Cleaned(d, 3)
      OBVIOUS
    <3>1. Lowered(c) /\ c["v4"].exists
      BY <2>2 DEF HalfCleaned
    <3>2. Lowered(d) /\ d["v4"].exists
      BY <1>0, <2>3, <3>1 DEF Lowered, Fams
    <3> QED
      BY <3>2 DEF Cleaned
  <2> QED
    BY <1>0, <1>2, <2>4, <2>5, <2>6
<1>3. CASE i = 3
  <2>1. op.verb = "delete"
    BY <1>0, <1>3 DEF Takedown
  <2>2. d["v6"] = NoChain
    BY <1>0, <2>1 DEF Turned, ChainFam, Applied
  <2>3. Fam(d["v6"]) /\ d["v6"].jumps = 0 /\ d["v6"].rules = 0
    BY <2>2 DEF Fam, NoChain
  <2> QED
    BY <1>0, <1>3, <2>2, <2>3 DEF HalfFlushed, HalfCleaned, Flushed, Cleaned, Lowered, Fams
<1> QED
  BY <1>1, <1>2, <1>3

LEMMA TakedownFails ==
  ASSUME NEW c, Fam(c["v4"]), Fam(c["v6"]), ~Possible(c[ChainFam]), NEW i \in 1 .. 3
  PROVE  /\ op = Op(Takedown(i), "both") =>
              /\ Flushed(c, i) => Flushed(c, i + 1)
              /\ Flushed(c, i) /\ Cleaned(c, i) => Cleaned(c, i + 1)
         /\ op = Op(Takedown(i), "v6") =>
              /\ HalfFlushed(c, i) => Flushed(c, i + 1)
              /\ HalfFlushed(c, i) /\ HalfCleaned(c, i) => Cleaned(c, i + 1)
<1>1. ASSUME op = Op(Takedown(i), "both")
      PROVE  /\ Flushed(c, i) => Flushed(c, i + 1)
             /\ Flushed(c, i) /\ Cleaned(c, i) => Cleaned(c, i + 1)
  <2>1. op.verb = Takedown(i) /\ op.arg = "both" /\ ~Possible(c["v4"])
    BY <1>1 DEF Op, ChainFam
  <2>2. CASE i = 1
    <3>1. c["v4"].jumps = 0
      BY <2>1, <2>2 DEF Takedown, Possible, Fam
    <3> QED
      BY <2>2, <3>1 DEF Flushed, Cleaned, Lowered, Fams, Fam
  <2>3. CASE i = 2
    <3>1. ~c["v4"].exists
      BY <2>1, <2>3 DEF Takedown, Possible
    <3>2. c["v4"].rules = 0 /\ (Flushed(c, 2) => c["v6"].rules = 0)
      BY <3>1 DEF Fam, NoChain, Flushed
    <3> QED
      BY <2>3, <3>2 DEF Flushed, Cleaned
  <2>4. CASE i = 3
    <3>1. Flushed(c, 3) => Flushed(c, 4)
      BY DEF Flushed
    <3>2. ASSUME Flushed(c, 3), Cleaned(c, 3) PROVE Cleaned(c, 4)
      <4>1. c["v4"].rules = 0 /\ c["v4"].jumps = 0 /\ Lowered(c) /\ (c["v6"].exists => c["v4"].exists)
        BY <3>2 DEF Flushed, Cleaned, Lowered, Fams
      <4>2. ~c["v4"].exists
        BY <2>1, <2>4, <4>1 DEF Takedown, Possible
      <4>3. c["v4"] = NoChain /\ c["v6"] = NoChain
        BY <4>1, <4>2 DEF Fam
      <4> QED
        BY <4>1, <4>3 DEF Cleaned, Fams
    <3> QED
      BY <2>4, <3>1, <3>2
  <2> QED
    BY <2>2, <2>3, <2>4
<1>2. ASSUME op = Op(Takedown(i), "v6")
      PROVE  /\ HalfFlushed(c, i) => Flushed(c, i + 1)
             /\ HalfFlushed(c, i) /\ HalfCleaned(c, i) => Cleaned(c, i + 1)
  <2>1. op.verb = Takedown(i) /\ op.arg = "v6" /\ ~Possible(c["v6"])
    BY <1>2 DEF Op, ChainFam
  <2>2. CASE i = 1
    <3>1. c["v6"].jumps = 0
      BY <2>1, <2>2 DEF Takedown, Possible, Fam
    <3> QED
      BY <2>2, <3>1 DEF HalfFlushed, HalfCleaned, Flushed, Cleaned, Lowered, Fams
  <2>3. CASE i = 2
    <3>1. ~c["v6"].exists
      BY <2>1, <2>3 DEF Takedown, Possible
    <3>2. c["v6"].rules = 0
      BY <3>1 DEF Fam, NoChain
    <3> QED
      BY <2>3, <3>1, <3>2 DEF HalfFlushed, HalfCleaned, Flushed, Cleaned
  <2>4. CASE i = 3
    <3>1. HalfFlushed(c, 3) => Flushed(c, 4)
      BY DEF HalfFlushed, Flushed
    <3>2. ASSUME HalfFlushed(c, 3), HalfCleaned(c, 3) PROVE Cleaned(c, 4)
      <4>1. c["v6"].rules = 0 /\ c["v6"].jumps = 0 /\ Lowered(c) /\ c["v4"] = NoChain
        BY <3>2 DEF HalfFlushed, HalfCleaned, Lowered, Fams
      <4>2. ~c["v6"].exists
        BY <2>1, <2>4, <4>1 DEF Takedown, Possible
      <4>3. c["v6"] = NoChain
        BY <4>2 DEF Fam
      <4> QED
        BY <4>1, <4>3 DEF Cleaned, Fams
    <3> QED
      BY <2>4, <3>1, <3>2
  <2> QED
    BY <2>2, <2>3, <2>4
<1> QED
  BY <1>1, <1>2

(* Whatever a removal is cut at, and wherever an install is given up, the  *)
(* next removal finds what it needs. *)
LEMMA WipeAgain ==
  ASSUME NEW c, NEW i \in 1 .. 4, NEW b \in BOOLEAN, NEW q \in BOOLEAN
  PROVE  /\ Wiped(c, i, b, q) => Wiped(c, 1, b, q)
         /\ i = 2 /\ HalfWiped(c, i, b, q) => Wiped(c, 1, b, q)
         /\ i < 4 /\ HalfWiped(c, i, b, q) => Wiped(c, 1, b, FALSE)
<1>1. Flushed(c, i) => Flushed(c, 1)
  BY DEF Flushed
<1>2. Cleaned(c, i) => Cleaned(c, 1)
  <2>1. CASE i < 4
    BY <2>1 DEF Cleaned, Lowered, Fams
  <2>2. CASE i = 4
    BY <2>2 DEF Cleaned, NoChain, Fams
  <2> QED
    BY <2>1, <2>2
<1>3. i < 4 /\ HalfFlushed(c, i) => Flushed(c, 1)
  BY DEF HalfFlushed, Flushed
<1>4. i = 2 /\ HalfCleaned(c, i) => Cleaned(c, 1)
  BY DEF HalfCleaned, Cleaned, Lowered, Fams
<1> QED
  BY <1>1, <1>2, <1>3, <1>4 DEF Wiped, HalfWiped

LEMMA WipeTwin ==
  ASSUME NEW c, NEW b \in BOOLEAN, NEW q \in BOOLEAN,
         c["v4"].exists = TRUE, c["v6"].jumps <= c["v4"].jumps
  PROVE  Wiped(c, 1, b, q)
BY DEF Wiped, Flushed, Cleaned

LEMMA InstallRest ==
  ASSUME NEW c, NEW d, Fam(c["v4"]), Fam(c["v6"]), Turned(c, d),
         NEW i \in 1 .. Final - 1, op = InstallOps[i], Installed(c, i)
  PROVE  /\ Fam(d["v4"]) /\ Fam(d["v6"])
         /\ op.arg = "both" <=> i \in {1, 2, 3, 4, Final - 1}
         /\ IF op.arg = "both" THEN HalfInstalled(d, i) ELSE Installed(d, i + 1)
<1> USE HostGuardsAssumption
<1>1. CASE i \in 1 .. 3
  <2>1. op = Op(Takedown(i), "both")
    BY <1>1, TakedownOps
  <2>2. /\ Fam(d["v4"]) /\ Fam(d["v6"]) /\ op.arg = "both"
        /\ Flushed(c, i) => HalfFlushed(d, i)
        /\ Cleaned(c, i) => HalfCleaned(d, i)
    BY <1>1, <2>1, TakedownRest
  <2>3. HalfWiped(d, i, ~botched, ~split)
    BY <1>1, <2>2 DEF Installed, Wiped, HalfWiped
  <2> QED
    BY <1>1, <2>2, <2>3 DEF HalfInstalled
<1>4. CASE i = 4
  <2>1. op.verb = "create" /\ op.arg = "both"
    BY <1>4, InstallProgramOps DEF Op
  <2>2. d["v4"] = NewChain /\ d["v6"] = c["v6"]
    BY <2>1 DEF Turned, ChainFam, Fams, Applied, MoreRules, MoreJumps, NewChain
  <2>3. Fam(d["v4"])
    <3>1. 0 \in Nat /\ 0 \in 0 .. Rules /\ 0 \in 0 .. 1
      OBVIOUS
    <3> QED
      BY <2>2, <3>1, ChainUpdates, ChainShapes
  <2>4. Wiped(c, 4, ~botched, ~split)
    BY <1>4 DEF Installed
  <2>5. /\ Fam(d["v6"])
        /\ ~botched => d["v6"].rules = 0
        /\ ~botched /\ ~split => d["v6"] = NoChain
    BY <2>2, <2>4 DEF Wiped, Flushed, Cleaned, Fams
  <2> QED
    BY <1>4, <2>1, <2>2, <2>3, <2>5 DEF HalfInstalled
<1>5. CASE i \in 5 .. 4 + Rules
  <2>1. op.verb = "append" /\ op.arg = "v4"
    <3>1. i \in 5 .. 4 + 2 * Rules /\ i <= 4 + Rules
      BY <1>5
    <3>2. InstallOps[i] = Op("append", "v4")
      BY <3>1, InstallProgramOps
    <3> QED
      BY <3>2 DEF Op
  <2>2. d["v4"] = MoreRules(c["v4"]) /\ d["v6"] = c["v6"]
    BY <2>1 DEF Turned, ChainFam, Fams, Applied, MoreRules, MoreJumps, NewChain
  <2>3. c["v4"] = Chain(i - 5, 0) /\ c["v6"] = Chain(0, 0)
    <3>1. Filled("v4", i) = i - 5 /\ Filled("v6", i) = 0 /\ i # Final /\ i > 4
      BY <1>5 DEF Filled, Final
    <3> QED
      BY <3>1 DEF Installed, Raised, Fams, Chain
  <2>4. d["v4"] = Chain(i - 4, 0) /\ d["v6"] = Chain(0, 0)
    <3>1. (i - 5) + 1 = i - 4 /\ i - 5 \in Nat /\ 0 \in Nat
      BY <1>5
    <3> QED
      BY <2>2, <2>3, <3>1, ChainUpdates
  <2>5. Raised(d, i + 1)
    <3>1. Filled("v4", i + 1) = i - 4 /\ Filled("v6", i + 1) = 0 /\ i + 1 # Final
      BY <1>5 DEF Filled, Final
    <3> QED
      BY <2>4, <3>1 DEF Raised, Fams, Chain
  <2>6. Fam(d["v4"]) /\ Fam(d["v6"])
    <3>1. i - 4 \in 0 .. Rules /\ 0 \in 0 .. Rules /\ 0 \in 0 .. 1
      BY <1>5
    <3> QED
      BY <2>4, <3>1, ChainShapes
  <2>7. i + 1 > 4 /\ i \notin {1, 2, 3, 4, Final - 1}
    BY <1>5 DEF Final
  <2> QED
    BY <2>1, <2>5, <2>6, <2>7 DEF Installed
<1>6. CASE i \in 5 + Rules .. 4 + 2 * Rules
  <2>1. op.verb = "append" /\ op.arg = "v6"
    <3>1. i \in 5 .. 4 + 2 * Rules /\ ~(i <= 4 + Rules)
      BY <1>6
    <3>2. InstallOps[i] = Op("append", "v6")
      BY <3>1, InstallProgramOps
    <3> QED
      BY <3>2 DEF Op
  <2>2. d["v6"] = MoreRules(c["v6"]) /\ d["v4"] = c["v4"]
    BY <2>1 DEF Turned, ChainFam, Fams, Applied, MoreRules, MoreJumps, NewChain
  <2>3. c["v4"] = Chain(Rules, 0) /\ c["v6"] = Chain(i - 5 - Rules, 0)
    <3>1. Filled("v4", i) = Rules /\ Filled("v6", i) = i - 5 - Rules /\ i # Final /\ i > 4
      BY <1>6 DEF Filled, Final
    <3> QED
      BY <3>1 DEF Installed, Raised, Fams, Chain
  <2>4. d["v6"] = Chain(i - 4 - Rules, 0) /\ d["v4"] = Chain(Rules, 0)
    <3>1. (i - 5 - Rules) + 1 = i - 4 - Rules /\ i - 5 - Rules \in Nat /\ 0 \in Nat
      BY <1>6
    <3> QED
      BY <2>2, <2>3, <3>1, ChainUpdates
  <2>5. Raised(d, i + 1)
    <3>1. Filled("v4", i + 1) = Rules /\ Filled("v6", i + 1) = i - 4 - Rules /\ i + 1 # Final
      BY <1>6 DEF Filled, Final
    <3> QED
      BY <2>4, <3>1 DEF Raised, Fams, Chain
  <2>6. Fam(d["v4"]) /\ Fam(d["v6"])
    <3>1. i - 4 - Rules \in 0 .. Rules /\ Rules \in 0 .. Rules /\ 0 \in 0 .. 1
      BY <1>6
    <3> QED
      BY <2>4, <3>1, ChainShapes
  <2>7. i + 1 > 4 /\ i \notin {1, 2, 3, 4, Final - 1}
    BY <1>6 DEF Final
  <2> QED
    BY <2>1, <2>5, <2>6, <2>7 DEF Installed
<1>7. CASE i = Final - 1
  <2>1. op.verb = "jump" /\ op.arg = "both"
    BY <1>7, InstallProgramOps DEF Op
  <2>2. d["v4"] = MoreJumps(c["v4"]) /\ d["v6"] = c["v6"]
    BY <2>1 DEF Turned, ChainFam, Fams, Applied, MoreRules, MoreJumps, NewChain
  <2>3. c["v4"] = Chain(Rules, 0) /\ c["v6"] = Chain(Rules, 0)
    <3>1. Filled("v4", i) = Rules /\ Filled("v6", i) = Rules /\ i # Final /\ i > 4
      BY <1>7 DEF Filled, Final
    <3> QED
      BY <3>1 DEF Installed, Raised, Fams, Chain
  <2>4. d["v4"] = FullChain /\ d["v6"] = NoJumps(FullChain)
    <3>1. 0 + 1 = 1 /\ Rules \in Nat /\ 0 \in Nat /\ 1 \in Nat
      OBVIOUS
    <3>2. NoJumps(FullChain) = Chain(Rules, 0)
      BY <3>1, ChainUpdates, ChainShapes
    <3> QED
      BY <2>2, <2>3, <3>1, <3>2, ChainUpdates, ChainShapes
  <2>5. Fam(d["v4"]) /\ Fam(d["v6"])
    <3>1. Rules \in 0 .. Rules /\ 0 \in 0 .. 1 /\ 1 \in 0 .. 1
      OBVIOUS
    <3>2. NoJumps(FullChain) = Chain(Rules, 0)
      BY ChainUpdates, ChainShapes
    <3> QED
      BY <2>4, <3>1, <3>2, ChainShapes
  <2>6. i > 4
    BY <1>7 DEF Final
  <2> QED
    BY <1>7, <2>1, <2>4, <2>5, <2>6 DEF HalfInstalled
<1>8. i \in {1, 2, 3, 4} \/ i \in 5 .. 4 + Rules \/ i \in 5 + Rules .. 4 + 2 * Rules \/ i = Final - 1
  BY DEF Final
<1> QED
  BY <1>1, <1>4, <1>5, <1>6, <1>7, <1>8

LEMMA InstallHalf ==
  ASSUME NEW c, NEW d, Fam(c["v4"]), Fam(c["v6"]), Turned(c, d),
         NEW i \in {1, 2, 3, 4, Final - 1}, op = Op(InstallOps[i].verb, "v6"), HalfInstalled(c, i)
  PROVE  Fam(d["v4"]) /\ Fam(d["v6"]) /\ Installed(d, i + 1)
<1> USE HostGuardsAssumption
<1>0. op.arg = "v6" /\ op.verb = InstallOps[i].verb /\ d["v4"] = c["v4"]
  BY DEF Op, Turned, ChainFam, Fams
<1>1. CASE i \in 1 .. 3
  <2>1. op = Op(Takedown(i), "v6")
    BY <1>1, TakedownOps DEF Op
  <2>2. /\ Fam(d["v4"]) /\ Fam(d["v6"])
        /\ HalfFlushed(c, i) => Flushed(d, i + 1)
        /\ HalfCleaned(c, i) => Cleaned(d, i + 1)
    BY <1>1, <2>1, TakedownHalf
  <2>3. Wiped(d, i + 1, ~botched, ~split)
    BY <1>1, <2>2 DEF HalfInstalled, Wiped, HalfWiped
  <2> QED
    BY <1>1, <2>2, <2>3 DEF Installed
<1>4. CASE i = 4
  <2>1. op.verb = "create"
    BY <1>0, <1>4, InstallProgramOps DEF Op
  <2>2. d["v6"] = Chain(0, 0) /\ d["v4"] = Chain(0, 0)
    <3>1. d["v6"] = NewChain
      BY <1>0, <2>1 DEF Turned, ChainFam, Applied, NewChain
    <3>2. d["v4"] = NewChain
      BY <1>0, <1>4 DEF HalfInstalled
    <3>3. 0 \in Nat
      OBVIOUS
    <3> QED
      BY <3>1, <3>2, <3>3, ChainUpdates
  <2>3. Fam(d["v6"]) /\ Fam(d["v4"])
    <3>1. 0 \in 0 .. Rules /\ 0 \in 0 .. 1
      OBVIOUS
    <3> QED
      BY <2>2, <3>1, ChainShapes
  <2>4. Filled("v4", 5) = 0 /\ Filled("v6", 5) = 0 /\ 5 # Final
    BY DEF Filled, Final
  <2>5. Raised(d, 5)
    BY <2>2, <2>4 DEF Raised, Fams, Chain
  <2> QED
    BY <1>4, <2>3, <2>5 DEF Installed
<1>5. CASE i = Final - 1
  <2>1. op.verb = "jump" /\ i > 4 /\ i + 1 = Final
    BY <1>0, <1>5, InstallProgramOps DEF Op, Final
  <2>2. d["v6"] = FullChain /\ d["v4"] = FullChain
    <3>1. c["v4"] = FullChain /\ c["v6"] = NoJumps(FullChain)
      BY <1>5, <2>1 DEF HalfInstalled
    <3>2. d["v6"] = MoreJumps(c["v6"])
      BY <1>0, <2>1 DEF Turned, ChainFam, Applied, MoreJumps
    <3>3. 0 + 1 = 1 /\ Rules \in Nat /\ 0 \in Nat /\ 1 \in Nat
      OBVIOUS
    <3>4. NoJumps(FullChain) = Chain(Rules, 0)
      BY <3>3, ChainUpdates, ChainShapes
    <3>5. d["v6"] = FullChain
      BY <3>1, <3>2, <3>3, <3>4, ChainUpdates, ChainShapes
    <3> QED
      BY <1>0, <3>1, <3>5
  <2>3. Fam(d["v6"]) /\ Fam(d["v4"])
    BY <2>2 DEF Fam, FullChain
  <2>4. Filled("v4", Final) = Rules /\ Filled("v6", Final) = Rules
    BY DEF Filled, Final
  <2>5. Raised(d, Final)
    BY <2>2, <2>4 DEF Raised, FullChain, Fams
  <2>6. ~(i + 1 <= 4)
    BY <2>1, <1>5 DEF Final
  <2> QED
    BY <2>1, <2>3, <2>5, <2>6 DEF Installed
<1> QED
  BY <1>1, <1>4, <1>5

(* An operation of the install that fails: the next one, or an undo. *)
LEMMA InstallFails ==
  ASSUME NEW c, Fam(c["v4"]), Fam(c["v6"]), NEW i \in 1 .. Final - 1,
         \/ op = InstallOps[i] /\ Installed(c, i)
         \/ /\ i \in {1, 2, 3, 4, Final - 1}
            /\ op = Op(InstallOps[i].verb, "v6") /\ HalfInstalled(c, i),
         NEW b \in BOOLEAN, b => ~botched, NEW q \in BOOLEAN, q => ~split
  PROVE  /\ i \in 1 .. 3 /\ (b => ~Possible(c[ChainFam])) => Wiped(c, i + 1, b, q)
         /\ i \notin 1 .. 3 => Wiped(c, 1, b, q)
<1> USE HostGuardsAssumption
<1>1. ASSUME i \in 1 .. 3, b => ~Possible(c[ChainFam]) PROVE Wiped(c, i + 1, b, q)
  <2>1. CASE ~b
    BY <2>1 DEF Wiped
  <2>2. CASE b /\ op = InstallOps[i] /\ Installed(c, i)
    <3>1. op = Op(Takedown(i), "both") /\ Wiped(c, i, ~botched, ~split)
      BY <1>1, <2>2, TakedownOps DEF Installed
    <3>2. /\ Flushed(c, i) => Flushed(c, i + 1)
          /\ Flushed(c, i) /\ Cleaned(c, i) => Cleaned(c, i + 1)
      BY <1>1, <2>2, <3>1, TakedownFails
    <3> QED
      BY <2>2, <3>1, <3>2 DEF Wiped
  <2>3. CASE b /\ op = Op(InstallOps[i].verb, "v6") /\ HalfInstalled(c, i)
    <3>1. op = Op(Takedown(i), "v6") /\ HalfWiped(c, i, ~botched, ~split)
      BY <1>1, <2>3, TakedownOps DEF HalfInstalled, Op
    <3>2. /\ HalfFlushed(c, i) => Flushed(c, i + 1)
          /\ HalfFlushed(c, i) /\ HalfCleaned(c, i) => Cleaned(c, i + 1)
      BY <1>1, <2>3, <3>1, TakedownFails
    <3> QED
      BY <2>3, <3>1, <3>2 DEF Wiped, HalfWiped
  <2> QED
    BY <2>1, <2>2, <2>3
<1>2. ASSUME i \notin 1 .. 3 PROVE Wiped(c, 1, b, q)
  <2>1. CASE i = 4 /\ Installed(c, i)
    <3>1. Wiped(c, 4, ~botched, ~split)
      BY <2>1 DEF Installed
    <3>2. Wiped(c, 4, b, q)
      BY <3>1 DEF Wiped
    <3>3. 4 \in 1 .. 4
      OBVIOUS
    <3> QED
      BY <3>2, <3>3, WipeAgain
  <2>2. CASE i = 4 /\ HalfInstalled(c, i)
    <3>1. c["v4"] = NewChain /\ NewChain = Chain(0, 0)
      BY <2>2, ChainUpdates DEF HalfInstalled
    <3>2. c["v4"].exists = TRUE /\ c["v4"].jumps = 0
      BY <3>1, ChainShapes
    <3>3. b => Flushed(c, 1)
      BY <3>2 DEF Flushed
    <3>4. b /\ q => c["v6"] = NoChain
      BY <2>2 DEF HalfInstalled
    <3>5. b /\ q => Cleaned(c, 1)
      BY <3>2, <3>4 DEF Cleaned, NoChain
    <3> QED
      BY <3>3, <3>5 DEF Wiped
  <2>3. CASE i > 4 /\ Installed(c, i)
    <3>1. c["v4"].exists = TRUE /\ c["v6"].jumps <= c["v4"].jumps
      BY <2>3 DEF Installed, Raised, Fams
    <3> QED
      BY <3>1, WipeTwin
  <2>4. CASE i > 4 /\ HalfInstalled(c, i)
    <3>1. c["v4"] = Chain(Rules, 1) /\ c["v6"] = Chain(Rules, 0)
      <4>1. c["v4"] = FullChain /\ c["v6"] = NoJumps(FullChain)
        BY <2>4 DEF HalfInstalled
      <4> QED
        BY <4>1, ChainUpdates, ChainShapes
    <3>2. c["v4"].exists = TRUE /\ c["v6"].jumps <= c["v4"].jumps
      BY <3>1, ChainShapes
    <3> QED
      BY <3>2, WipeTwin
  <2>5. i = 4 \/ i > 4
    BY <1>2
  <2> QED
    BY <2>1, <2>2, <2>3, <2>4, <2>5
<1> QED
  BY <1>1, <1>2

LEMMA ChainInit == Init => ChainOK
<1> SUFFICES ASSUME Init PROVE ChainOK
  OBVIOUS
<1> USE HostGuardsAssumption
<1>1. \A g \in Chains, f \in Fams : chain[g][f] = NoChain
  BY DEF Init
<1>2. NoChain \in [exists : BOOLEAN, rules : 0 .. Rules, jumps : 0 .. 1] /\ NoChain.jumps = 0
  BY DEF NoChain
<1>3. chain \in [Chains -> [Fams -> [exists : BOOLEAN, rules : 0 .. Rules, jumps : 0 .. 1]]]
  BY <1>2 DEF Init
<1>4. /\ "none" \notin Chains /\ stage = "none" /\ guards = {} /\ outcome = "none"
      /\ "none" \notin Graceful
  BY DEF Init, Chains, Graceful
<1>5. \A g \in Chains : Wiped(chain[g], 1, ~botched, ~split)
  BY <1>1 DEF Wiped, Flushed, Cleaned, Fams, NoChain
<1>6. \A g \in Chains, f \in Fams : Fam(chain[g][f])
  BY <1>1, <1>2 DEF Fam
<1> QED
  BY <1>3, <1>4, <1>5, <1>6 DEF ChainOK

LEMMA ChainElsewhere ==
  ASSUME ChainOK, ProcessTyped, Commanded, stage \notin Chains, UNCHANGED chain
  PROVE  ChainOK'
<1>1. UNCHANGED <<stage, guards, outcome, cfg, split>> /\ (~botched' => ~botched)
  BY DEF Commanded, procRest
<1>2. Wanted(cfg)' = Wanted(cfg)
  BY <1>1 DEF Wanted, RouteAll
<1>3. \A g \in Chains : stage # g
  OBVIOUS
<1>4. /\ chain' \in [Chains -> [Fams -> [exists : BOOLEAN, rules : 0 .. Rules, jumps : 0 .. 1]]]
      /\ \A g \in Chains, f \in Fams : Fam(chain'[g][f])
  BY DEF ChainOK
<1>5. \A g \in Chains : g \in guards' => \A f \in Fams : chain'[g][f] = FullChain
  BY <1>1, <1>3 DEF ChainOK
<1>6. ASSUME NEW g \in Chains PROVE Wiped(chain[g], 1, ~botched, ~split)'
  <2>1. Wiped(chain[g], 1, ~botched, ~split)
    BY <1>3 DEF ChainOK
  <2>2. Wiped(chain'[g], 1, ~botched', ~split')
    BY <1>1, <2>1 DEF Wiped
  <2> QED
    BY <2>2
<1>7. stage' # "ks" /\ outcome' = "refused" /\ ~botched' => Refused(chain["ks"])'
  BY <1>1 DEF ChainOK, Refused
<1>8. stage' # "ks" /\ outcome' \in Graceful /\ ~botched' /\ Wanted(cfg)'.ks /\ "ks" \notin guards' =>
       Gone(chain["ks"])'
  BY <1>1, <1>2 DEF ChainOK, Gone
<1> QED
  BY <1>1, <1>3, <1>4, <1>5, <1>6, <1>7, <1>8 DEF ChainOK

LEMMA ChainBegin ==
  ASSUME ChainOK, ProcessTyped, ControlOK, BeginStage
  PROVE  ChainOK'
<1>1. /\ stage = "none" /\ UNCHANGED <<chain, guards, outcome, cfg, faults, split, botched, up>>
      /\ mode' = (IF up = "starting" THEN "install" ELSE "remove")
      /\ todo' = (IF up = "starting" THEN InstallProgram(stage') ELSE DropProgram(stage'))
      /\ stage' \in stages /\ up \in {"starting", "stopping"}
  BY BeginStep
<1>2. Wanted(cfg)' = Wanted(cfg)
  BY <1>1 DEF Wanted, RouteAll
<1>3. \A g \in Chains : stage # g
  BY <1>1 DEF Chains
<1>4. ASSUME NEW g \in Chains, stage' = g, up = "starting"
      PROVE  Installing(chain[g])'
  <2>1. todo' = Rest(InstallOps, 1)
    BY <1>1, <1>4, ChainSteps DEF InstallProgram, Chains
  <2>2. Wiped(chain[g], 1, ~botched, ~split)
    BY <1>3 DEF ChainOK
  <2>3. Installed(chain[g], 1)'
    BY <1>1, <2>2 DEF Installed
  <2>4. 1 \in 1 .. Final
    BY HostGuardsAssumption DEF Final
  <2> QED
    BY <1>4, <2>1, <2>3, <2>4 DEF Installing
<1>5. ASSUME NEW g \in Chains, stage' = g, up = "stopping"
      PROVE  Removing(chain[g])'
  <2>1. todo' = Rest(RemoveOps, 1)
    BY <1>1, <1>5, ChainSteps DEF DropProgram, Chains
  <2>2. g \in guards
    BY <1>1, <1>5 DEF ControlOK
  <2>3. \A f \in Fams : chain[g][f] = FullChain
    BY <1>3, <2>2 DEF ChainOK
  <2>4. chain'[g]["v4"].exists = TRUE /\ chain'[g]["v6"].jumps <= chain'[g]["v4"].jumps
    BY <1>1, <2>3 DEF FullChain, Fams
  <2>5. (~botched') \in BOOLEAN /\ Uncut' \in BOOLEAN
    BY Zenon DEF Uncut
  <2>6. Wiped(chain'[g], 1, ~botched', Uncut')
    BY <2>4, <2>5, WipeTwin
  <2> QED
    BY <2>1, <2>6 DEF Removing
<1>6. \A g \in Chains : stage' = g =>
        IF mode' = "install" THEN Installing(chain[g])' ELSE Removing(chain[g])'
  BY <1>1, <1>4, <1>5
<1>7. \A g \in Chains : stage' # g =>
        /\ g \in guards' => \A f \in Fams : chain'[g][f] = FullChain
        /\ Wiped(chain[g], 1, ~botched, ~split)'
  BY <1>1, <1>3 DEF ChainOK
<1>8. /\ stage' # "ks" /\ outcome' = "refused" /\ ~botched' => Refused(chain["ks"])'
      /\ stage' # "ks" /\ outcome' \in Graceful /\ ~botched' /\ Wanted(cfg)'.ks /\ "ks" \notin guards' =>
           Gone(chain["ks"])'
  BY <1>1, <1>2 DEF ChainOK, Refused, Gone
<1> QED
  BY <1>1, <1>6, <1>7, <1>8 DEF ChainOK

(* At the end of an install both families are raised; at the end of a      *)
(* removal both are down. *)
LEMMA ChainEnds ==
  ASSUME NEW c, todo = <<>>
  PROVE  /\ Installing(c) => \A f \in Fams : c[f] = FullChain
         /\ Removing(c) => Wiped(c, 4, ~botched, Uncut)
<1> USE HostGuardsAssumption
<1>1. ASSUME Installing(c) PROVE \A f \in Fams : c[f] = FullChain
  <2>1. PICK i \in 1 .. Final :
          \/ todo = Rest(InstallOps, i) /\ Installed(c, i)
          \/ i \in {1, 2, 3, 4, Final - 1} /\ todo = Half(InstallOps, i)
    BY <1>1 DEF Installing
  <2>2. {1, 2, 3, 4, Final - 1} \subseteq 1 .. Final - 1
    BY DEF Final
  <2>3. i = Final /\ Installed(c, Final)
    <3>1. i \notin 1 .. Final - 1
      BY <2>1, <2>2, ChainSteps
    <3> QED
      BY <2>1, <2>2, <3>1 DEF Final
  <2>4. Filled("v4", Final) = Rules /\ Filled("v6", Final) = Rules /\ Final > 4
    BY DEF Filled, Final
  <2> QED
    BY <2>3, <2>4 DEF Installed, Raised, FullChain, Fams
<1>2. ASSUME Removing(c) PROVE Wiped(c, 4, ~botched, Uncut)
  <2>1. PICK i \in 1 .. 4 : \/ todo = Rest(RemoveOps, i) /\ Wiped(c, i, ~botched, Uncut)
                            \/ i < 4 /\ todo = Half(RemoveOps, i)
    BY <1>2 DEF Removing
  <2>2. i = 4
    <3>1. i \notin 1 .. 3
      BY <2>1, ChainSteps
    <3> QED
      BY <3>1
  <2> QED
    BY <2>1, <2>2
<1> QED
  BY <1>1, <1>2

LEMMA ChainEnd ==
  ASSUME ChainOK, ProcessTyped, ControlOK, EndStage
  PROVE  ChainOK'
<1>1. /\ stage' = "none" /\ todo = <<>> /\ UNCHANGED <<chain, split, cfg, faults>>
      /\ mode \in {"install", "undo", "remove"}
      /\ mode = "install" => guards' = guards \cup {stage}
      /\ mode = "undo" => guards' = guards
      /\ mode = "remove" => guards' = guards \ {stage}
      /\ outcome' = outcome \/ (outcome' = "refused" /\ stage = "ks" /\ mode = "undo")
  BY EndStep DEF ProcessTyped
<1>2. Wanted(cfg)' = Wanted(cfg) /\ botched' = botched
  BY <1>1 DEF Wanted, RouteAll, EndStage, ghosts
<1>3. mode # "remove" /\ stage # "none" => up = "starting" /\ stage \notin guards /\ outcome = "none"
  BY DEF ControlOK, ProcessTyped
<1>4. stage # "none" /\ "none" \notin Graceful /\ "refused" \notin Graceful
  BY DEF EndStage, Graceful
<1>5. ASSUME NEW g \in Chains, g # stage
      PROVE  /\ g \in guards' => \A f \in Fams : chain'[g][f] = FullChain
             /\ Wiped(chain[g], 1, ~botched, ~split)'
  <2>1. Wiped(chain[g], 1, ~botched, ~split)
    BY <1>5 DEF ChainOK
  <2> QED
    BY <1>1, <1>2, <1>5, <2>1 DEF ChainOK
<1>6. ASSUME NEW g \in Chains, g = stage
      PROVE  /\ g \in guards' => \A f \in Fams : chain'[g][f] = FullChain
             /\ Wiped(chain[g], 1, ~botched, ~split)'
             /\ mode = "undo" /\ ~botched' => Refused(chain[g])'
             /\ mode = "remove" /\ ~botched' => Gone(chain[g])'
  <2>1. CASE mode = "install"
    <3>1. \A f \in Fams : chain[g][f] = FullChain
      BY <1>1, <1>6, <2>1, ChainEnds DEF ChainOK
    <3>2. chain'[g]["v4"].exists = TRUE /\ chain'[g]["v6"].jumps <= chain'[g]["v4"].jumps
      BY <1>1, <3>1 DEF Fams, FullChain
    <3>3. Wiped(chain'[g], 1, ~botched', ~split')
      BY <3>2, WipeTwin, Zenon
    <3> QED
      BY <1>1, <2>1, <3>1, <3>3
  <2>2. CASE mode # "install"
    <3>1. Removing(chain[g])
      BY <1>6, <2>2 DEF ChainOK
    <3>2. Wiped(chain[g], 4, ~botched, Uncut)
      BY <1>1, <3>1, ChainEnds
    <3>3. Wiped(chain[g], 4, ~botched, ~split)
      BY <3>2 DEF Wiped, Uncut
    <3>4. Wiped(chain[g], 1, ~botched, ~split)
      <4>1. (~botched) \in BOOLEAN /\ (~split) \in BOOLEAN
        BY Zenon
      <4>2. 4 \in 1 .. 4
        OBVIOUS
      <4> QED
        BY <3>3, <4>1, <4>2, WipeAgain
    <3>5. g \notin guards'
      BY <1>1, <1>3, <1>4, <1>6, <2>2
    <3>6. mode = "undo" /\ ~botched => Refused(chain[g])
      BY <3>3 DEF Wiped, Flushed, Cleaned, Refused, Fams
    <3>7. mode = "remove" /\ ~botched => Gone(chain[g])
      BY <3>2 DEF Wiped, Cleaned, Gone, Uncut
    <3>8. Wiped(chain[g], 1, ~botched, ~split)'
      BY <1>1, <1>2, <3>4
    <3>9. (mode = "undo" /\ ~botched' => Refused(chain[g])') /\ (mode = "remove" /\ ~botched' => Gone(chain[g])')
      BY <1>1, <1>2, <3>6, <3>7 DEF Refused, Gone
    <3> QED
      BY <3>5, <3>8, <3>9
  <2> QED
    BY <2>1, <2>2
<1>7. outcome' = "refused" /\ ~botched' => Refused(chain["ks"])'
  <2>1. CASE stage = "ks"
    <3>1. outcome' = "refused" => mode = "undo" \/ (mode = "remove" /\ outcome = "refused")
      BY <1>1, <1>3, <1>4
    <3>2. Gone(chain["ks"])' => Refused(chain["ks"])'
      BY DEF Gone, Refused, NoChain
    <3> QED
      BY <1>6, <2>1, <3>1, <3>2 DEF Chains
  <2>2. CASE stage # "ks"
    <3>1. outcome' = "refused" /\ ~botched' => Refused(chain["ks"])
      BY <1>1, <1>2, <2>2 DEF ChainOK
    <3> QED
      BY <1>1, <3>1 DEF Refused
  <2> QED
    BY <2>1, <2>2
<1>8. outcome' \in Graceful /\ ~botched' /\ Wanted(cfg)'.ks /\ "ks" \notin guards' =>
        Gone(chain["ks"])'
  <2>1. CASE stage = "ks"
    <3>1. outcome' \in Graceful => mode = "remove"
      BY <1>1, <1>3, <1>4
    <3> QED
      BY <1>6, <2>1, <3>1 DEF Chains
  <2>2. CASE stage # "ks"
    <3>1. outcome' \in Graceful => outcome' = outcome /\ ("ks" \notin guards' => "ks" \notin guards)
      BY <1>1, <1>4, <2>2
    <3>2. outcome' \in Graceful /\ ~botched' /\ Wanted(cfg)'.ks /\ "ks" \notin guards' => Gone(chain["ks"])
      BY <1>1, <1>2, <2>2, <3>1 DEF ChainOK
    <3> QED
      BY <1>1, <3>2 DEF Gone
  <2> QED
    BY <2>1, <2>2
<1>9. /\ chain' \in [Chains -> [Fams -> [exists : BOOLEAN, rules : 0 .. Rules, jumps : 0 .. 1]]]
      /\ \A g \in Chains, f \in Fams : Fam(chain'[g][f])
  BY <1>1 DEF ChainOK
<1>10. \A g \in Chains : stage' # g
  BY <1>1 DEF Chains
<1>11. \A g \in Chains : /\ g \in guards' => \A f \in Fams : chain'[g][f] = FullChain
                         /\ Wiped(chain[g], 1, ~botched, ~split)'
  BY <1>5, <1>6
<1> QED
  BY <1>7, <1>8, <1>9, <1>10, <1>11 DEF ChainOK

LEMMA ChainTurn ==
  ASSUME ChainOK, ProcessTyped, ControlOK,
         (\E c : Start(c)) \/ Run \/ Stop \/ SessionEnds \/ Fail \/ Exit
  PROVE  ChainOK'
<1>1. UNCHANGED <<chain, split, botched, stage, guards, faults>>
  BY DEF Start, Run, Stop, SessionEnds, Fail, Exit, host, ghosts
<1>2. stage = "none"
  BY DEF Start, Run, Stop, SessionEnds, Fail, Exit, ControlOK
<1>3. outcome' \in Graceful => cfg' = cfg /\ (outcome \in Graceful \/ up = "running")
  BY DEF Start, Run, Stop, SessionEnds, Fail, Exit, Graceful
<1>4. outcome' = "refused" => outcome = "refused"
  BY DEF Start, Run, Stop, SessionEnds, Fail, Exit
<1>5. cfg' = cfg => Wanted(cfg)' = Wanted(cfg)
  BY DEF Wanted, RouteAll
<1>6. up = "running" /\ Wanted(cfg).ks => "ks" \in guards
  BY DEF ControlOK, Sure
<1>8. \A g \in Chains : stage # g /\ stage' # g
  BY <1>1, <1>2 DEF Chains
<1>9. /\ chain' \in [Chains -> [Fams -> [exists : BOOLEAN, rules : 0 .. Rules, jumps : 0 .. 1]]]
      /\ \A g \in Chains : /\ \A f \in Fams : Fam(chain'[g][f])
                           /\ g \in guards' => \A f \in Fams : chain'[g][f] = FullChain
                           /\ Wiped(chain[g], 1, ~botched, ~split)'
  BY <1>1, <1>8 DEF ChainOK
<1>10. outcome' = "refused" /\ ~botched' => Refused(chain["ks"])'
  <2>1. outcome' = "refused" /\ ~botched' => Refused(chain["ks"])
    BY <1>1, <1>2, <1>4 DEF ChainOK
  <2> QED
    BY <1>1, <2>1 DEF Refused
<1>11. outcome' \in Graceful /\ ~botched' /\ Wanted(cfg)'.ks /\ "ks" \notin guards' => Gone(chain["ks"])'
  <2>1. outcome' \in Graceful /\ ~botched' /\ Wanted(cfg)'.ks /\ "ks" \notin guards' => Gone(chain["ks"])
    BY <1>1, <1>2, <1>3, <1>5, <1>6 DEF ChainOK
  <2> QED
    BY <1>1, <2>1 DEF Gone
<1> QED
  BY <1>8, <1>9, <1>10, <1>11 DEF ChainOK

(* A crash in the middle of an install, too, leaves what a removal needs. *)
LEMMA InstallCut ==
  ASSUME NEW c, Fam(c["v4"]), Fam(c["v6"]), NEW i \in 1 .. Final
  PROVE  /\ Installed(c, i) => Wiped(c, 1, ~botched, ~split)
         /\ i \in {2, 4, Final - 1} /\ HalfInstalled(c, i) => Wiped(c, 1, ~botched, ~split)
         /\ i \in {1, 3} /\ HalfInstalled(c, i) => Wiped(c, 1, ~botched, FALSE)
<1> USE HostGuardsAssumption
<1>0. (~botched) \in BOOLEAN /\ (~split) \in BOOLEAN
  BY Zenon
<1>1. ASSUME Installed(c, i) PROVE Wiped(c, 1, ~botched, ~split)
  <2>1. CASE i <= 4
    <3>1. Wiped(c, i, ~botched, ~split) /\ i \in 1 .. 4
      BY <1>1, <2>1 DEF Installed
    <3> QED
      BY <1>0, <3>1, WipeAgain
  <2>2. CASE i > 4
    <3>1. c["v4"].exists = TRUE /\ c["v6"].jumps <= c["v4"].jumps
      BY <1>1, <2>2 DEF Installed, Raised, Fams
    <3> QED
      BY <1>0, <3>1, WipeTwin
  <2> QED
    BY <2>1, <2>2
<1>2. ASSUME i = 2, HalfInstalled(c, i) PROVE Wiped(c, 1, ~botched, ~split)
  <2>1. HalfWiped(c, i, ~botched, ~split) /\ i \in 1 .. 4
    BY <1>2 DEF HalfInstalled
  <2> QED
    BY <1>0, <1>2, <2>1, WipeAgain
<1>3. ASSUME i \in {1, 3}, HalfInstalled(c, i) PROVE Wiped(c, 1, ~botched, FALSE)
  <2>1. HalfWiped(c, i, ~botched, ~split) /\ i \in 1 .. 4 /\ i < 4
    BY <1>3 DEF HalfInstalled
  <2> QED
    BY <1>0, <2>1, WipeAgain
<1>4. ASSUME i = 4, HalfInstalled(c, i) PROVE Wiped(c, 1, ~botched, ~split)
  <2>1. c["v4"] = NewChain /\ NewChain = Chain(0, 0)
    BY <1>4, ChainUpdates DEF HalfInstalled
  <2>2. c["v4"].exists = TRUE /\ c["v4"].jumps = 0
    BY <2>1, ChainShapes
  <2>3. ~botched /\ ~split => c["v6"] = NoChain
    BY <1>4 DEF HalfInstalled
  <2> QED
    BY <2>2, <2>3 DEF Wiped, Flushed, Cleaned, NoChain
<1>5. ASSUME i = Final - 1, HalfInstalled(c, i) PROVE Wiped(c, 1, ~botched, ~split)
  <2>1. i > 4
    BY <1>5 DEF Final
  <2>2. c["v4"] = FullChain /\ c["v6"] = NoJumps(FullChain)
    BY <1>5, <2>1 DEF HalfInstalled
  <2>3. c["v4"] = Chain(Rules, 1) /\ c["v6"] = Chain(Rules, 0)
    BY <2>2, ChainUpdates, ChainShapes
  <2>4. c["v4"].exists = TRUE /\ c["v6"].jumps <= c["v4"].jumps
    BY <2>3, ChainShapes
  <2> QED
    BY <1>0, <2>4, WipeTwin
<1> QED
  BY <1>1, <1>2, <1>3, <1>4, <1>5

LEMMA ChainCrash ==
  ASSUME ChainOK, ProcessTyped, Crash
  PROVE  ChainOK'
<1> USE HostGuardsAssumption
<1>1. /\ stage' = "none" /\ guards' = {} /\ outcome' = "crashed" /\ UNCHANGED <<chain, faults, botched>>
      /\ split' = (split \/ CutAt(Op("unjump", "v6")) \/ CutAt(Op("delete", "v6")))
      /\ "crashed" \notin Graceful
  BY DEF Crash, Graceful
<1>2. ~split' => ~split /\ ~CutAt(Op("unjump", "v6")) /\ ~CutAt(Op("delete", "v6"))
  BY <1>1
<1>0. (~botched) \in BOOLEAN /\ (~split) \in BOOLEAN /\ Uncut \in BOOLEAN
  BY Zenon DEF Uncut
<1>3. ASSUME NEW g \in Chains PROVE Wiped(chain[g], 1, ~botched, ~split')
  <2>0. Fam(chain[g]["v4"]) /\ Fam(chain[g]["v6"])
    BY DEF ChainOK, Fams
  <2>1. Wiped(chain[g], 1, ~botched, ~split) => Wiped(chain[g], 1, ~botched, ~split')
    BY <1>2 DEF Wiped
  <2>2. split' /\ Wiped(chain[g], 1, ~botched, FALSE) => Wiped(chain[g], 1, ~botched, ~split')
    BY DEF Wiped
  <2>3. CASE stage # g
    BY <2>1, <2>3 DEF ChainOK
  <2>4. CASE stage = g /\ mode = "install"
    <3>1. PICK i \in 1 .. Final :
            \/ todo = Rest(InstallOps, i) /\ Installed(chain[g], i)
            \/ i \in {1, 2, 3, 4, Final - 1} /\ todo = Half(InstallOps, i) /\ HalfInstalled(chain[g], i)
      BY <2>4 DEF ChainOK, Installing
    <3>2. CASE Installed(chain[g], i)
      BY <2>0, <2>1, <3>2, InstallCut
    <3>3. CASE i \in {2, 4, Final - 1} /\ HalfInstalled(chain[g], i)
      BY <2>0, <2>1, <3>3, InstallCut
    <3>4. CASE i \in {1, 3} /\ todo = Half(InstallOps, i) /\ HalfInstalled(chain[g], i)
      <4>1. i \in 1 .. Final - 1 /\ i \in 1 .. 3
        BY <3>4 DEF Final
      <4>2. InstallOps[i] = Op(Takedown(i), "both")
        BY <4>1, TakedownOps
      <4>3. InstallOps[i].verb \in {"unjump", "delete"}
        BY <3>4, <4>2 DEF Op, Takedown
      <4>4. todo # <<>> /\ Head(todo) = Op(InstallOps[i].verb, "v6")
        BY <3>4, <4>1, ChainSteps
      <4>5. split'
        BY <1>1, <4>3, <4>4 DEF CutAt
      <4>6. Wiped(chain[g], 1, ~botched, FALSE)
        BY <2>0, <3>4, InstallCut
      <4> QED
        BY <2>2, <4>5, <4>6
    <3> QED
      BY <3>1, <3>2, <3>3, <3>4
  <2>5. CASE stage = g /\ mode # "install"
    <3>1. PICK i \in 1 .. 4 :
            \/ todo = Rest(RemoveOps, i) /\ Wiped(chain[g], i, ~botched, Uncut)
            \/ i < 4 /\ todo = Half(RemoveOps, i) /\ HalfWiped(chain[g], i, ~botched, Uncut)
      BY <2>5 DEF ChainOK, Removing
    <3>2. Wiped(chain[g], 1, ~botched, Uncut) => Wiped(chain[g], 1, ~botched, ~split)
      BY DEF Wiped, Uncut
    <3>3. CASE Wiped(chain[g], i, ~botched, Uncut)
      BY <1>0, <2>1, <3>2, <3>3, WipeAgain
    <3>4. CASE i = 2 /\ HalfWiped(chain[g], i, ~botched, Uncut)
      BY <1>0, <2>1, <3>2, <3>4, WipeAgain
    <3>5. CASE i \in {1, 3} /\ todo = Half(RemoveOps, i) /\ HalfWiped(chain[g], i, ~botched, Uncut)
      <4>1. RemoveOps[i] = Op(Takedown(i), "both") /\ i \in 1 .. 3
        BY <3>5, TakedownOps
      <4>2. RemoveOps[i].verb \in {"unjump", "delete"}
        BY <3>5, <4>1 DEF Op, Takedown
      <4>3. todo # <<>> /\ Head(todo) = Op(RemoveOps[i].verb, "v6")
        BY <3>5, <4>1, ChainSteps
      <4>4. split'
        BY <1>1, <4>2, <4>3 DEF CutAt
      <4>5. Wiped(chain[g], 1, ~botched, FALSE)
        <5>1. i \in 1 .. 4 /\ i < 4
          BY <3>5
        <5> QED
          BY <1>0, <3>5, <5>1, WipeAgain
      <4> QED
        BY <2>2, <4>4, <4>5
    <3>6. i < 4 => i \in {1, 2, 3}
      OBVIOUS
    <3> QED
      BY <3>1, <3>3, <3>4, <3>5, <3>6
  <2> QED
    BY <2>3, <2>4, <2>5
<1>4. /\ chain' \in [Chains -> [Fams -> [exists : BOOLEAN, rules : 0 .. Rules, jumps : 0 .. 1]]]
      /\ \A g \in Chains, f \in Fams : Fam(chain'[g][f])
  BY <1>1 DEF ChainOK
<1>5. \A g \in Chains : stage' # g /\ g \notin guards'
  BY <1>1 DEF Chains
<1>6. \A g \in Chains : Wiped(chain[g], 1, ~botched, ~split)'
  BY <1>1, <1>3
<1> QED
  BY <1>1, <1>4, <1>5, <1>6 DEF ChainOK

LEMMA HalfTyped ==
  ASSUME NEW o, NEW s \in Seq(OpType), o \in OpType
  PROVE  <<o>> \o s \in Seq(OpType)
BY ConcatProperties

LEMMA ExecKeeps ==
  ASSUME ChainOK, ProcessTyped, Exec
  PROVE  ChainOK' /\ Commanded /\ stage # "none" /\ torn' \in BOOLEAN
<1> USE HostGuardsAssumption
<1> DEFINE g == stage
           c == chain[g]
           d == chain'[g]
<1>1. /\ g \in Chains /\ todo # <<>> /\ Possible(c[ChainFam])
      /\ chain' = [chain EXCEPT ![g] = [c EXCEPT ![ChainFam] = Applied(c[ChainFam])]]
      /\ todo' = IF op.arg = "both" THEN <<Op(op.verb, "v6")>> \o Tail(todo) ELSE Tail(todo)
      /\ UNCHANGED <<mode, up, cfg, stages, stage, guards, outcome, starts, faults, orig, split, botched, torn>>
  BY DEF Exec, Busy, procRest, ghosts
<1>2. c \in [Fams -> [exists : BOOLEAN, rules : 0 .. Rules, jumps : 0 .. 1]] /\ ChainFam \in Fams
  BY <1>1 DEF ChainOK, ChainFam, Fams
<1>3. Fam(c["v4"]) /\ Fam(c["v6"])
  BY <1>1 DEF ChainOK, Fams
<1>4. /\ d = [c EXCEPT ![ChainFam] = Applied(c[ChainFam])] /\ Turned(c, d)
      /\ \A h \in Chains : h # g => chain'[h] = chain[h]
  BY <1>1, <1>2 DEF ChainOK, Turned
<1>5. Commanded /\ g # "none" /\ torn' \in BOOLEAN
  <2>1. Tail(todo) \in Seq(OpType) /\ op \in OpType
    BY <1>1, TailTyped DEF ProcessTyped, op
  <2>2. Op(op.verb, "v6") \in OpType
    BY <2>1 DEF OpType, Op, Fams
  <2>3. todo' \in Seq(OpType)
    BY <1>1, <2>1, <2>2, HalfTyped
  <2>4. faults' \in faults .. MaxFaults
    BY <1>1 DEF ProcessTyped
  <2> QED
    BY <1>1, <2>3, <2>4 DEF Commanded, procRest, ProcessTyped, Chains
<1>6. Wanted(cfg)' = Wanted(cfg) /\ Uncut' = Uncut
  BY <1>1 DEF Wanted, RouteAll, Uncut
<1>7. ASSUME mode = "install"
      PROVE  Fam(d["v4"]) /\ Fam(d["v6"]) /\ Installing(chain[g])'
  <2>1. PICK i \in 1 .. Final :
          \/ todo = Rest(InstallOps, i) /\ Installed(c, i)
          \/ i \in {1, 2, 3, 4, Final - 1} /\ todo = Half(InstallOps, i) /\ HalfInstalled(c, i)
    BY <1>1, <1>7 DEF ChainOK, Installing
  <2>2. {1, 2, 3, 4, Final - 1} \subseteq 1 .. Final - 1 /\ \A j \in 1 .. Final - 1 : j + 1 \in 1 .. Final
    BY DEF Final
  <2>3. CASE todo = Rest(InstallOps, i) /\ Installed(c, i)
    <3>1. i \in 1 .. Final - 1
      <4>1. i # Final
        BY <1>1, <2>3, ChainSteps
      <4> QED
        BY <4>1 DEF Final
    <3>2. op = InstallOps[i] /\ Tail(todo) = Rest(InstallOps, i + 1)
      BY <2>3, <3>1, ChainSteps DEF op
    <3>3. /\ Fam(d["v4"]) /\ Fam(d["v6"])
          /\ op.arg = "both" <=> i \in {1, 2, 3, 4, Final - 1}
          /\ IF op.arg = "both" THEN HalfInstalled(d, i) ELSE Installed(d, i + 1)
      BY <1>3, <1>4, <2>3, <3>1, <3>2, InstallRest
    <3>4. CASE op.arg = "both"
      <4>1. todo' = Half(InstallOps, i)
        BY <1>1, <3>2, <3>4 DEF Half
      <4>2. HalfInstalled(chain[g], i)'
        BY <1>1, <3>3, <3>4 DEF HalfInstalled
      <4> QED
        BY <3>3, <3>4, <4>1, <4>2 DEF Installing
    <3>5. CASE op.arg # "both"
      <4>1. todo' = Rest(InstallOps, i + 1) /\ i + 1 \in 1 .. Final
        BY <1>1, <2>2, <3>1, <3>2, <3>5
      <4>2. Installed(chain[g], i + 1)'
        BY <1>1, <3>3, <3>5 DEF Installed, Raised
      <4> QED
        BY <3>3, <4>1, <4>2 DEF Installing
    <3> QED
      BY <3>4, <3>5
  <2>4. CASE i \in {1, 2, 3, 4, Final - 1} /\ todo = Half(InstallOps, i) /\ HalfInstalled(c, i)
    <3>1. op = Op(InstallOps[i].verb, "v6") /\ Tail(todo) = Rest(InstallOps, i + 1)
      BY <2>2, <2>4, ChainSteps DEF op
    <3>2. Fam(d["v4"]) /\ Fam(d["v6"]) /\ Installed(d, i + 1)
      BY <1>3, <1>4, <2>4, <3>1, InstallHalf
    <3>3. op.arg = "v6"
      BY <3>1 DEF Op
    <3>4. todo' = Rest(InstallOps, i + 1) /\ i + 1 \in 1 .. Final
      BY <1>1, <2>2, <2>4, <3>1, <3>3
    <3>5. Installed(chain[g], i + 1)'
      BY <1>1, <3>2 DEF Installed, Raised
    <3> QED
      BY <3>2, <3>4, <3>5 DEF Installing
  <2> QED
    BY <2>1, <2>3, <2>4
<1>8. ASSUME mode # "install"
      PROVE  Fam(d["v4"]) /\ Fam(d["v6"]) /\ Removing(chain[g])'
  <2>1. PICK i \in 1 .. 4 :
          \/ todo = Rest(RemoveOps, i) /\ Wiped(c, i, ~botched, Uncut)
          \/ i < 4 /\ todo = Half(RemoveOps, i) /\ HalfWiped(c, i, ~botched, Uncut)
    BY <1>1, <1>8 DEF ChainOK, Removing
  <2>2. i \in 1 .. 3
    BY <1>1, <2>1, ChainSteps
  <2>3. RemoveOps[i] = Op(Takedown(i), "both") /\ RemoveOps[i].verb = Takedown(i)
    BY <2>2, TakedownOps DEF Op
  <2>4. CASE todo = Rest(RemoveOps, i) /\ Wiped(c, i, ~botched, Uncut)
    <3>1. op = Op(Takedown(i), "both") /\ Tail(todo) = Rest(RemoveOps, i + 1)
      BY <2>2, <2>3, <2>4, ChainSteps DEF op
    <3>2. /\ Fam(d["v4"]) /\ Fam(d["v6"]) /\ op.arg = "both"
          /\ Flushed(c, i) => HalfFlushed(d, i)
          /\ Cleaned(c, i) => HalfCleaned(d, i)
      BY <1>3, <1>4, <2>2, <3>1, TakedownRest
    <3>3. todo' = Half(RemoveOps, i)
      BY <1>1, <2>3, <3>1, <3>2 DEF Half, Op
    <3>4. HalfWiped(d, i, ~botched, Uncut)
      BY <2>4, <3>2 DEF Wiped, HalfWiped
    <3>5. HalfWiped(chain[g], i, ~botched, Uncut)'
      BY <1>1, <1>6, <3>4
    <3> QED
      BY <2>2, <3>2, <3>3, <3>5 DEF Removing
  <2>5. CASE i < 4 /\ todo = Half(RemoveOps, i) /\ HalfWiped(c, i, ~botched, Uncut)
    <3>1. op = Op(Takedown(i), "v6") /\ Tail(todo) = Rest(RemoveOps, i + 1)
      BY <2>2, <2>3, <2>5, ChainSteps DEF op
    <3>2. /\ Fam(d["v4"]) /\ Fam(d["v6"])
          /\ HalfFlushed(c, i) => Flushed(d, i + 1)
          /\ HalfCleaned(c, i) => Cleaned(d, i + 1)
      BY <1>3, <1>4, <2>2, <3>1, TakedownHalf
    <3>3. todo' = Rest(RemoveOps, i + 1) /\ i + 1 \in 1 .. 4
      BY <1>1, <2>2, <3>1 DEF Op
    <3>4. Wiped(d, i + 1, ~botched, Uncut)
      BY <2>5, <3>2 DEF Wiped, HalfWiped
    <3>5. Wiped(chain[g], i + 1, ~botched, Uncut)'
      BY <1>1, <1>6, <3>4
    <3> QED
      BY <3>2, <3>3, <3>5 DEF Removing
  <2> QED
    BY <2>1, <2>4, <2>5
<1>9. Fam(d["v4"]) /\ Fam(d["v6"]) /\ IF mode' = "install" THEN Installing(chain[g])' ELSE Removing(chain[g])'
  BY <1>1, <1>7, <1>8
<1>10. chain' \in [Chains -> [Fams -> [exists : BOOLEAN, rules : 0 .. Rules, jumps : 0 .. 1]]]
  <2>1. Applied(c[ChainFam]) \in [exists : BOOLEAN, rules : 0 .. Rules, jumps : 0 .. 1]
    <3>1. d[ChainFam] = Applied(c[ChainFam]) /\ ChainFam \in {"v4", "v6"}
      BY <1>4 DEF Turned, ChainFam
    <3> QED
      BY <1>9, <3>1 DEF Fam
  <2> QED
    BY <1>1, <1>2, <2>1 DEF ChainOK
<1>11. ASSUME NEW h \in Chains
       PROVE  /\ \A f \in Fams : Fam(chain'[h][f])
              /\ stage' = h => IF mode' = "install" THEN Installing(chain[h])' ELSE Removing(chain[h])'
              /\ stage' # h /\ h \in guards' => \A f \in Fams : chain'[h][f] = FullChain
              /\ stage' # h => Wiped(chain[h], 1, ~botched, ~split)'
  <2>1. CASE h = g
    BY <1>1, <1>9, <2>1 DEF Fams
  <2>2. CASE h # g
    BY <1>1, <1>4, <2>2 DEF ChainOK
  <2> QED
    BY <2>1, <2>2
<1>12. /\ stage' # "ks" /\ outcome' = "refused" /\ ~botched' => Refused(chain["ks"])'
       /\ stage' # "ks" /\ outcome' \in Graceful /\ ~botched' /\ Wanted(cfg)'.ks /\ "ks" \notin guards' =>
            Gone(chain["ks"])'
  BY <1>1, <1>4, <1>6 DEF ChainOK, Chains, Refused, Gone
<1>13. ChainOK'
  BY <1>10, <1>11, <1>12 DEF ChainOK
<1> QED
  BY <1>5, <1>13

LEMMA ExecFailsKeeps ==
  ASSUME ChainOK, ProcessTyped, ControlOK, ExecFails
  PROVE  ChainOK' /\ Commanded /\ stage # "none" /\ torn' \in BOOLEAN
<1> USE HostGuardsAssumption
<1> DEFINE g == stage
           c == chain[g]
           soft == mode # "install" \/ op.verb \in Removal
           possible == Possible(c[ChainFam])
<1>1. /\ g \in Chains /\ todo # <<>> /\ Fails(possible)
      /\ soft => todo' = Tail(todo) /\ mode' = mode
      /\ ~soft => todo' = RemoveOps /\ mode' = "undo"
      /\ UNCHANGED <<chain, up, cfg, stages, stage, guards, outcome, starts, orig, split, torn>>
      /\ botched' = (botched \/ (op.verb \in Removal /\ faults' # faults))
  BY DEF ExecFails, Busy, procRest, host, Done, GiveUp
<1>2. Fam(c["v4"]) /\ Fam(c["v6"])
  BY <1>1 DEF ChainOK, Fams
<1> HIDE DEF possible
<1>4. /\ faults' \in faults .. MaxFaults /\ (faults' # faults => faults' > 0)
      /\ faults' = faults => ~possible
  BY <1>1 DEF Fails, ProcessTyped
<1>3. ~botched' => ~botched /\ (op.verb \in Removal => ~possible)
  BY <1>1, <1>4
<1>5. Commanded /\ g # "none" /\ torn' \in BOOLEAN
  <2>1. todo' \in Seq(OpType)
    <3>1. Tail(todo) \in Seq(OpType)
      BY <1>1, TailTyped DEF ProcessTyped
    <3>2. RemoveOps \in Seq(OpType)
      BY RemoveProgram
    <3> HIDE DEF soft
    <3> QED
      BY <1>1, <3>1, <3>2
  <2> QED
    BY <1>1, <1>4, <2>1 DEF Commanded, procRest, ProcessTyped, Chains
<1>6. Wanted(cfg)' = Wanted(cfg)
  BY <1>1 DEF Wanted, RouteAll
<1>7. ASSUME mode = "install"
      PROVE  IF mode' = "install" THEN Installing(chain[g])' ELSE Removing(chain[g])'
  <2>1. PICK i \in 1 .. Final :
          \/ todo = Rest(InstallOps, i) /\ Installed(c, i)
          \/ i \in {1, 2, 3, 4, Final - 1} /\ todo = Half(InstallOps, i) /\ HalfInstalled(c, i)
    BY <1>1, <1>7 DEF ChainOK, Installing
  <2>2. {1, 2, 3, 4, Final - 1} \subseteq 1 .. Final - 1 /\ \A j \in 1 .. Final - 1 : j + 1 \in 1 .. Final
    BY DEF Final
  <2>3. i \in 1 .. Final - 1
    <3>1. CASE i = Final
      <4>1. Final \notin {1, 2, 3, 4, Final - 1}
        BY DEF Final
      <4> QED
        BY <1>1, <2>1, <3>1, <4>1, ChainSteps
    <3> QED
      BY <3>1 DEF Final
  <2>4. /\ op.verb = InstallOps[i].verb /\ Tail(todo) = Rest(InstallOps, i + 1)
    <3>1. todo \in {Rest(InstallOps, i), Half(InstallOps, i)}
      BY <2>1
    <3>2. op \in {InstallOps[i], Op(InstallOps[i].verb, "v6")}
          /\ Tail(todo) = Rest(InstallOps, i + 1)
      BY <2>3, <3>1, ChainSteps DEF op
    <3> QED
      BY <3>2 DEF Op
  <2>5. op.verb \in Removal <=> i \in 1 .. 3
    <3>1. CASE i = 1
      BY <2>4, <3>1, InstallProgramOps DEF Op, Removal
    <3>2. CASE i = 2
      BY <2>4, <3>2, InstallProgramOps DEF Op, Removal
    <3>3. CASE i = 3
      BY <2>4, <3>3, InstallProgramOps DEF Op, Removal
    <3>4. CASE i = 4
      BY <2>4, <3>4, InstallProgramOps DEF Op, Removal
    <3>5. CASE i \in 5 .. 4 + 2 * Rules
      <4>1. InstallOps[i] = Op("append", IF i <= 4 + Rules THEN "v4" ELSE "v6")
        BY <3>5, InstallProgramOps
      <4>2. op.verb = "append"
        BY <2>4, <4>1 DEF Op
      <4> QED
        BY <3>5, <4>2 DEF Removal
    <3>6. CASE i = Final - 1
      <4>1. op.verb = "jump" /\ ~(i <= 3)
        BY <2>4, <3>6, InstallProgramOps DEF Op, Final
      <4> QED
        BY <4>1 DEF Removal
    <3> QED
      BY <2>3, <3>1, <3>2, <3>3, <3>4, <3>5, <3>6 DEF Final
  <2>6. /\ i \in 1 .. 3 => Wiped(c, i + 1, ~botched', ~split')
        /\ i \notin 1 .. 3 => Wiped(c, 1, ~botched', ~split')
    <3>1. \/ op = InstallOps[i] /\ Installed(c, i)
          \/ /\ i \in {1, 2, 3, 4, Final - 1}
             /\ op = Op(InstallOps[i].verb, "v6") /\ HalfInstalled(c, i)
      BY <2>1, <2>3, ChainSteps DEF op
    <3>2. (~botched') \in BOOLEAN /\ (~split') \in BOOLEAN
      BY Zenon
    <3>3. (~botched' => ~botched) /\ (~split' => ~split)
      BY <1>1, <1>3
    <3>4. /\ i \in 1 .. 3 /\ (~botched' => ~Possible(c[ChainFam])) => Wiped(c, i + 1, ~botched', ~split')
          /\ i \notin 1 .. 3 => Wiped(c, 1, ~botched', ~split')
      BY <1>2, <2>3, <3>1, <3>2, <3>3, InstallFails
    <3>5. i \in 1 .. 3 => (~botched' => ~Possible(c[ChainFam]))
      BY <1>3, <2>5 DEF possible
    <3> QED
      BY <3>4, <3>5
  <2>7. CASE i \in 1 .. 3
    <3>1. todo' = Rest(InstallOps, i + 1) /\ mode' = "install" /\ i + 1 \in 1 .. Final /\ i + 1 <= 4
      <4>1. soft
        BY <2>5, <2>7
      <4>2. i + 1 \in 1 .. Final /\ i + 1 <= 4
        BY <2>2, <2>3, <2>7
      <4> QED
        BY <1>1, <1>7, <2>4, <4>1, <4>2
    <3>2. Wiped(chain[g], i + 1, ~botched, ~split)'
      BY <1>1, <2>6, <2>7
    <3>3. Installed(chain[g], i + 1)'
      BY <3>1, <3>2 DEF Installed
    <3> QED
      BY <3>1, <3>3 DEF Installing
  <2>8. CASE i \notin 1 .. 3
    <3>1. todo' = Rest(RemoveOps, 1) /\ mode' = "undo"
      BY <1>1, <1>7, <2>5, <2>8, ChainSteps
    <3>2. Uncut' = ~split'
      BY <3>1 DEF Uncut
    <3>3. Wiped(chain[g], 1, ~botched, Uncut)'
      BY <1>1, <2>6, <2>8, <3>2
    <3> QED
      BY <3>1, <3>3 DEF Removing
  <2> QED
    BY <2>7, <2>8
<1>8. ASSUME mode # "install"
      PROVE  Removing(chain[g])'
  <2>1. PICK i \in 1 .. 4 :
          \/ todo = Rest(RemoveOps, i) /\ Wiped(c, i, ~botched, Uncut)
          \/ i < 4 /\ todo = Half(RemoveOps, i) /\ HalfWiped(c, i, ~botched, Uncut)
    BY <1>1, <1>8 DEF ChainOK, Removing
  <2>2. i \in 1 .. 3
    BY <1>1, <2>1, ChainSteps
  <2>3. RemoveOps[i] = Op(Takedown(i), "both") /\ RemoveOps[i].verb = Takedown(i)
    BY <2>2, TakedownOps DEF Op
  <2>4. todo' = Rest(RemoveOps, i + 1) /\ i + 1 \in 1 .. 4 /\ mode' = mode
    <3>1. todo' = Tail(todo) /\ mode' = mode
      BY <1>1, <1>8
    <3>2. Tail(todo) = Rest(RemoveOps, i + 1)
      BY <2>1, <2>2, ChainSteps
    <3> QED
      BY <2>2, <3>1, <3>2
  <2>5. op.verb = Takedown(i) /\ Takedown(i) \in Removal
    <3>1. op \in {RemoveOps[i], Op(RemoveOps[i].verb, "v6")}
      BY <2>1, <2>2, ChainSteps DEF op
    <3> QED
      BY <2>2, <2>3, <3>1 DEF Op, Takedown, Removal
  <2>6. ~botched' => ~botched /\ ~Possible(c[ChainFam])
    BY <1>3, <2>5 DEF possible
  <2>7. Uncut' = Uncut
    BY <1>1, <2>4 DEF Uncut
  <2>8. Wiped(c, i + 1, ~botched', Uncut)
    <3>1. CASE botched'
      BY <3>1 DEF Wiped
    <3>2. CASE ~botched' /\ todo = Rest(RemoveOps, i) /\ Wiped(c, i, ~botched, Uncut)
      <4>1. op = Op(Takedown(i), "both")
        BY <2>2, <2>3, <3>2, ChainSteps DEF op
      <4>2. /\ Flushed(c, i) => Flushed(c, i + 1)
            /\ Flushed(c, i) /\ Cleaned(c, i) => Cleaned(c, i + 1)
        BY <1>2, <2>2, <2>6, <3>2, <4>1, TakedownFails
      <4> QED
        BY <2>6, <3>2, <4>2 DEF Wiped
    <3>3. CASE ~botched' /\ todo = Half(RemoveOps, i) /\ HalfWiped(c, i, ~botched, Uncut)
      <4>1. op = Op(Takedown(i), "v6")
        BY <2>2, <2>3, <3>3, ChainSteps DEF op
      <4>2. /\ HalfFlushed(c, i) => Flushed(c, i + 1)
            /\ HalfFlushed(c, i) /\ HalfCleaned(c, i) => Cleaned(c, i + 1)
        BY <1>2, <2>2, <2>6, <3>3, <4>1, TakedownFails
      <4> QED
        BY <2>6, <3>3, <4>2 DEF Wiped, HalfWiped
    <3> QED
      BY <2>1, <3>1, <3>2, <3>3
  <2>9. Wiped(chain[g], i + 1, ~botched, Uncut)'
    BY <1>1, <2>7, <2>8
  <2> QED
    BY <2>4, <2>9 DEF Removing
<1>9. IF mode' = "install" THEN Installing(chain[g])' ELSE Removing(chain[g])'
  BY <1>1, <1>7, <1>8
<1>10. ASSUME NEW h \in Chains
       PROVE  /\ \A f \in Fams : Fam(chain'[h][f])
              /\ stage' = h => IF mode' = "install" THEN Installing(chain[h])' ELSE Removing(chain[h])'
              /\ stage' # h /\ h \in guards' => \A f \in Fams : chain'[h][f] = FullChain
              /\ stage' # h => Wiped(chain[h], 1, ~botched, ~split)'
  <2>1. CASE h = g
    BY <1>1, <1>9, <2>1 DEF ChainOK
  <2>2. CASE h # g
    <3>1. Wiped(chain[h], 1, ~botched, ~split)
      BY <1>1, <2>2 DEF ChainOK
    <3>2. Wiped(chain[h], 1, ~botched, ~split)'
      BY <1>1, <1>3, <3>1 DEF Wiped
    <3> QED
      BY <1>1, <2>2, <3>2 DEF ChainOK
  <2> QED
    BY <2>1, <2>2
<1>11. /\ stage' # "ks" /\ outcome' = "refused" /\ ~botched' => Refused(chain["ks"])'
       /\ stage' # "ks" /\ outcome' \in Graceful /\ ~botched' /\ Wanted(cfg)'.ks /\ "ks" \notin guards' =>
            Gone(chain["ks"])'
  BY <1>1, <1>3, <1>6 DEF ChainOK, Refused, Gone
<1>12. chain' \in [Chains -> [Fams -> [exists : BOOLEAN, rules : 0 .. Rules, jumps : 0 .. 1]]]
  BY <1>1 DEF ChainOK
<1>13. ChainOK'
  BY <1>10, <1>11, <1>12 DEF ChainOK
<1> QED
  BY <1>5, <1>13

-----------------------------------------------------------------------------
(* Routes, through every step *)

LEMMA ProgramSteps ==
  ASSUME NEW S, NEW p \in Seq(S), NEW n \in Nat, Len(p) = n
  PROVE  /\ \A i \in 1 .. n : /\ Rest(p, i) # <<>> /\ Head(Rest(p, i)) = p[i]
                              /\ Tail(Rest(p, i)) = Rest(p, i + 1)
         /\ Rest(p, 1) = p /\ Rest(p, n + 1) = <<>>
BY RestSteps, RestEnds

LEMMA RouteSteps ==
  /\ \A i \in 1 .. 9 : /\ Rest(InstallRoutes, i) # <<>> /\ Head(Rest(InstallRoutes, i)) = InstallRoutes[i]
                       /\ Tail(Rest(InstallRoutes, i)) = Rest(InstallRoutes, i + 1)
  /\ Rest(InstallRoutes, 1) = InstallRoutes /\ Rest(InstallRoutes, 10) = <<>>
<1> DEFINE p == InstallRoutes
           n == 9
<1>1. p \in Seq(RouteOps) /\ n \in Nat /\ Len(p) = n
  BY RoutePrograms
<1> HIDE DEF p, n
<1>2. /\ \A i \in 1 .. n : /\ Rest(p, i) # <<>> /\ Head(Rest(p, i)) = p[i]
                            /\ Tail(Rest(p, i)) = Rest(p, i + 1)
      /\ Rest(p, 1) = p /\ Rest(p, n + 1) = <<>>
  BY <1>1, ProgramSteps
<1>3. n + 1 = 10
  BY DEF n
<1> QED
  BY <1>2, <1>3 DEF p, n

DropLength(l) == IF l THEN 4 ELSE 3

LEMMA DropSteps ==
  ASSUME NEW l \in BOOLEAN
  PROVE  /\ \A i \in 1 .. DropLength(l) :
              /\ Rest(DropRoutes(l), i) # <<>> /\ Head(Rest(DropRoutes(l), i)) = DropRoutes(l)[i]
              /\ Tail(Rest(DropRoutes(l), i)) = Rest(DropRoutes(l), i + 1)
         /\ Rest(DropRoutes(l), 1) = DropRoutes(l) /\ Rest(DropRoutes(l), DropLength(l) + 1) = <<>>
<1>1. DropLength(l) \in Nat /\ Len(DropRoutes(l)) = DropLength(l) /\ DropRoutes(l) \in Seq(RouteDrops)
  BY RoutePrograms DEF DropLength
<1> QED
  BY <1>1, ProgramSteps

LEMMA DropNames ==
  ASSUME NEW l \in BOOLEAN
  PROVE  /\ DropRoutes(l)[1] = Op("unbypass", "default") /\ DropRoutes(l)[2] = Op("del", "default")
         /\ l => DropRoutes(l)[3] = Op("del", "lan") /\ DropRoutes(l)[4] = Op("del", "server")
         /\ ~l => DropRoutes(l)[3] = Op("del", "server")
BY DEF DropRoutes

LEMMA RangeOf ==
  ASSUME NEW S, NEW s \in Seq(S)
  PROVE  /\ Range(s) \subseteq S
         /\ \A e \in S : Append(s, e) \in Seq(S) /\ Range(Append(s, e)) = Range(s) \cup {e}
         /\ s = <<>> => Range(s) = {}
<1>1. DOMAIN s = 1 .. Len(s) /\ Len(s) \in Nat
  OBVIOUS
<1>2. Range(s) \subseteq S
  BY <1>1 DEF Range
<1>3. ASSUME NEW e \in S PROVE Append(s, e) \in Seq(S) /\ Range(Append(s, e)) = Range(s) \cup {e}
  <2> DEFINE t == Append(s, e)
  <2>1. /\ t \in Seq(S) /\ Len(t) = Len(s) + 1 /\ t[Len(s) + 1] = e
        /\ \A i \in 1 .. Len(s) : t[i] = s[i]
    OBVIOUS
  <2> HIDE DEF t
  <2>2. DOMAIN t = 1 .. Len(s) + 1
    BY <2>1
  <2>3. DOMAIN t = (1 .. Len(s)) \cup {Len(s) + 1}
    BY <1>1, <2>2
  <2>4. Range(t) = Range(s) \cup {e}
    BY <1>1, <2>1, <2>3 DEF Range
  <2> QED
    BY <2>1, <2>4 DEF t
<1>4. s = <<>> => Range(s) = {}
  BY <1>1 DEF Range
<1> QED
  BY <1>2, <1>3, <1>4

LEMMA RollBack ==
  ASSUME NEW s \in Seq(Main)
  PROVE  Dels(Reverse(s)) \in Seq(RouteDrops) /\ (s = <<>> => Dels(Reverse(s)) = <<>>)
<1> DEFINE n == Len(s)
           r == Reverse(s)
<1>1. n \in Nat /\ \A i \in 1 .. n : (n - i) + 1 \in 1 .. n
  OBVIOUS
<1>2. r \in [1 .. n -> Main]
  BY <1>1 DEF Reverse
<1> HIDE DEF r
<1>3. DOMAIN r = 1 .. n /\ \A i \in 1 .. n : r[i] \in Main
  BY <1>2
<1>4. Dels(r) \in [1 .. n -> RouteDrops]
  BY <1>3 DEF Dels, RouteDrops, Op
<1>5. Dels(r) \in Seq(RouteDrops) /\ Len(Dels(r)) = n
  BY <1>1, <1>4, FunctionIsSeq
<1>6. s = <<>> => Dels(r) = <<>>
  <2>1. s = <<>> => n = 0
    OBVIOUS
  <2> QED
    BY <1>5, <2>1, EmptySeq
<1> QED
  BY <1>5, <1>6 DEF r

LEMMA RoutesInit == Init => RoutesOK
<1> SUFFICES ASSUME Init PROVE RoutesOK
  OBVIOUS
<1>1. main \subseteq {"lan"} /\ orig = main /\ added = <<>> /\ bypass = {}
  BY DEF Init
<1>2. main \subseteq Main /\ <<>> \in Seq(Main) /\ "default" \notin main
  BY <1>1 DEF Main
<1>3. stage = "none" /\ guards = {} /\ up = "down"
  BY DEF Init
<1> QED
  BY <1>1, <1>2, <1>3 DEF RoutesOK

LEMMA RoutesElsewhere ==
  ASSUME RoutesOK, ProcessTyped, Commanded, stage # "route", UNCHANGED <<main, bypass, added>>
  PROVE  RoutesOK'
<1>1. UNCHANGED <<up, stages, stage, guards, outcome, orig>>
  BY DEF Commanded, procRest
<1>2. faults' = 0 => faults = 0
  BY HostGuardsAssumption DEF Commanded, ProcessTyped
<1>3. Routed(10)' = Routed(10)
  BY <1>1 DEF Routed, Mine
<1> QED
  BY <1>1, <1>2, <1>3 DEF RoutesOK

LEMMA RoutesBegin ==
  ASSUME RoutesOK, ProcessTyped, ControlOK, BeginStage
  PROVE  RoutesOK'
<1>1. /\ stage = "none" /\ UNCHANGED <<main, bypass, added, guards, outcome, faults, orig, up>>
      /\ mode' = (IF up = "starting" THEN "install" ELSE "remove")
      /\ todo' = (IF up = "starting" THEN InstallProgram(stage') ELSE DropProgram(stage'))
      /\ stage' \in stages /\ stage' \in Guards /\ stages' = stages \ {stage'}
      /\ up \in {"starting", "stopping"}
      /\ \A h \in stages : Order[stage'] <= Order[h]
  BY BeginStep
<1>2. ASSUME stage' = "route", up = "starting"
      PROVE  todo' = Rest(InstallRoutes, 1) /\ todo' \in Seq(RouteOps) /\ (faults = 0 => Routed(1)')
  <2>1. todo' = InstallRoutes
    BY <1>1, <1>2 DEF InstallProgram, Chains
  <2>2. "route" \in stages /\ "route" \notin guards
    BY <1>1, <1>2 DEF ControlOK
  <2>3. faults = 0 => added = <<>> /\ "default" \notin main
    BY <1>1, <1>2, <2>2 DEF RoutesOK
  <2>4. faults = 0 => Routed(1)'
    BY <1>1, <2>3 DEF Routed
  <2> QED
    BY <2>1, <2>4, RouteSteps, RoutePrograms
<1>3. ASSUME stage' = "route", up = "stopping"
      PROVE  /\ todo' \in Seq(RouteDrops)
             /\ faults = 0 => \E l \in BOOLEAN : todo' = Rest(DropRoutes(l), 1) /\ Unrouted(l, 1)'
  <2> DEFINE x == "lan" \in Range(added)
  <2>a. x \in BOOLEAN
    OBVIOUS
  <2>0. PICK l \in BOOLEAN : l = x
    <3> HIDE DEF x
    <3> QED
      BY <2>a
  <2>1. todo' = RemoveRoutes
    BY <1>1, <1>3 DEF DropProgram, Chains
  <2>2. todo' = DropRoutes(l) /\ todo' \in Seq(RouteDrops) /\ todo' = Rest(DropRoutes(l), 1)
    BY <2>0, <2>1, RoutePrograms, DropSteps
  <2>3. faults = 0 => Unrouted(l, 1)'
    <3> SUFFICES ASSUME faults = 0 PROVE Unrouted(l, 1)'
      OBVIOUS
    <3>1. "route" \in guards
      BY <1>1, <1>3 DEF ControlOK
    <3>2. Routed(10)
      BY <1>1, <3>1 DEF RoutesOK
    <3>3. Mine(Range(added)) /\ "server" \in Range(added) /\ "lan" \in main /\ "default" \in main
      BY <3>2 DEF Routed
    <3>4. Range(added) \subseteq Main /\ orig \subseteq {"lan"}
      BY RangeOf DEF RoutesOK, ProcessTyped
    <3>5. "default" \in Range(added) /\ (l <=> "lan" \notin orig)
      BY <2>0, <3>3, <3>4 DEF Mine
    <3>6. Range(added) = {"server", "default"} \cup IF l THEN {"lan"} ELSE {}
      BY <2>0, <3>3, <3>4, <3>5 DEF Main
    <3>7. Mine({"server", "default"} \cup IF l THEN {"lan"} ELSE {})
      BY <3>3, <3>6
    <3>8. Unrouted(l, 1)
      BY <3>5, <3>7 DEF Unrouted
    <3> QED
      BY <1>1, <3>8 DEF Unrouted, Mine
  <2> QED
    BY <2>2, <2>3
<1>4. up = "starting" => "route" \notin stages'
  <2> SUFFICES ASSUME up = "starting", "route" \in stages' PROVE FALSE
    OBVIOUS
  <2>1. "route" \in stages /\ stage' # "route"
    BY <1>1
  <2>2. Order[stage'] <= Order["route"] /\ Order = InstallOrder
    BY <1>1, <2>1 DEF Order
  <2>3. stage' \in {"dns", "resolv", "ks", "nat"}
    BY <1>1, <2>1 DEF Guards
  <2> QED
    BY <2>2, <2>3 DEF InstallOrder
<1>5. main' \subseteq Main /\ bypass' \subseteq Bypasses /\ added' \in Seq(Main)
  BY <1>1 DEF RoutesOK
<1>6. faults' = 0 => orig' \subseteq main' /\ ("lan" \in main' \ orig' => "server" \in main')
  BY <1>1 DEF RoutesOK
<1>7. Routed(10)' = Routed(10)
  BY <1>1 DEF Routed, Mine
<1>8. CASE stage' = "route" /\ up = "starting"
  <2>1. 1 \in 1 .. 10 /\ mode' = "install"
    BY <1>1, <1>8
  <2> QED
    BY <1>1, <1>2, <1>4, <1>5, <1>6, <1>8, <2>1 DEF RoutesOK
<1>9. CASE stage' = "route" /\ up = "stopping"
  <2>1. mode' = "remove" /\ \A l \in BOOLEAN : 1 \in 1 .. IF l THEN 5 ELSE 4
    BY <1>1, <1>9
  <2> QED
    BY <1>1, <1>3, <1>5, <1>6, <1>9, <2>1 DEF RoutesOK
<1>10. CASE stage' # "route"
  BY <1>1, <1>4, <1>5, <1>6, <1>7, <1>10 DEF RoutesOK
<1> QED
  BY <1>1, <1>8, <1>9, <1>10

LEMMA RoutesEnd ==
  ASSUME RoutesOK, ProcessTyped, ControlOK, EndStage
  PROVE  RoutesOK'
<1>1. /\ stage' = "none" /\ todo = <<>> /\ UNCHANGED <<main, bypass, added, orig, faults>>
      /\ mode \in {"install", "undo", "remove"}
      /\ mode = "install" => guards' = guards \cup {stage}
      /\ mode = "undo" => guards' = guards
      /\ mode = "remove" => guards' = guards \ {stage}
      /\ \/ stage = "ks" /\ mode = "undo" /\ up' = "stopping" /\ outcome' = "refused"
         \/ UNCHANGED <<up, stages, outcome>>
      /\ stage # "none"
  BY EndStep DEF ProcessTyped, Guards
<1>2. mode # "remove" => up = "starting" /\ stage \notin guards /\ outcome = "none"
  BY <1>1 DEF ControlOK, ProcessTyped
<1>3. Routed(10)' = Routed(10)
  BY <1>1 DEF Routed, Mine
<1>4. faults' = 0 /\ up' = "starting" => "route" \notin stages'
  BY <1>1 DEF RoutesOK
<1>5. main' \subseteq Main /\ bypass' \subseteq Bypasses /\ added' \in Seq(Main)
  BY <1>1 DEF RoutesOK
<1>6. faults' = 0 => orig' \subseteq main' /\ ("lan" \in main' \ orig' => "server" \in main')
  BY <1>1 DEF RoutesOK
<1>7. faults' = 0 => /\ "route" \in guards' => Routed(10)
                     /\ "route" \notin guards' => /\ "default" \notin main
                                                  /\ outcome' # "crashed" /\ added # <<>> => main = orig
  <2> SUFFICES ASSUME faults = 0
               PROVE  /\ "route" \in guards' => Routed(10)
                      /\ "route" \notin guards' => /\ "default" \notin main
                                                   /\ outcome' # "crashed" /\ added # <<>> => main = orig
    BY <1>1
  <2>1. CASE stage # "route"
    <3>1. "route" \in guards' <=> "route" \in guards
      BY <1>1, <2>1
    <3>2. outcome' # "crashed" => outcome # "crashed"
      BY <1>1, <1>2
    <3> QED
      BY <2>1, <3>1, <3>2 DEF RoutesOK
  <2>2. CASE stage = "route" /\ mode = "install"
    <3>1. PICK i \in 1 .. 10 : todo = Rest(InstallRoutes, i) /\ Routed(i)
      BY <2>2 DEF RoutesOK
    <3>2. i = 10
      <4>1. i \notin 1 .. 9
        BY <1>1, <3>1, RouteSteps
      <4> QED
        BY <4>1
    <3> QED
      BY <1>1, <2>2, <3>1, <3>2
  <2>3. CASE stage = "route" /\ mode = "undo"
    <3>1. added = <<>> /\ "default" \notin main
      BY <2>3 DEF RoutesOK
    <3> QED
      BY <1>1, <1>2, <2>3, <3>1
  <2>4. CASE stage = "route" /\ mode = "remove"
    <3>1. PICK l \in BOOLEAN : \E i \in 1 .. IF l THEN 5 ELSE 4 :
                                 todo = Rest(DropRoutes(l), i) /\ Unrouted(l, i)
      BY <2>4 DEF RoutesOK
    <3>2. PICK i \in 1 .. DropLength(l) + 1 : todo = Rest(DropRoutes(l), i) /\ Unrouted(l, i)
      BY <3>1 DEF DropLength
    <3>3. i = DropLength(l) + 1
      <4>1. i \notin 1 .. DropLength(l)
        BY <1>1, <3>2, DropSteps
      <4> QED
        BY <3>2, <4>1 DEF DropLength
    <3>4. Mine({})
      BY <3>2, <3>3 DEF Unrouted, DropLength
    <3>5. main = orig /\ orig \subseteq {"lan"}
      BY <3>4 DEF Mine, ProcessTyped
    <3> QED
      BY <1>1, <2>4, <3>5
  <2> QED
    BY <1>1, <2>1, <2>2, <2>3, <2>4
<1> QED
  BY <1>1, <1>3, <1>4, <1>5, <1>6, <1>7 DEF RoutesOK

LEMMA RoutesTurn ==
  ASSUME RoutesOK, ProcessTyped, ControlOK,
         (\E c : Start(c)) \/ Run \/ Stop \/ SessionEnds \/ Fail \/ Exit
  PROVE  RoutesOK'
<1>1. stage = "none" /\ stage' = "none" /\ UNCHANGED <<bypass, guards, faults, orig>>
  BY DEF Start, Run, Stop, SessionEnds, Fail, Exit, ControlOK, host, ghosts
<1>2. main' = main \/ (main' = main \ {"default"} /\ guards = {})
  <2>1. Exit => guards = {}
    BY DEF Exit, ControlOK, ProcessTyped, Guards
  <2> QED
    BY <2>1 DEF Start, Run, Stop, SessionEnds, Fail, Exit, host
<1>3. added' = <<>> \/ (added' = added /\ (outcome' # "crashed" => outcome # "crashed"))
  BY DEF Start, Run, Stop, SessionEnds, Fail, Exit, ControlOK
<1>4. up' = "starting" => added' = <<>>
  BY DEF Start, Run, Stop, SessionEnds, Fail, Exit
<1>5. added' = added \/ guards = {}
  BY DEF Start, Run, Stop, SessionEnds, Fail, Exit, ControlOK
<1>6. main' \subseteq Main /\ bypass' \subseteq Bypasses /\ added' \in Seq(Main)
  <2>1. <<>> \in Seq(Main)
    OBVIOUS
  <2>2. main \subseteq Main /\ bypass \subseteq Bypasses /\ added \in Seq(Main)
    BY DEF RoutesOK
  <2>3. added' \in Seq(Main)
    BY <1>3, <2>1, <2>2
  <2> QED
    BY <1>1, <1>2, <2>2, <2>3
<1>7. faults = 0 => main' = main
  BY <1>1, <1>2 DEF RoutesOK
<1>8. faults = 0 => orig \subseteq main /\ ("lan" \in main \ orig => "server" \in main)
  BY DEF RoutesOK
<1>9. faults = 0 /\ "route" \in guards => Routed(10)'
  <2> SUFFICES ASSUME faults = 0, "route" \in guards PROVE Routed(10)'
    OBVIOUS
  <2>1. Routed(10) /\ added' = added
    BY <1>1, <1>5 DEF RoutesOK
  <2> QED
    BY <1>1, <1>7, <2>1 DEF Routed, Mine
<1>10. faults = 0 /\ "route" \notin guards =>
         "default" \notin main /\ (outcome' # "crashed" /\ added' # <<>> => main = orig)
  BY <1>1, <1>3 DEF RoutesOK
<1> QED
  BY <1>1, <1>4, <1>6, <1>7, <1>8, <1>9, <1>10 DEF RoutesOK

LEMMA RoutesCrash ==
  ASSUME RoutesOK, ProcessTyped, Crash
  PROVE  RoutesOK'
<1>1. /\ stage' = "none" /\ guards' = {} /\ outcome' = "crashed" /\ up' = "down"
      /\ main' = main \ {"default"} /\ added' = <<>> /\ UNCHANGED <<bypass, orig, faults>>
  BY DEF Crash
<1>2. orig \subseteq {"lan"}
  BY DEF ProcessTyped
<1>3. <<>> \in Seq(Main)
  OBVIOUS
<1> QED
  BY <1>1, <1>2, <1>3 DEF RoutesOK

(* What one ip command does to the tables. *)
LEMMA IpKeeps ==
  ASSUME RoutesOK, ProcessTyped, ControlOK, Ip
  PROVE  RoutesOK' /\ Commanded /\ stage # "none" /\ torn' \in BOOLEAN
<1>1. /\ stage = "route" /\ todo # <<>> /\ RoutePossible /\ todo' = Tail(todo)
      /\ main' = CASE op.verb = "add" -> main \cup {op.arg}
                   [] op.verb = "del" -> main \ {op.arg}
                   [] OTHER           -> main
      /\ bypass' = CASE op.verb = "bypass"   -> bypass \cup {op.arg}
                     [] op.verb = "unbypass" -> bypass \ {op.arg}
                     [] OTHER                -> bypass
      /\ added' = IF op.verb = "add" THEN Append(added, op.arg) ELSE added
      /\ UNCHANGED <<mode, up, cfg, stages, stage, guards, outcome, starts, faults, orig, split, botched, torn>>
  BY DEF Ip, Busy, Done, procRest, ghosts
<1>2. todo \in Seq(RouteOps) /\ op \in RouteOps /\ todo' \in Seq(IF mode = "install" THEN RouteOps ELSE RouteDrops)
  <2>1. todo \in Seq(IF mode = "install" THEN RouteOps ELSE RouteDrops)
    BY <1>1 DEF RoutesOK
  <2>2. todo' \in Seq(IF mode = "install" THEN RouteOps ELSE RouteDrops)
    BY <1>1, <2>1, TailTyped
  <2>3. todo \in Seq(RouteOps)
    BY <2>1, OpKinds, SeqMonotone
  <2> QED
    BY <1>1, <2>2, <2>3, TailTyped DEF op
<1>3. Commanded /\ torn' \in BOOLEAN
  <2>1. todo' \in Seq(OpType)
    BY <1>1, TailTyped DEF ProcessTyped
  <2>2. faults' \in faults .. MaxFaults
    BY <1>1, HostGuardsAssumption DEF ProcessTyped
  <2> QED
    BY <1>1, <2>1, <2>2 DEF Commanded, procRest, ProcessTyped
<1>4. main' \subseteq Main /\ bypass' \subseteq Bypasses /\ added' \in Seq(Main)
  <2>1. /\ op.verb \in {"add", "del", "bypass", "unbypass"}
        /\ op.verb \in {"add", "del"} => op.arg \in Main
        /\ op.verb \in {"bypass", "unbypass"} => op.arg \in Bypasses
    BY <1>2 DEF RouteOps
  <2>2. main \subseteq Main /\ bypass \subseteq Bypasses /\ added \in Seq(Main)
    BY DEF RoutesOK
  <2>3. added' \in Seq(Main)
    BY <1>1, <2>1, <2>2, RangeOf
  <2> QED
    BY <1>1, <2>1, <2>2, <2>3
<1>5. ASSUME mode = "install", faults = 0
      PROVE  /\ \E i \in 1 .. 10 : todo' = Rest(InstallRoutes, i) /\ Routed(i)'
             /\ orig \subseteq main' /\ ("lan" \in main' \ orig => "server" \in main')
  <2>1. PICK i \in 1 .. 10 : todo = Rest(InstallRoutes, i) /\ Routed(i)
    BY <1>1, <1>5 DEF RoutesOK
  <2>2. i \in 1 .. 9
    BY <1>1, <2>1, RouteSteps
  <2>3. op = InstallRoutes[i] /\ todo' = Rest(InstallRoutes, i + 1) /\ i + 1 \in 1 .. 10
    <3>1. Head(todo) = InstallRoutes[i] /\ Tail(todo) = Rest(InstallRoutes, i + 1)
      BY <2>1, <2>2, RouteSteps
    <3>2. i + 1 \in 1 .. 10
      BY <2>2
    <3> QED
      BY <1>1, <3>1, <3>2 DEF op
  <2>4. orig \subseteq main /\ ("lan" \in main \ orig => "server" \in main) /\ orig \subseteq {"lan"}
        /\ main \subseteq Main /\ added \in Seq(Main)
    BY <1>5 DEF RoutesOK, ProcessTyped
  <2>5. CASE i = 1
    <3>1. op.verb = "add" /\ op.arg = "server"
      BY <2>3, <2>5, RoutePrograms DEF Op
    <3>2. "server" \notin main /\ main' = main \cup {"server"} /\ added' = Append(added, "server")
      BY <1>1, <3>1 DEF RoutePossible
    <3>3. added = <<>> /\ "default" \notin main
      BY <2>1, <2>5 DEF Routed
    <3>4. main = orig
      BY <2>4, <3>2, <3>3 DEF Main
    <3>5. Range(added') = {"server"}
      <4>1. Range(added) = {} /\ "server" \in Main
        BY <2>4, <3>3, RangeOf DEF Main
      <4>2. Range(Append(added, "server")) = Range(added) \cup {"server"}
        BY <2>4, <4>1, RangeOf
      <4> QED
        BY <3>2, <4>1, <4>2
    <3>6. Mine(Range(added))' /\ "server" \in Range(added') /\ "default" \notin main'
      BY <1>1, <2>4, <3>2, <3>3, <3>4, <3>5 DEF Mine
    <3>7. Routed(2)'
      BY <3>6 DEF Routed
    <3> QED
      BY <2>3, <2>4, <2>5, <3>2, <3>7
  <2>6. CASE i \in {2, 3}
    <3>1. op.verb = "add" /\ op.arg = (IF i = 2 THEN "lan" ELSE "default") /\ op.arg \in Main
      BY <2>3, <2>6, RoutePrograms DEF Op, Main
    <3>2. op.arg \notin main /\ main' = main \cup {op.arg} /\ added' = Append(added, op.arg)
      BY <1>1, <3>1 DEF RoutePossible
    <3>3. Mine(Range(added)) /\ "server" \in Range(added) /\ (i > 2 => "lan" \in main) /\ "default" \notin main
      BY <2>1, <2>6 DEF Routed
    <3>4. Range(added') = Range(added) \cup {op.arg}
      BY <2>4, <3>1, <3>2, RangeOf
    <3>5. Mine(Range(added))' /\ "server" \in Range(added')
      BY <1>1, <2>4, <3>2, <3>3, <3>4 DEF Mine
    <3>6. "lan" \in main' /\ ("default" \in main' <=> i = 3)
      BY <2>6, <3>1, <3>2, <3>3
    <3>7. Routed(i + 1)'
      BY <2>6, <3>5, <3>6 DEF Routed
    <3>8. "server" \in main'
      BY <3>2, <3>3 DEF Mine
    <3> QED
      BY <2>3, <2>4, <3>2, <3>7, <3>8
  <2>7. CASE i \in 4 .. 9
    <3>1. op.verb \in {"bypass", "unbypass"}
      BY <2>3, <2>7, RoutePrograms
    <3>2. main' = main /\ added' = added
      BY <1>1, <3>1
    <3>3. Routed(i + 1)
      BY <2>1, <2>7 DEF Routed
    <3>4. Routed(i + 1)'
      BY <1>1, <3>2, <3>3 DEF Routed, Mine
    <3> QED
      BY <2>3, <2>4, <3>2, <3>4
  <2> QED
    BY <2>2, <2>5, <2>6, <2>7
<1>6. ASSUME mode = "remove", faults = 0
      PROVE  /\ \E l \in BOOLEAN : \E i \in 1 .. IF l THEN 5 ELSE 4 :
                  todo' = Rest(DropRoutes(l), i) /\ Unrouted(l, i)'
             /\ orig \subseteq main' /\ ("lan" \in main' \ orig => "server" \in main')
  <2>1. PICK l \in BOOLEAN : \E i \in 1 .. IF l THEN 5 ELSE 4 :
                                todo = Rest(DropRoutes(l), i) /\ Unrouted(l, i)
    BY <1>1, <1>6 DEF RoutesOK
  <2>2. PICK i \in 1 .. DropLength(l) + 1 : todo = Rest(DropRoutes(l), i) /\ Unrouted(l, i)
    BY <2>1 DEF DropLength
  <2>3. i \in 1 .. DropLength(l)
    <3>1. i # DropLength(l) + 1
      BY <1>1, <2>2, DropSteps
    <3> QED
      BY <2>2, <3>1 DEF DropLength
  <2>4. op = DropRoutes(l)[i] /\ todo' = Rest(DropRoutes(l), i + 1)
    BY <1>1, <2>2, <2>3, DropSteps DEF op
  <2>5. i + 1 \in 1 .. (IF l THEN 5 ELSE 4) /\ i \in 1 .. (IF l THEN 4 ELSE 3)
    BY <2>3 DEF DropLength
  <2>6. orig \subseteq {"lan"} /\ orig' = orig
    BY <1>1 DEF ProcessTyped
  <2>7. /\ Unrouted(l, i + 1)'
        /\ orig \subseteq main' /\ ("lan" \in main' \ orig => "server" \in main')
    <3>1. CASE i = 1
      <4>1. main' = main
        BY <1>1, <2>4, <3>1, DropNames DEF Op
      <4>2. (l <=> "lan" \notin orig) /\ Mine({"server", "default"} \cup IF l THEN {"lan"} ELSE {})
        BY <2>2, <3>1 DEF Unrouted
      <4> QED
        BY <2>6, <3>1, <4>1, <4>2 DEF Unrouted, Mine
    <3>2. CASE i = 2
      <4>1. main' = main \ {"default"}
        BY <1>1, <2>4, <3>2, DropNames DEF Op
      <4>2. (l <=> "lan" \notin orig) /\ Mine({"server", "default"} \cup IF l THEN {"lan"} ELSE {})
        BY <2>2, <3>2 DEF Unrouted
      <4> QED
        BY <2>6, <3>2, <4>1, <4>2 DEF Unrouted, Mine
    <3>3. CASE i = 3 /\ l
      <4>1. main' = main \ {"lan"}
        <5>1. op = Op("del", "lan")
          BY <2>4, <3>3, DropNames
        <5>2. op.verb = "del" /\ op.arg = "lan"
          BY <5>1 DEF Op
        <5> QED
          BY <1>1, <5>2
      <4>2. "lan" \notin orig /\ Mine({"server"} \cup {"lan"})
        BY <2>2, <3>3 DEF Unrouted
      <4> QED
        BY <2>6, <3>3, <4>1, <4>2 DEF Unrouted, Mine
    <3>4. CASE i = 3 /\ ~l
      <4>1. main' = main \ {"server"}
        BY <1>1, <2>4, <3>4, DropNames DEF Op
      <4>2. "lan" \in orig /\ Mine({"server"} \cup {})
        BY <2>2, <3>4 DEF Unrouted
      <4> QED
        BY <2>6, <3>4, <4>1, <4>2 DEF Unrouted, Mine
    <3>5. CASE i = 4
      <4>1. l
        BY <2>5, <3>5
      <4>2. main' = main \ {"server"}
        <5>1. op = Op("del", "server")
          BY <2>4, <3>5, <4>1, DropNames
        <5>2. op.verb = "del" /\ op.arg = "server"
          BY <5>1 DEF Op
        <5> QED
          BY <1>1, <5>2
      <4>3. "lan" \notin orig /\ Mine({"server"})
        BY <2>2, <3>5, <4>1 DEF Unrouted
      <4> QED
        BY <2>6, <3>5, <4>1, <4>2, <4>3 DEF Unrouted, Mine
    <3> QED
      BY <2>5, <3>1, <3>2, <3>3, <3>4, <3>5
  <2> QED
    BY <2>4, <2>5, <2>7
<1>7. mode = "undo" => faults # 0
  BY <1>1 DEF RoutesOK
<1>8. up = "starting" /\ faults = 0 => "route" \notin stages
  BY <1>1 DEF ControlOK
<1>9. RoutesOK'
  BY <1>1, <1>2, <1>4, <1>5, <1>6, <1>7, <1>8 DEF RoutesOK, ProcessTyped
<1> QED
  BY <1>1, <1>3, <1>9

LEMMA IpFailsKeeps ==
  ASSUME RoutesOK, ProcessTyped, ControlOK, IpFails
  PROVE  RoutesOK' /\ Commanded /\ stage # "none" /\ torn' \in BOOLEAN
<1> DEFINE hard == op.verb = "add" /\ op.arg # "lan"
<1>1. /\ stage = "route" /\ todo # <<>> /\ Fails(RoutePossible)
      /\ hard => todo' = Dels(Reverse(added)) /\ mode' = "undo"
      /\ ~hard => todo' = Tail(todo) /\ mode' = mode
      /\ UNCHANGED <<main, bypass, added, up, cfg, stages, stage, guards, outcome, starts, orig, split, botched, torn>>
  BY DEF IpFails, Busy, Done, GiveUp, procRest, host
<1>2. faults' \in faults .. MaxFaults /\ (faults' = 0 => faults = 0 /\ ~RoutePossible)
  BY <1>1, HostGuardsAssumption DEF Fails, ProcessTyped
<1>3. main \subseteq Main /\ bypass \subseteq Bypasses /\ added \in Seq(Main)
  BY DEF RoutesOK
<1>4. todo \in Seq(IF mode = "install" THEN RouteOps ELSE RouteDrops)
  BY <1>1 DEF RoutesOK
<1>5. mode # "install" => ~hard
  <2> SUFFICES ASSUME mode # "install" PROVE ~hard
    OBVIOUS
  <2>1. op \in RouteDrops
    BY <1>1, <1>4, TailTyped DEF op
  <2> QED
    BY <2>1 DEF RouteDrops
<1>6. todo' \in Seq(IF mode' = "install" THEN RouteOps ELSE RouteDrops)
  BY <1>1, <1>3, <1>4, TailTyped, RollBack
<1>7. Commanded /\ torn' \in BOOLEAN
  <2>1. todo' \in Seq(OpType)
    <3>1. Seq(RouteOps) \subseteq Seq(OpType) /\ Seq(RouteDrops) \subseteq Seq(OpType)
      BY OpKinds, SeqMonotone
    <3> QED
      BY <1>6, <3>1
  <2> QED
    BY <1>1, <1>2, <1>5, <2>1 DEF Commanded, procRest, ProcessTyped
<1>8. ASSUME mode = "install", faults' = 0
      PROVE  \/ /\ mode' = "install"
                /\ \E i \in 1 .. 10 : todo' = Rest(InstallRoutes, i) /\ Routed(i)'
             \/ mode' = "undo" /\ todo' = <<>> /\ added' = <<>> /\ "default" \notin main'
  <2>0. faults = 0 /\ ~RoutePossible
    BY <1>2, <1>8
  <2>1. PICK i \in 1 .. 10 : todo = Rest(InstallRoutes, i) /\ Routed(i)
    BY <1>1, <1>8, <2>0 DEF RoutesOK
  <2>2. i \in 1 .. 9
    BY <1>1, <2>1, RouteSteps
  <2>3. op = InstallRoutes[i] /\ Tail(todo) = Rest(InstallRoutes, i + 1)
    BY <2>1, <2>2, RouteSteps DEF op
  <2>4. i + 1 \in 1 .. 10
    BY <2>2
  <2>5. CASE i = 1
    <3>1. op.verb = "add" /\ op.arg = "server"
      BY <2>3, <2>5, RoutePrograms DEF Op
    <3>2. added = <<>> /\ "default" \notin main
      BY <2>1, <2>5 DEF Routed
    <3>3. todo' = <<>> /\ mode' = "undo"
      BY <1>1, <1>3, <3>1, <3>2, RollBack
    <3> QED
      BY <1>1, <3>2, <3>3
  <2>6. CASE i = 2
    <3>1. op.verb = "add" /\ op.arg = "lan"
      BY <2>3, <2>6, RoutePrograms DEF Op
    <3>2. "lan" \in main /\ todo' = Rest(InstallRoutes, 3) /\ mode' = "install"
      <4>1. 2 + 1 = 3
        OBVIOUS
      <4>2. Tail(todo) = Rest(InstallRoutes, 3)
        BY <2>3, <2>6, <4>1
      <4>3. "lan" \in main
        BY <2>0, <3>1 DEF RoutePossible
      <4> QED
        BY <1>1, <1>8, <3>1, <4>2, <4>3
    <3>3. Routed(3)
      BY <2>1, <2>6, <3>2 DEF Routed
    <3>4. Routed(3)'
      BY <1>1, <3>3 DEF Routed, Mine
    <3> QED
      BY <3>2, <3>4
  <2>7. CASE i = 3
    <3>1. op.verb = "add" /\ op.arg = "default"
      BY <2>3, <2>7, RoutePrograms DEF Op
    <3>2. "default" \notin main
      BY <2>1, <2>7 DEF Routed
    <3> QED
      BY <2>0, <3>1, <3>2 DEF RoutePossible
  <2>8. CASE i \in 4 .. 9
    <3>1. op.verb \in {"bypass", "unbypass"}
      BY <2>3, <2>8, RoutePrograms
    <3>2. todo' = Rest(InstallRoutes, i + 1) /\ mode' = "install"
      BY <1>1, <1>8, <2>3, <3>1
    <3>3. Routed(i + 1)
      BY <2>1, <2>8 DEF Routed
    <3>4. Routed(i + 1)'
      BY <1>1, <3>3 DEF Routed, Mine
    <3> QED
      BY <2>4, <3>2, <3>4
  <2> QED
    BY <2>2, <2>5, <2>6, <2>7, <2>8
<1>9. ASSUME mode = "remove", faults' = 0
      PROVE  \E l \in BOOLEAN : \E i \in 1 .. IF l THEN 5 ELSE 4 :
               todo' = Rest(DropRoutes(l), i) /\ Unrouted(l, i)'
  <2>0. faults = 0 /\ ~RoutePossible
    BY <1>2, <1>9
  <2>1. PICK l \in BOOLEAN : \E i \in 1 .. IF l THEN 5 ELSE 4 :
                                todo = Rest(DropRoutes(l), i) /\ Unrouted(l, i)
    BY <1>1, <1>9, <2>0 DEF RoutesOK
  <2>2. PICK i \in 1 .. DropLength(l) + 1 : todo = Rest(DropRoutes(l), i) /\ Unrouted(l, i)
    BY <2>1 DEF DropLength
  <2>3. i \in 1 .. DropLength(l)
    <3>1. i # DropLength(l) + 1
      BY <1>1, <2>2, DropSteps
    <3> QED
      BY <2>2, <3>1 DEF DropLength
  <2>4. op = DropRoutes(l)[i] /\ Tail(todo) = Rest(DropRoutes(l), i + 1)
    BY <2>2, <2>3, DropSteps DEF op
  <2>5. i = 1
    <3>1. CASE i = 2
      <4>1. op.verb = "del" /\ op.arg = "default"
        BY <2>4, <3>1, DropNames DEF Op
      <4>2. "default" \in main
        BY <2>2, <3>1 DEF Unrouted, Mine
      <4> QED
        BY <2>0, <4>1, <4>2 DEF RoutePossible
    <3>2. CASE i = 3 /\ l
      <4>1. op = Op("del", "lan")
        BY <2>4, <3>2, DropNames
      <4>2. op.verb = "del" /\ op.arg = "lan"
        BY <4>1 DEF Op
      <4>3. "lan" \in main
        BY <2>2, <3>2 DEF Unrouted, Mine
      <4> QED
        BY <2>0, <4>2, <4>3 DEF RoutePossible
    <3>3. CASE (i = 3 /\ ~l) \/ (i = 4 /\ l)
      <4>1. op = Op("del", "server")
        BY <2>4, <3>3, DropNames
      <4>2. op.verb = "del" /\ op.arg = "server"
        BY <4>1 DEF Op
      <4>3. "server" \in main
        BY <2>2, <3>3 DEF Unrouted, Mine
      <4> QED
        BY <2>0, <4>2, <4>3 DEF RoutePossible
    <3> QED
      BY <2>3, <3>1, <3>2, <3>3 DEF DropLength
  <2>6. todo' = Rest(DropRoutes(l), 2)
    BY <1>1, <1>5, <1>9, <2>4, <2>5
  <2>7. Unrouted(l, 2)
    BY <2>2, <2>5 DEF Unrouted
  <2>8. Unrouted(l, 2)'
    BY <1>1, <2>7 DEF Unrouted, Mine
  <2>9. 2 \in 1 .. IF l THEN 5 ELSE 4
    OBVIOUS
  <2> QED
    BY <2>6, <2>8, <2>9
<1>10. mode = "undo" => faults' # 0
  BY <1>1, <1>2 DEF RoutesOK
<1>11. up = "starting" /\ faults' = 0 => "route" \notin stages
  BY <1>1 DEF ControlOK
<1>12. faults' = 0 => orig' \subseteq main' /\ ("lan" \in main' \ orig' => "server" \in main')
  BY <1>1, <1>2 DEF RoutesOK
<1>13. mode = "remove" => mode' = "remove"
  BY <1>1, <1>5
<1>14. RoutesOK'
  BY <1>1, <1>3, <1>6, <1>8, <1>9, <1>10, <1>11, <1>12, <1>13 DEF RoutesOK, ProcessTyped
<1> QED
  BY <1>1, <1>7, <1>14

-----------------------------------------------------------------------------
(* NAT, through every step *)

LEMMA NatSteps ==
  /\ \A i \in 1 .. 6 : /\ Rest(InstallNat, i) # <<>> /\ Head(Rest(InstallNat, i)) = InstallNat[i]
                       /\ Tail(Rest(InstallNat, i)) = Rest(InstallNat, i + 1)
  /\ Rest(InstallNat, 1) = InstallNat /\ Rest(InstallNat, 7) = <<>>
  /\ \A i \in 1 .. 8 : /\ Rest(DropNat, i) # <<>> /\ Head(Rest(DropNat, i)) = DropNat[i]
                       /\ Tail(Rest(DropNat, i)) = Rest(DropNat, i + 1)
  /\ Rest(DropNat, 1) = DropNat /\ Rest(DropNat, 9) = <<>>
<1> DEFINE p == InstallNat
           n == 6
           q == DropNat
           m == 8
<1>1. /\ p \in Seq(NatOps) /\ n \in Nat /\ Len(p) = n
      /\ q \in Seq(NatDrops) /\ m \in Nat /\ Len(q) = m
  BY NatPrograms
<1> HIDE DEF p, n, q, m
<1>2. /\ \A i \in 1 .. n : /\ Rest(p, i) # <<>> /\ Head(Rest(p, i)) = p[i]
                            /\ Tail(Rest(p, i)) = Rest(p, i + 1)
      /\ Rest(p, 1) = p /\ Rest(p, n + 1) = <<>>
  BY <1>1, ProgramSteps, Zenon
<1>3. /\ \A i \in 1 .. m : /\ Rest(q, i) # <<>> /\ Head(Rest(q, i)) = q[i]
                            /\ Tail(Rest(q, i)) = Rest(q, i + 1)
      /\ Rest(q, 1) = q /\ Rest(q, m + 1) = <<>>
  BY <1>1, ProgramSteps, Zenon
<1>4. n + 1 = 7 /\ m + 1 = 9
  BY DEF n, m
<1> QED
  BY <1>2, <1>3, <1>4 DEF p, n, q, m

LEMMA NatInit == Init => NatOK
<1> SUFFICES ASSUME Init PROVE NatOK
  OBVIOUS
<1>1. nat = [f \in Fams |-> [r \in NatSpecs |-> 0]] /\ natted = <<>> /\ starts = 0
      /\ stage = "none" /\ guards = {} /\ up = "down" /\ outcome = "none"
  BY DEF Init
<1>2. nat \in [Fams -> [NatSpecs -> Nat]] /\ <<>> \in Seq(NatSpecs)
  BY <1>1
<1>3. \A r \in NatSpecs : nat["v4"][r] = 0 /\ nat["v6"][r] = 0
  BY <1>1 DEF Fams
<1>4. \A r \in NatSpecs : nat["v4"][r] <= 1 /\ nat["v6"][r] <= starts
  BY <1>1, <1>3
<1> QED
  BY <1>1, <1>2, <1>4 DEF NatOK

LEMMA NatElsewhere ==
  ASSUME NatOK, ProcessTyped, Commanded, stage # "nat", UNCHANGED <<nat, natted>>
  PROVE  NatOK'
<1>1. UNCHANGED <<up, cfg, stages, stage, guards, outcome, starts>>
  BY DEF Commanded, procRest
<1>2. faults' = 0 => faults = 0
  BY HostGuardsAssumption DEF Commanded, ProcessTyped
<1>3. Wanted(cfg)' = Wanted(cfg)
  BY <1>1 DEF Wanted, RouteAll
<1> QED
  BY <1>1, <1>2, <1>3 DEF NatOK

LEMMA NatBegin ==
  ASSUME NatOK, ProcessTyped, ControlOK, BeginStage
  PROVE  NatOK'
<1>1. /\ stage = "none" /\ UNCHANGED <<nat, natted, cfg, guards, outcome, faults, starts, up>>
      /\ mode' = (IF up = "starting" THEN "install" ELSE "remove")
      /\ todo' = (IF up = "starting" THEN InstallProgram(stage') ELSE DropProgram(stage'))
      /\ stage' \in stages /\ stages' = stages \ {stage'} /\ up \in {"starting", "stopping"}
  BY BeginStep
<1>2. Wanted(cfg)' = Wanted(cfg)
  BY <1>1 DEF Wanted, RouteAll
<1>3. ASSUME stage' = "nat", up = "starting"
      PROVE  todo' = Rest(InstallNat, 1) /\ todo' \in Seq(NatOps) /\ (faults = 0 => Natted(1)')
  <2>1. todo' = InstallNat
    BY <1>1, <1>3 DEF InstallProgram, Chains
  <2>2. faults = 0 => natted = <<>> /\ \A r \in NatSpecs : nat["v6"][r] < starts
    BY <1>1, <1>3 DEF NatOK
  <2>3. faults = 0 => Natted(1)'
    BY <1>1, <2>2 DEF Natted, NatSpecs
  <2> QED
    BY <2>1, <2>3, NatSteps, NatPrograms
<1>4. ASSUME stage' = "nat", up = "stopping"
      PROVE  /\ todo' \in Seq(NatDrops)
             /\ faults = 0 => todo' = Rest(DropNat, 1) /\ (starts <= 2 => Unnatted(1)')
  <2>1. todo' = RemoveNat /\ natted \in Seq(NatSpecs) /\ "nat" \in guards
    BY <1>1, <1>4 DEF DropProgram, Chains, NatOK, ControlOK
  <2>2. faults = 0 => todo' = Rest(DropNat, 1)
    BY <1>1, <2>1, NatPrograms, NatSteps DEF NatOK
  <2>3. faults = 0 /\ starts <= 2 => Unnatted(1)'
    <3> SUFFICES ASSUME faults = 0, starts <= 2 PROVE Unnatted(1)'
      OBVIOUS
    <3>1. \A r \in NatSpecs : nat["v4"][r] <= 1 /\ nat["v6"][r] <= starts
      BY DEF NatOK
    <3>2. \A f \in Fams, r \in NatSpecs : nat[f][r] \in Nat
      BY DEF NatOK
    <3>3. \A f \in Fams, r \in NatSpecs : nat'[f][r] <= 2
      BY <1>1, <3>1, <3>2 DEF Fams, ProcessTyped
    <3> QED
      BY <3>3 DEF Unnatted, Fams, NatSpecs
  <2> QED
    BY <2>1, <2>2, <2>3, NatPrograms
<1>5. /\ nat' \in [Fams -> [NatSpecs -> Nat]] /\ natted' \in Seq(NatSpecs)
      /\ faults' = 0 => \A r \in NatSpecs : nat'["v4"][r] <= 1 /\ nat'["v6"][r] <= starts'
      /\ faults' = 0 /\ up' = "starting" /\ "nat" \in stages' =>
           natted' = <<>> /\ \A r \in NatSpecs : nat'["v6"][r] < starts'
  BY <1>1 DEF NatOK
<1>6. CASE stage' = "nat" /\ up = "starting"
  <2>1. 1 \in 1 .. 7 /\ mode' = "install"
    BY <1>1, <1>6
  <2> QED
    BY <1>1, <1>3, <1>5, <1>6, <2>1 DEF NatOK
<1>7. CASE stage' = "nat" /\ up = "stopping"
  <2>1. 1 \in 1 .. 9 /\ mode' = "remove"
    BY <1>1, <1>7
  <2> QED
    BY <1>1, <1>4, <1>5, <1>7, <2>1 DEF NatOK
<1>8. CASE stage' # "nat"
  BY <1>1, <1>2, <1>5, <1>8 DEF NatOK
<1> QED
  BY <1>1, <1>6, <1>7, <1>8

LEMMA NatEnd ==
  ASSUME NatOK, ProcessTyped, ControlOK, EndStage
  PROVE  NatOK' /\ (stage = "nat" /\ mode = "undo" => faults > 0)
<1>1. /\ stage' = "none" /\ todo = <<>> /\ UNCHANGED <<nat, natted, cfg, starts, faults>>
      /\ mode \in {"install", "undo", "remove"}
      /\ mode = "install" => guards' = guards \cup {stage}
      /\ mode = "undo" => guards' = guards
      /\ mode = "remove" => guards' = guards \ {stage}
      /\ outcome' \in Graceful => outcome \in Graceful
      /\ up' = "stopping" \/ UNCHANGED <<up, stages>>
      /\ stage # "none"
  BY EndStep DEF ProcessTyped, Guards, Graceful
<1>2. mode # "remove" => up = "starting" /\ outcome \notin Graceful
  BY <1>1 DEF ControlOK, ProcessTyped, Graceful
<1>3. Wanted(cfg)' = Wanted(cfg)
  BY <1>1 DEF Wanted, RouteAll
<1>4. stage = "nat" /\ mode = "undo" => faults # 0
  BY DEF NatOK
<1>5. stage = "nat" /\ mode = "undo" => faults > 0
  BY <1>4 DEF ProcessTyped
<1>6. /\ nat' \in [Fams -> [NatSpecs -> Nat]] /\ natted' \in Seq(NatSpecs)
      /\ faults' = 0 => \A r \in NatSpecs : nat'["v4"][r] <= 1 /\ nat'["v6"][r] <= starts'
      /\ faults' = 0 /\ up' = "starting" /\ "nat" \in stages' =>
           natted' = <<>> /\ \A r \in NatSpecs : nat'["v6"][r] < starts'
  BY <1>1 DEF NatOK
<1>7. ASSUME faults = 0
      PROVE  /\ "nat" \in guards' => natted = AllNatted
             /\ outcome' \in Graceful /\ Wanted(cfg).nat /\ "nat" \notin guards' /\ starts <= 2 =>
                  \A f \in Fams, r \in NatSpecs : nat[f][r] = 0
  <2>1. CASE stage # "nat"
    <3>1. "nat" \in guards' <=> "nat" \in guards
      BY <1>1, <2>1
    <3> QED
      BY <1>1, <1>7, <2>1, <3>1 DEF NatOK
  <2>2. CASE stage = "nat" /\ mode = "install"
    <3>1. PICK i \in 1 .. 7 : todo = Rest(InstallNat, i) /\ Natted(i)
      BY <1>7, <2>2 DEF NatOK
    <3>2. i \notin 1 .. 6
      BY <1>1, <3>1, NatSteps
    <3>3. Natted(7)
      BY <3>1, <3>2
    <3>4. natted = AllNatted
      BY <3>3 DEF Natted
    <3> QED
      BY <1>1, <1>2, <2>2, <3>4
  <2>3. CASE stage = "nat" /\ mode = "remove"
    <3>1. PICK i \in 1 .. 9 : todo = Rest(DropNat, i) /\ (starts <= 2 => Unnatted(i))
      BY <1>7, <2>3 DEF NatOK
    <3>2. i \notin 1 .. 8
      BY <1>1, <3>1, NatSteps
    <3>3. starts <= 2 => Unnatted(9)
      BY <3>1, <3>2
    <3>4. \A f \in Fams, r \in NatSpecs : nat[f][r] \in Nat
      BY DEF NatOK
    <3>5. starts <= 2 => \A f \in Fams, r \in NatSpecs : nat[f][r] = 0
      BY <3>3, <3>4 DEF Unnatted, Fams, NatSpecs
    <3> QED
      BY <1>1, <2>3, <3>5
  <2> QED
    BY <1>1, <1>4, <1>7, <2>1, <2>2, <2>3
<1>8. NatOK'
  BY <1>1, <1>3, <1>6, <1>7 DEF NatOK
<1> QED
  BY <1>5, <1>8

LEMMA NatTurn ==
  ASSUME NatOK, ProcessTyped, ControlOK,
         (\E c : Start(c)) \/ Run \/ Stop \/ SessionEnds \/ Fail \/ Exit
  PROVE  NatOK'
<1>1. stage = "none" /\ stage' = "none" /\ UNCHANGED <<nat, guards, faults>>
  BY DEF Start, Run, Stop, SessionEnds, Fail, Exit, ControlOK, host, ghosts
<1>2. \/ up' = "starting" /\ starts' = starts + 1 /\ natted' = <<>> /\ guards = {} /\ outcome' \notin Graceful
      \/ /\ up' # "starting" /\ UNCHANGED <<cfg, starts, natted>>
         /\ outcome' \in Graceful => outcome \in Graceful \/ up = "running"
  BY DEF Start, Run, Stop, SessionEnds, Fail, Exit, ControlOK, ghosts, Graceful
<1>3. cfg' = cfg => Wanted(cfg)' = Wanted(cfg)
  BY DEF Wanted, RouteAll
<1>4. up = "running" /\ faults = 0 /\ Wanted(cfg).nat => "nat" \in guards
  BY DEF ControlOK, Sure
<1>5. starts \in Nat /\ \A r \in NatSpecs : nat["v4"][r] \in Nat /\ nat["v6"][r] \in Nat
  BY HostGuardsAssumption DEF NatOK, Fams, ProcessTyped
<1>6. <<>> \in Seq(NatSpecs)
  OBVIOUS
<1>7. CASE up' = "starting" /\ starts' = starts + 1 /\ natted' = <<>> /\ guards = {} /\ outcome' \notin Graceful
  <2>1. faults = 0 => \A r \in NatSpecs : nat["v4"][r] <= 1 /\ nat["v6"][r] <= starts' /\ nat["v6"][r] < starts'
    BY <1>5, <1>7 DEF NatOK
  <2> QED
    BY <1>1, <1>6, <1>7, <2>1 DEF NatOK
<1>8. CASE /\ up' # "starting" /\ UNCHANGED <<cfg, starts, natted>>
           /\ outcome' \in Graceful => outcome \in Graceful \/ up = "running"
  BY <1>1, <1>3, <1>4, <1>8 DEF NatOK
<1> QED
  BY <1>2, <1>7, <1>8

LEMMA NatCrash ==
  ASSUME NatOK, ProcessTyped, Crash
  PROVE  NatOK'
<1>1. /\ stage' = "none" /\ guards' = {} /\ outcome' \notin Graceful /\ up' = "down"
      /\ natted' = <<>> /\ UNCHANGED <<nat, starts, faults>>
  BY DEF Crash, Graceful
<1>2. <<>> \in Seq(NatSpecs)
  OBVIOUS
<1> QED
  BY <1>1, <1>2 DEF NatOK

LEMMA NatNames ==
  /\ InstallNat[1] = Op("natdel4", "masquerade") /\ InstallNat[2] = Op("natadd4", "masquerade")
  /\ InstallNat[3] = Op("natdel4", "forward") /\ InstallNat[4] = Op("natadd4", "forward")
  /\ InstallNat[5] = Op("natadd6", "masquerade") /\ InstallNat[6] = Op("natadd6", "forward")
  /\ \A i \in {1, 5} : DropNat[i] = Op("natdel4", "masquerade")
  /\ \A i \in {2, 6} : DropNat[i] = Op("natdel6", "masquerade")
  /\ \A i \in {3, 7} : DropNat[i] = Op("natdel4", "forward")
  /\ \A i \in {4, 8} : DropNat[i] = Op("natdel6", "forward")
BY DEF InstallNat, DropNat

(* One deletion fewer to come, and one copy fewer unless there was none. *)
LEMMA DropCopy ==
  ASSUME NatOK, NEW i \in 1 .. 8, op = DropNat[i], Unnatted(i), starts' = starts,
         nat' \in [Fams -> [NatSpecs -> Nat]],
         \A f \in Fams, r \in NatSpecs :
           nat'[f][r] = IF f = NatFam /\ r = op.arg /\ nat[f][r] > 0 THEN nat[f][r] - 1 ELSE nat[f][r]
  PROVE  Unnatted(i + 1)'
<1>1. \A f \in Fams, r \in NatSpecs : nat[f][r] \in Nat
  BY DEF NatOK
<1>2. CASE i \in {1, 5}
  <2>1. op.verb = "natdel4" /\ op.arg = "masquerade"
    BY <1>2, NatNames DEF Op
  <2> QED
    BY <1>1, <1>2, <2>1 DEF Unnatted, NatFam, Fams, NatSpecs
<1>3. CASE i \in {2, 6}
  <2>1. op.verb = "natdel6" /\ op.arg = "masquerade"
    BY <1>3, NatNames DEF Op
  <2> QED
    BY <1>1, <1>3, <2>1 DEF Unnatted, NatFam, Fams, NatSpecs
<1>4. CASE i \in {3, 7}
  <2>1. op.verb = "natdel4" /\ op.arg = "forward"
    BY <1>4, NatNames DEF Op
  <2> QED
    BY <1>1, <1>4, <2>1 DEF Unnatted, NatFam, Fams, NatSpecs
<1>5. CASE i \in {4, 8}
  <2>1. op.verb = "natdel6" /\ op.arg = "forward"
    BY <1>5, NatNames DEF Op
  <2> QED
    BY <1>1, <1>5, <2>1 DEF Unnatted, NatFam, Fams, NatSpecs
<1> QED
  BY <1>2, <1>3, <1>4, <1>5

LEMMA Appended ==
  ASSUME NEW s \in Seq(NatSpecs), NEW e \in NatSpecs, NEW w \in Seq(NatSpecs),
         Len(w) = Len(s) + 1, w[Len(s) + 1] = e, \A i \in 1 .. Len(s) : w[i] = s[i]
  PROVE  Append(s, e) = w
<1> DEFINE x == Append(s, e)
<1>1. /\ x \in Seq(NatSpecs) /\ Len(x) = Len(s) + 1 /\ x[Len(s) + 1] = e
      /\ \A i \in 1 .. Len(s) : x[i] = s[i]
  OBVIOUS
<1> HIDE DEF x
<1>2. \A i \in 1 .. Len(x) : x[i] = w[i]
  BY <1>1
<1>3. x = w
  BY <1>1, <1>2, SeqEqual
<1> QED
  BY <1>3 DEF x

LEMMA AppendTo ==
  /\ Append(<<>>, "masquerade") = <<"masquerade">>
  /\ Append(<<"masquerade">>, "forward") = <<"masquerade", "forward">>
  /\ Append(<<"masquerade", "forward">>, "masquerade") = <<"masquerade", "forward", "masquerade">>
  /\ Append(<<"masquerade", "forward", "masquerade">>, "forward") = AllNatted
<1> DEFINE a == <<"masquerade">>
           b == <<"masquerade", "forward">>
           c == <<"masquerade", "forward", "masquerade">>
           m == "masquerade"
           f == "forward"
<1>1. Append(<<>>, "masquerade") = <<"masquerade">>
  OBVIOUS
<1>2. a \in Seq(NatSpecs) /\ Len(a) = 1 /\ a[1] = m
  BY DEF NatSpecs
<1>3. b \in Seq(NatSpecs) /\ Len(b) = 2 /\ b[1] = m /\ b[2] = f
  BY DEF NatSpecs
<1>4. c \in Seq(NatSpecs) /\ Len(c) = 3 /\ c[1] = m /\ c[2] = f /\ c[3] = m
  BY DEF NatSpecs
<1>5. AllNatted \in Seq(NatSpecs) /\ Len(AllNatted) = 4
      /\ AllNatted[1] = m /\ AllNatted[2] = f /\ AllNatted[3] = m /\ AllNatted[4] = f
  BY DEF NatSpecs, AllNatted
<1>6. m \in NatSpecs /\ f \in NatSpecs
  BY DEF NatSpecs
<1> HIDE DEF a, b, c, m, f
<1>7. Len(b) = Len(a) + 1 /\ b[Len(a) + 1] = f /\ \A i \in 1 .. Len(a) : b[i] = a[i]
  BY <1>2, <1>3
<1>8. Len(c) = Len(b) + 1 /\ c[Len(b) + 1] = m /\ \A i \in 1 .. Len(b) : c[i] = b[i]
  BY <1>3, <1>4
<1>9. Len(AllNatted) = Len(c) + 1 /\ AllNatted[Len(c) + 1] = f /\ \A i \in 1 .. Len(c) : AllNatted[i] = c[i]
  BY <1>4, <1>5
<1>10. Append(a, f) = b /\ Append(b, m) = c /\ Append(c, f) = AllNatted
  BY <1>2, <1>3, <1>4, <1>5, <1>6, <1>7, <1>8, <1>9, Appended
<1> QED
  BY <1>1, <1>10 DEF a, b, c, m, f

LEMMA NatCmdKeeps ==
  ASSUME NatOK, ProcessTyped, ControlOK, NatCmd
  PROVE  NatOK' /\ Commanded /\ stage # "none" /\ torn' \in BOOLEAN
<1> DEFINE add == op.verb \in {"natadd4", "natadd6"}
<1>1. /\ stage = "nat" /\ todo # <<>> /\ NatPossible /\ todo' = Tail(todo)
      /\ add => nat' = [nat EXCEPT ![NatFam][op.arg] = @ + 1] /\ natted' = Append(natted, op.arg)
      /\ ~add => nat' = [nat EXCEPT ![NatFam][op.arg] = @ - 1] /\ natted' = natted
      /\ UNCHANGED <<mode, up, cfg, stages, stage, guards, outcome, starts, faults, orig, split, botched, torn>>
  BY DEF NatCmd, Busy, Done, procRest, ghosts
<1>2. /\ todo \in Seq(IF mode = "install" THEN NatOps ELSE NatDrops)
      /\ nat \in [Fams -> [NatSpecs -> Nat]] /\ natted \in Seq(NatSpecs)
  BY <1>1 DEF NatOK
<1>3. /\ op \in NatOps /\ (mode # "install" => op \in NatDrops)
      /\ todo' \in Seq(IF mode = "install" THEN NatOps ELSE NatDrops)
  BY <1>1, <1>2, TailTyped, OpKinds DEF op
<1>4. /\ op.arg \in NatSpecs /\ NatFam \in Fams
      /\ op.verb \in {"natadd4", "natadd6", "natdel4", "natdel6"}
      /\ mode # "install" => ~add
  BY <1>3 DEF NatOps, NatDrops, NatFam, Fams
<1>5. Commanded /\ torn' \in BOOLEAN
  <2>1. todo' \in Seq(OpType)
    BY <1>1, TailTyped DEF ProcessTyped
  <2>2. faults' \in faults .. MaxFaults
    BY <1>1, HostGuardsAssumption DEF ProcessTyped
  <2> QED
    BY <1>1, <2>1, <2>2 DEF Commanded, procRest, ProcessTyped
<1>6. ~add => nat[NatFam][op.arg] > 0
  BY <1>1, <1>4 DEF NatPossible
<1>7. \A f \in Fams, r \in NatSpecs : nat[f][r] \in Nat
  BY <1>2
<1>8. \A f \in Fams, r \in NatSpecs :
        nat'[f][r] = IF f = NatFam /\ r = op.arg THEN (IF add THEN nat[f][r] + 1 ELSE nat[f][r] - 1)
                     ELSE nat[f][r]
  <2>1. CASE add
    BY <1>1, <1>2, <1>4, <2>1
  <2>2. CASE ~add
    BY <1>1, <1>2, <1>4, <2>2
  <2> QED
    BY <2>1, <2>2
<1>9. nat' \in [Fams -> [NatSpecs -> Nat]]
  <2> DEFINE n == IF add THEN nat[NatFam][op.arg] + 1 ELSE nat[NatFam][op.arg] - 1
             row == [nat[NatFam] EXCEPT ![op.arg] = n]
  <2>1. n \in Nat
    BY <1>4, <1>6, <1>7
  <2>2. nat' = [nat EXCEPT ![NatFam] = row]
    BY <1>1
  <2> HIDE DEF n
  <2>3. row \in [NatSpecs -> Nat]
    BY <1>2, <1>4, <2>1
  <2> HIDE DEF row
  <2> QED
    BY <1>2, <1>4, <2>2, <2>3
<1>10. natted' \in Seq(NatSpecs)
  <2>1. Append(natted, op.arg) \in Seq(NatSpecs)
    BY <1>2, <1>4, RangeOf
  <2> QED
    BY <1>1, <1>2, <2>1
<1> HIDE DEF add
<1>11. ASSUME mode = "install", faults = 0
       PROVE  /\ \E i \in 1 .. 7 : todo' = Rest(InstallNat, i) /\ Natted(i)'
              /\ \A r \in NatSpecs : nat'["v4"][r] <= 1 /\ nat'["v6"][r] <= starts
  <2>1. PICK i \in 1 .. 7 : todo = Rest(InstallNat, i) /\ Natted(i)
    BY <1>1, <1>11 DEF NatOK
  <2>2. i \in 1 .. 6
    BY <1>1, <2>1, NatSteps
  <2>3. op = InstallNat[i] /\ Tail(todo) = Rest(InstallNat, i + 1)
    BY <2>1, <2>2, NatSteps DEF op
  <2>4. i + 1 \in 1 .. 7 /\ starts \in Nat /\ starts' = starts
    <3>1. starts \in Nat
      BY HostGuardsAssumption DEF ProcessTyped
    <3> QED
      BY <1>1, <2>2, <3>1
  <2>5. \A r \in NatSpecs : nat["v4"][r] <= 1 /\ nat["v6"][r] <= starts
    BY <1>11 DEF NatOK
  <2>6. CASE i = 1
    <3>1. op.verb = "natdel4" /\ op.arg = "masquerade"
      BY <2>3, <2>6, NatNames DEF Op
    <3>2. ~add /\ NatFam = "v4" /\ natted' = natted
      BY <1>1, <3>1 DEF add, NatFam
    <3>3. Natted(2)' /\ \A r \in NatSpecs : nat'["v4"][r] <= 1 /\ nat'["v6"][r] <= starts
      BY <1>6, <1>7, <1>8, <2>1, <2>4, <2>5, <2>6, <3>1, <3>2 DEF Natted, Fams, NatSpecs
    <3> QED
      BY <1>1, <2>3, <2>4, <2>6, <3>3
  <2>7. CASE i = 2
    <3>1. op.verb = "natadd4" /\ op.arg = "masquerade"
      BY <2>3, <2>7, NatNames DEF Op
    <3>2. add /\ NatFam = "v4" /\ natted' = <<"masquerade">>
      BY <1>1, <2>1, <2>7, <3>1, AppendTo DEF add, NatFam, Natted
    <3>3. Natted(3)' /\ \A r \in NatSpecs : nat'["v4"][r] <= 1 /\ nat'["v6"][r] <= starts
      BY <1>7, <1>8, <2>1, <2>4, <2>5, <2>7, <3>1, <3>2 DEF Natted, Fams, NatSpecs
    <3> QED
      BY <1>1, <2>3, <2>4, <2>7, <3>3
  <2>8. CASE i = 3
    <3>1. op.verb = "natdel4" /\ op.arg = "forward"
      BY <2>3, <2>8, NatNames DEF Op
    <3>2. ~add /\ NatFam = "v4" /\ natted' = natted
      BY <1>1, <3>1 DEF add, NatFam
    <3>3. Natted(4)' /\ \A r \in NatSpecs : nat'["v4"][r] <= 1 /\ nat'["v6"][r] <= starts
      BY <1>6, <1>7, <1>8, <2>1, <2>4, <2>5, <2>8, <3>1, <3>2 DEF Natted, Fams, NatSpecs
    <3> QED
      BY <1>1, <2>3, <2>4, <2>8, <3>3
  <2>9. CASE i = 4
    <3>1. op.verb = "natadd4" /\ op.arg = "forward"
      BY <2>3, <2>9, NatNames DEF Op
    <3>2. add /\ NatFam = "v4" /\ natted' = <<"masquerade", "forward">>
      BY <1>1, <2>1, <2>9, <3>1, AppendTo DEF add, NatFam, Natted
    <3>3. Natted(5)' /\ \A r \in NatSpecs : nat'["v4"][r] <= 1 /\ nat'["v6"][r] <= starts
      BY <1>7, <1>8, <2>1, <2>4, <2>5, <2>9, <3>1, <3>2 DEF Natted, Fams, NatSpecs
    <3> QED
      BY <1>1, <2>3, <2>4, <2>9, <3>3
  <2>10. CASE i = 5
    <3>1. op.verb = "natadd6" /\ op.arg = "masquerade"
      BY <2>3, <2>10, NatNames DEF Op
    <3>2. add /\ NatFam = "v6" /\ natted' = <<"masquerade", "forward", "masquerade">>
      BY <1>1, <2>1, <2>10, <3>1, AppendTo DEF add, NatFam, Natted
    <3>3. Natted(6)' /\ \A r \in NatSpecs : nat'["v4"][r] <= 1 /\ nat'["v6"][r] <= starts
      BY <1>7, <1>8, <2>1, <2>4, <2>5, <2>10, <3>1, <3>2 DEF Natted, Fams, NatSpecs
    <3> QED
      BY <1>1, <2>3, <2>4, <2>10, <3>3
  <2>11. CASE i = 6
    <3>1. op.verb = "natadd6" /\ op.arg = "forward"
      BY <2>3, <2>11, NatNames DEF Op
    <3>2. add /\ NatFam = "v6" /\ natted' = AllNatted
      BY <1>1, <2>1, <2>11, <3>1, AppendTo DEF add, NatFam, Natted
    <3>3. Natted(7)' /\ \A r \in NatSpecs : nat'["v4"][r] <= 1 /\ nat'["v6"][r] <= starts
      BY <1>7, <1>8, <2>1, <2>4, <2>5, <2>11, <3>1, <3>2 DEF Natted, Fams, NatSpecs
    <3> QED
      BY <1>1, <2>3, <2>4, <2>11, <3>3
  <2> QED
    BY <2>2, <2>6, <2>7, <2>8, <2>9, <2>10, <2>11
<1>12. ASSUME mode = "remove", faults = 0
       PROVE  /\ \E i \in 1 .. 9 : todo' = Rest(DropNat, i) /\ (starts <= 2 => Unnatted(i)')
              /\ \A r \in NatSpecs : nat'["v4"][r] <= 1 /\ nat'["v6"][r] <= starts
  <2>1. PICK i \in 1 .. 9 : todo = Rest(DropNat, i) /\ (starts <= 2 => Unnatted(i))
    BY <1>1, <1>12 DEF NatOK
  <2>2. i \in 1 .. 8
    BY <1>1, <2>1, NatSteps
  <2>3. op = DropNat[i] /\ todo' = Rest(DropNat, i + 1)
    BY <1>1, <2>1, <2>2, NatSteps DEF op
  <2>4. i + 1 \in 1 .. 9 /\ starts \in Nat
    BY <2>2, HostGuardsAssumption DEF ProcessTyped
  <2>5. ~add
    BY <1>4, <1>12 DEF add
  <2>6. \A f \in Fams, r \in NatSpecs :
           nat'[f][r] = IF f = NatFam /\ r = op.arg /\ nat[f][r] > 0 THEN nat[f][r] - 1 ELSE nat[f][r]
    BY <1>6, <1>8, <2>5
  <2>7. starts <= 2 => Unnatted(i + 1)'
    BY <1>1, <1>9, <2>1, <2>2, <2>3, <2>6, DropCopy
  <2>8. \A r \in NatSpecs : nat'["v4"][r] <= 1 /\ nat'["v6"][r] <= starts
    <3>1. \A r \in NatSpecs : nat["v4"][r] <= 1 /\ nat["v6"][r] <= starts
      BY <1>12 DEF NatOK
    <3> QED
      BY <1>7, <2>4, <2>6, <3>1 DEF Fams
  <2> QED
    BY <2>3, <2>4, <2>7, <2>8
<1>13. mode = "undo" => faults # 0
  BY <1>1 DEF NatOK
<1>14. up = "starting" => "nat" \notin stages
  BY <1>1 DEF ControlOK
<1>15. NatOK'
  BY <1>1, <1>3, <1>9, <1>10, <1>11, <1>12, <1>13, <1>14 DEF NatOK, ProcessTyped
<1> QED
  BY <1>1, <1>5, <1>15

LEMMA NatFailsKeeps ==
  ASSUME NatOK, ProcessTyped, ControlOK, NatFails
  PROVE  NatOK' /\ Commanded /\ stage # "none" /\ torn' \in BOOLEAN
<1> DEFINE hard == op.verb = "natadd4"
<1>1. /\ stage = "nat" /\ todo # <<>> /\ Fails(NatPossible)
      /\ hard => todo' = RemoveNat /\ mode' = "undo"
      /\ ~hard => todo' = Tail(todo) /\ mode' = mode
      /\ UNCHANGED <<nat, natted, up, cfg, stages, stage, guards, outcome, starts, orig, split, botched, torn>>
  BY DEF NatFails, Busy, Done, GiveUp, procRest, host
<1>2. faults' \in faults .. MaxFaults /\ (faults' = 0 => faults = 0 /\ ~NatPossible)
  BY <1>1, HostGuardsAssumption DEF Fails, ProcessTyped
<1>3. /\ todo \in Seq(IF mode = "install" THEN NatOps ELSE NatDrops)
      /\ nat \in [Fams -> [NatSpecs -> Nat]] /\ natted \in Seq(NatSpecs)
  BY <1>1 DEF NatOK
<1>4. mode # "install" => ~hard
  <2> SUFFICES ASSUME mode # "install" PROVE ~hard
    OBVIOUS
  <2>1. op \in NatDrops
    BY <1>1, <1>3, TailTyped DEF op
  <2> QED
    BY <2>1 DEF NatDrops
<1>5. todo' \in Seq(IF mode' = "install" THEN NatOps ELSE NatDrops)
  BY <1>1, <1>3, TailTyped, NatPrograms
<1>6. Commanded /\ torn' \in BOOLEAN
  <2>1. todo' \in Seq(OpType)
    <3>1. Seq(NatOps) \subseteq Seq(OpType) /\ Seq(NatDrops) \subseteq Seq(OpType)
      BY OpKinds, SeqMonotone
    <3> QED
      BY <1>5, <3>1
  <2> QED
    BY <1>1, <1>2, <1>4, <2>1 DEF Commanded, procRest, ProcessTyped
<1>7. \A f \in Fams, r \in NatSpecs : nat[f][r] \in Nat
  BY <1>3
<1>8. faults' = 0 => op.verb \in {"natdel4", "natdel6"} /\ ~(nat[NatFam][op.arg] > 0)
  BY <1>2 DEF NatPossible
<1>9. ASSUME mode = "install", faults' = 0
      PROVE  mode' = "install" /\ \E i \in 1 .. 7 : todo' = Rest(InstallNat, i) /\ Natted(i)'
  <2>1. PICK i \in 1 .. 7 : todo = Rest(InstallNat, i) /\ Natted(i)
    BY <1>1, <1>2, <1>9 DEF NatOK
  <2>2. i \in 1 .. 6
    BY <1>1, <2>1, NatSteps
  <2>3. op = InstallNat[i] /\ Tail(todo) = Rest(InstallNat, i + 1)
    BY <2>1, <2>2, NatSteps DEF op
  <2>4. i \in {1, 3}
    <3>1. i \in {2, 4} => op.verb = "natadd4"
      BY <2>3, NatNames DEF Op
    <3>2. i \in {5, 6} => op.verb = "natadd6"
      BY <2>3, NatNames DEF Op
    <3> QED
      BY <1>8, <1>9, <2>2, <3>1, <3>2
  <2>5. op.verb = "natdel4" /\ op.arg = (IF i = 1 THEN "masquerade" ELSE "forward")
    <3>1. CASE i = 1
      BY <2>3, <3>1, NatNames DEF Op
    <3>2. CASE i = 3
      BY <2>3, <3>2, NatNames DEF Op
    <3> QED
      BY <2>4, <3>1, <3>2
  <2>6. nat["v4"][op.arg] = 0
    <3>1. NatFam = "v4" /\ op.arg \in NatSpecs
      BY <2>5 DEF NatFam, NatSpecs
    <3> QED
      BY <1>7, <1>8, <1>9, <3>1 DEF Fams
  <2>7. Natted(i + 1)
    BY <2>1, <2>4, <2>5, <2>6 DEF Natted
  <2>8. Natted(i + 1)'
    BY <1>1, <2>7 DEF Natted
  <2>9. i + 1 \in 1 .. 7 /\ mode' = "install" /\ todo' = Rest(InstallNat, i + 1)
    BY <1>1, <1>9, <2>2, <2>3, <2>5
  <2> QED
    BY <2>8, <2>9
<1>10. ASSUME mode = "remove", faults' = 0
       PROVE  \E i \in 1 .. 9 : todo' = Rest(DropNat, i) /\ (starts <= 2 => Unnatted(i)')
  <2>1. PICK i \in 1 .. 9 : todo = Rest(DropNat, i) /\ (starts <= 2 => Unnatted(i))
    BY <1>1, <1>2, <1>10 DEF NatOK
  <2>2. i \in 1 .. 8
    BY <1>1, <2>1, NatSteps
  <2>3. op = DropNat[i] /\ Tail(todo) = Rest(DropNat, i + 1)
    BY <2>1, <2>2, NatSteps DEF op
  <2>4. \A f \in Fams, r \in NatSpecs :
           nat'[f][r] = IF f = NatFam /\ r = op.arg /\ nat[f][r] > 0 THEN nat[f][r] - 1 ELSE nat[f][r]
    BY <1>1, <1>8, <1>10
  <2>5. starts <= 2 => Unnatted(i + 1)'
    BY <1>1, <1>3, <2>1, <2>2, <2>3, <2>4, DropCopy
  <2>6. i + 1 \in 1 .. 9 /\ todo' = Rest(DropNat, i + 1)
    BY <1>1, <1>4, <1>10, <2>2, <2>3
  <2> QED
    BY <2>5, <2>6
<1>11. mode = "undo" => faults' # 0
  BY <1>1, <1>2 DEF NatOK
<1>12. up = "starting" => "nat" \notin stages
  BY <1>1 DEF ControlOK
<1>13. faults' = 0 => \A r \in NatSpecs : nat["v4"][r] <= 1 /\ nat["v6"][r] <= starts
  BY <1>2 DEF NatOK
<1>14. mode = "remove" => mode' = "remove"
  BY <1>1, <1>4
<1>15. NatOK'
  BY <1>1, <1>3, <1>5, <1>9, <1>10, <1>11, <1>12, <1>13, <1>14 DEF NatOK, ProcessTyped
<1> QED
  BY <1>1, <1>6, <1>15

-----------------------------------------------------------------------------
(* The invariant *)

LEMMA HInvInit == Init => HInv
BY ProcessInit, ChainInit, FilesInit, RoutesInit, NatInit DEF HInv

LEMMA HInvCommand ==
  ASSUME HInv,
         Exec \/ ExecFails \/ Ip \/ IpFails \/ FileOp \/ ReadFails \/ FileFails \/ NatCmd \/ NatFails
  PROVE  HInv'
<1> USE DEF HInv
<1>1. CASE Exec \/ ExecFails
  <2>1. ChainOK' /\ Commanded /\ stage # "none" /\ torn' \in BOOLEAN
    BY <1>1, ExecKeeps, ExecFailsKeeps
  <2>2. stage \in Chains /\ UNCHANGED <<nat, main, bypass, resolv, backup, added, natted, torn>>
    BY <1>1 DEF Exec, ExecFails, Busy, host, ghosts
  <2>3. stage \notin {"resolv", "route", "nat"}
    BY <2>2 DEF Chains
  <2> QED
    BY <2>1, <2>2, <2>3, CommandKeeps, FilesElsewhere, RoutesElsewhere, NatElsewhere
<1>2. CASE Ip \/ IpFails
  <2>1. RoutesOK' /\ Commanded /\ stage # "none" /\ torn' \in BOOLEAN
    BY <1>2, IpKeeps, IpFailsKeeps
  <2>2. stage = "route" /\ UNCHANGED <<chain, nat, resolv, backup, natted, torn>>
    BY <1>2 DEF Ip, IpFails, Busy, host, ghosts
  <2>3. stage \notin Chains
    BY <2>2 DEF Chains
  <2> QED
    BY <2>1, <2>2, <2>3, CommandKeeps, ChainElsewhere, FilesElsewhere, NatElsewhere
<1>3. CASE FileOp \/ ReadFails \/ FileFails
  <2>1. FilesOK' /\ Commanded /\ torn' \in BOOLEAN
    BY <1>3, FileOpKeeps, ReadFailsKeeps, FileFailsKeeps
  <2>2. stage = "resolv" /\ UNCHANGED <<chain, nat, main, bypass, added, natted>>
    BY <1>3 DEF FileOp, ReadFails, FileFails, Busy, host
  <2>3. stage \notin Chains
    BY <2>2 DEF Chains
  <2> QED
    BY <2>1, <2>2, <2>3, CommandKeeps, ChainElsewhere, RoutesElsewhere, NatElsewhere
<1>4. CASE NatCmd \/ NatFails
  <2>1. NatOK' /\ Commanded /\ stage # "none" /\ torn' \in BOOLEAN
    BY <1>4, NatCmdKeeps, NatFailsKeeps
  <2>2. stage = "nat" /\ UNCHANGED <<chain, main, bypass, resolv, backup, added, torn>>
    BY <1>4 DEF NatCmd, NatFails, Busy, host, ghosts
  <2>3. stage \notin Chains
    BY <2>2 DEF Chains
  <2> QED
    BY <2>1, <2>2, <2>3, CommandKeeps, ChainElsewhere, FilesElsewhere, RoutesElsewhere
<1> QED
  BY <1>1, <1>2, <1>3, <1>4

LEMMA HInvStutter ==
  ASSUME HInv, UNCHANGED vars
  PROVE  HInv'
<1>1. UNCHANGED <<chain, nat, main, bypass, resolv, backup, up, cfg, stages, stage, mode, todo,
                  added, natted, guards, outcome, starts, faults, orig, split, botched, torn>>
  BY DEF vars, host, process, ghosts
<1>2. Wanted(cfg)' = Wanted(cfg) /\ Sure' = Sure /\ Safe' = Safe
  BY <1>1 DEF Wanted, RouteAll, Sure, Safe
<1>3. ProcessTyped' /\ ControlOK'
  BY <1>1, <1>2 DEF HInv, ProcessTyped, ControlOK
<1>4. ChainOK'
  <2>1. \A g \in Chains : /\ Installing(chain[g])' <=> Installing(chain[g])
                          /\ Removing(chain[g])' <=> Removing(chain[g])
    BY <1>1 DEF Installing, Removing, Installed, HalfInstalled, Raised, Uncut
  <2>2. Refused(chain["ks"])' <=> Refused(chain["ks"])
    BY <1>1 DEF Refused
  <2> QED
    BY <1>1, <1>2, <2>1, <2>2 DEF HInv, ChainOK, Gone
<1>5. FilesOK'
  <2>1. FilesInstalling' = FilesInstalling /\ FilesRemoving' = FilesRemoving
    BY <1>1, <1>2 DEF FilesInstalling, FilesRemoving
  <2> QED
    BY <1>1, <1>2, <2>1 DEF HInv, FilesOK
<1>6. RoutesOK'
  <2>1. \A i : Routed(i)' = Routed(i)
    BY <1>1 DEF Routed, Mine
  <2>2. \A l, i : Unrouted(l, i)' = Unrouted(l, i)
    BY <1>1 DEF Unrouted, Mine
  <2> QED
    BY <1>1, <2>1, <2>2 DEF HInv, RoutesOK
<1>7. NatOK'
  <2>1. \A i : Natted(i)' = Natted(i) /\ Unnatted(i)' = Unnatted(i)
    BY <1>1 DEF Natted, Unnatted
  <2> QED
    BY <1>1, <1>2, <2>1 DEF HInv, NatOK
<1> QED
  BY <1>3, <1>4, <1>5, <1>6, <1>7 DEF HInv

LEMMA HInvStep ==
  ASSUME HInv, [Next]_vars
  PROVE  HInv'
<1>1. ASSUME NEW s \in Settings, Start(MergeClientConfig(s.file, s.cli)) PROVE HInv'
  <2> DEFINE c == MergeClientConfig(s.file, s.cli)
  <2>1. \A g \in Guards : Wanted(c)[g] \in BOOLEAN
    BY SettingsAssumption
  <2>2. Start(c)
    BY <1>1
  <2> HIDE DEF c
  <2>3. ProcessTyped' /\ ControlOK'
    BY <2>1, <2>2, StartProcess DEF HInv
  <2>4. \E x : Start(x)
    BY <2>2
  <2> QED
    BY <2>3, <2>4, ChainTurn, FilesTurn, RoutesTurn, NatTurn DEF HInv
<1>2. CASE BeginStage
  <2>1. natted \in Seq(NatSpecs)
    BY DEF HInv, NatOK
  <2> QED
    BY <1>2, <2>1, BeginProcess, ChainBegin, FilesBegin, RoutesBegin, NatBegin DEF HInv
<1>3. CASE EndStage
  <2>1. ChainOK' /\ FilesOK' /\ RoutesOK' /\ NatOK'
    BY <1>3, ChainEnd, FilesEnd, RoutesEnd, NatEnd DEF HInv
  <2>2. stage \in {"resolv", "nat"} /\ mode = "undo" => faults > 0
    BY <1>3, FilesEnd, NatEnd DEF HInv
  <2> QED
    BY <1>3, <2>1, <2>2, EndProcess DEF HInv
<1>4. CASE Run \/ Stop \/ SessionEnds \/ Fail \/ Exit
  BY <1>4, TurnProcess, ChainTurn, FilesTurn, RoutesTurn, NatTurn DEF HInv
<1>5. CASE Crash
  BY <1>5, TurnProcess, ChainCrash, FilesCrash, RoutesCrash, NatCrash DEF HInv
<1>6. CASE Exec \/ ExecFails \/ Ip \/ IpFails \/ FileOp \/ ReadFails \/ FileFails \/ NatCmd \/ NatFails
  BY <1>6, HInvCommand
<1>7. CASE UNCHANGED vars
  BY <1>7, HInvStutter
<1> QED
  BY <1>1, <1>2, <1>3, <1>4, <1>5, <1>6, <1>7 DEF Next

LEMMA HInvAlways == Spec => []HInv
<1>1. Init => HInv
  BY HInvInit
<1>2. HInv /\ [Next]_vars => HInv'
  BY HInvStep
<1> QED
  BY <1>1, <1>2, PTL DEF Spec

LEMMA HInvTyped == HInv => TypeOK
<1> SUFFICES ASSUME HInv PROVE TypeOK
  OBVIOUS
<1>1. chain \in [Chains -> [Fams -> ChainState]]
  <2>1. [exists : BOOLEAN, rules : 0 .. Rules, jumps : 0 .. 1] \subseteq ChainState
    BY DEF ChainState
  <2>2. chain \in [Chains -> [Fams -> [exists : BOOLEAN, rules : 0 .. Rules, jumps : 0 .. 1]]]
    BY DEF HInv, ChainOK
  <2> QED
    BY <2>1, <2>2
<1>2. Bypasses = Range(BypassPlan)
  <2>1. /\ DOMAIN BypassPlan = {1, 2, 3} /\ BypassPlan[1] = "subnet"
        /\ BypassPlan[2] = "default" /\ BypassPlan[3] = "from"
    BY DEF BypassPlan
  <2> QED
    BY <2>1 DEF Range, Bypasses
<1> QED
  BY <1>1, <1>2 DEF HInv, ProcessTyped, FilesOK, RoutesOK, NatOK, TypeOK

-----------------------------------------------------------------------------
(* Theorems *)

LEMMA WholeChain ==
  ASSUME ChainOK, NEW x, \A f \in Fams : chain["ks"][f] = x
  PROVE  chain["ks"] = [f \in Fams |-> x]
<1>1. chain["ks"] \in [Fams -> [exists : BOOLEAN, rules : 0 .. Rules, jumps : 0 .. 1]]
  BY DEF ChainOK, Chains
<1> QED
  BY <1>1

(* Fail closed (KillSwitch::install, DnsLeakGuard::install and their       *)
(* drops): whatever crashed or failed before, a chain that is held rejects *)
(* in both families until run_client drops it, and a daemon asked for a    *)
(* kill switch never runs without.  Includes type correctness. *)
THEOREM GuardsFailClosed == Spec => []FailClosed
<1>1. HInv => FailClosed
  <2> SUFFICES ASSUME HInv PROVE FailClosed
    OBVIOUS
  <2>1. TypeOK
    BY HInvTyped
  <2>2. \A g \in Chains \cap guards : Blocks(g) \/ (up = "stopping" /\ stage = g)
    <3>1. FullChain.rules = Rules /\ FullChain.jumps = 1
      BY DEF FullChain
    <3>2. \A g \in Chains \cap guards : stage # g => \A f \in Fams : chain[g][f] = FullChain
      BY DEF HInv, ChainOK
    <3>3. \A g \in Chains \cap guards : stage = g => up = "stopping"
      BY DEF HInv, ControlOK, ProcessTyped, Chains
    <3> QED
      BY <3>1, <3>2, <3>3 DEF Blocks
  <2>3. up = "running" /\ cfg.kill_switch => "ks" \in guards
    <3>1. Wanted(cfg)["ks"] = cfg.kill_switch
      BY DEF Wanted
    <3> QED
      BY <3>1 DEF HInv, ControlOK, Sure
  <2> QED
    BY <2>1, <2>2, <2>3 DEF FailClosed
<1> QED
  BY <1>1, HInvAlways, PTL

(* No family jumps to a chain twice, whatever crashed or failed, so that   *)
(* one Unjump lifts it; and a start refused because a command of its kill  *)
(* switch failed leaves no half of the chain (apply_required, whose        *)
(* cleanup runs RemoveOps), or an idle one after a crash inside a removal; *)
(* if no command of a removal failed for no reason. *)
THEOREM NoHalfChains == Spec => []ChainsWhole
<1>1. HInv => ChainsWhole
  <2> SUFFICES ASSUME HInv PROVE ChainsWhole
    OBVIOUS
  <2>1. \A g \in Chains, f \in Fams : chain[g][f].jumps \in 0 .. 1
    BY DEF HInv, ChainOK
  <2>2. up = "down" => stage = "none"
    BY DEF HInv, ControlOK
  <2>3. up = "down" /\ outcome = "refused" /\ ~botched => Refused(chain["ks"])
    BY <2>2 DEF HInv, ChainOK
  <2> QED
    BY <2>1, <2>3 DEF ChainsWhole, Refused
<1> QED
  BY <1>1, HInvAlways, PTL

(* The host's own resolv.conf (ResolvConfGuard) is in place or in the      *)
(* sidecar after any number of lives, crashes and failed writes, unless    *)
(* the sidecar was once made without it: of a file that could not be read, *)
(* or left unfilled by a crash or a failed write. *)
THEOREM OriginalIsKept == Spec => []OriginalKept
<1>1. HInv => OriginalKept
  <2> SUFFICES ASSUME HInv, ~torn PROVE "original" \in {resolv, backup}
    BY DEF OriginalKept
  <2>1. CASE stage # "resolv" \/ mode = "undo"
    BY <2>1 DEF HInv, FilesOK, Safe
  <2>2. CASE stage = "resolv" /\ mode = "install"
    <3>1. FilesInstalling
      BY <2>2 DEF HInv, FilesOK
    <3> QED
      BY <3>1 DEF FilesInstalling
  <2>3. CASE stage = "resolv" /\ mode = "remove"
    <3>1. FilesRemoving
      BY <2>3 DEF HInv, FilesOK
    <3> QED
      BY <3>1 DEF FilesRemoving, Safe
  <2> QED
    BY <2>1, <2>2, <2>3 DEF HInv, ProcessTyped
<1> QED
  BY <1>1, HInvAlways, PTL

(* While the default route leads into the tunnel, the server has a route   *)
(* of its own (RouteGuard::install and its drop), however often the daemon *)
(* crashed before, if no command failed for no reason. *)
THEOREM TunnelNeverLoops == Spec => []NoLoop
<1>1. HInv => NoLoop
  <2> SUFFICES ASSUME HInv, faults = 0, "default" \in main PROVE "server" \in main
    BY DEF NoLoop
  <2>1. CASE stage # "route"
    <3>1. Routed(10)
      BY <2>1 DEF HInv, RoutesOK
    <3> QED
      BY <3>1 DEF Routed, Mine
  <2>2. CASE stage = "route" /\ mode = "install"
    <3>1. PICK i \in 1 .. 10 : Routed(i)
      BY <2>2 DEF HInv, RoutesOK
    <3> QED
      BY <3>1 DEF Routed, Mine
  <2>3. CASE stage = "route" /\ mode = "undo"
    BY <2>3 DEF HInv, RoutesOK
  <2>4. CASE stage = "route" /\ mode = "remove"
    <3>1. PICK l \in BOOLEAN : \E i \in 1 .. IF l THEN 5 ELSE 4 : Unrouted(l, i)
      BY <2>4 DEF HInv, RoutesOK
    <3>2. PICK i \in 1 .. IF l THEN 5 ELSE 4 : Unrouted(l, i)
      BY <3>1
    <3>3. orig \subseteq {"lan"}
      BY DEF HInv, ProcessTyped
    <3> QED
      BY <3>2, <3>3 DEF Unrouted, Mine
  <2> QED
    BY <2>1, <2>2, <2>3, <2>4 DEF HInv, ProcessTyped
<1> QED
  BY <1>1, HInvAlways, PTL

(* Leaving the loop (the end of run_client) leaves the host as it was      *)
(* before the first start, as far as this configuration had guards,        *)
(* although earlier processes crashed in the middle of anything; if no     *)
(* command failed for no reason. *)
THEOREM StopRestoresHost == Spec => []StopRestores
<1>1. HInv => StopRestores
  <2> SUFFICES ASSUME HInv, up = "down", outcome \in Graceful, faults = 0
               PROVE  /\ Wanted(cfg).ks => chain["ks"] = [f \in Fams |-> NoChain]
                      /\ Wanted(cfg).resolv /\ ~torn => resolv = "original" /\ backup = "absent"
                      /\ added # <<>> => main = orig
                      /\ Wanted(cfg).nat /\ starts <= 2 => \A f \in Fams, r \in NatSpecs : nat[f][r] = 0
    BY DEF StopRestores
  <2>1. stage = "none" /\ guards = {}
    BY DEF HInv, ControlOK
  <2>2. Wanted(cfg).ks => \A f \in Fams : chain["ks"][f] = NoChain
    BY <2>1 DEF HInv, ProcessTyped, ChainOK, Gone
  <2>3. Wanted(cfg).ks => chain["ks"] = [f \in Fams |-> NoChain]
    BY <2>2, WholeChain DEF HInv
  <2>4. Wanted(cfg).resolv /\ ~torn => resolv = "original" /\ backup = "absent"
    BY <2>1 DEF HInv, FilesOK
  <2>5. added # <<>> => main = orig
    BY <2>1 DEF HInv, RoutesOK, Graceful
  <2>6. Wanted(cfg).nat /\ starts <= 2 => \A f \in Fams, r \in NatSpecs : nat[f][r] = 0
    BY <2>1 DEF HInv, NatOK
  <2> QED
    BY <2>3, <2>4, <2>5, <2>6
<1> QED
  BY <1>1, HInvAlways, PTL

=============================================================================
