-------------------------- MODULE DatagramService --------------------------
(***************************************************************************)
(* What a tunnel promises about the IP packets it carries: best effort.    *)
(* Packets may be lost and reordered, but nothing is made up, and a packet *)
(* that travels with parity is handed to the far TUN device at most once.  *)
(***************************************************************************)
EXTENDS Integers

CONSTANT Source   \* the IP packets

VARIABLES offered,    \* packets the near TUN device produced
          protected,  \* those of them sent with parity
          writes      \* how often each was written to the far TUN device (2: more)

vars == <<offered, protected, writes>>

Init ==
  /\ offered = {}
  /\ protected = {}
  /\ writes = [n \in Source |-> 0]

Offer(n) ==
  /\ n \in Source \ offered
  /\ offered' = offered \cup {n}
  /\ protected' \in {protected, protected \cup {n}}
  /\ UNCHANGED writes

(* One arrival may complete a group and hand over several packets. *)
Deliver(S) ==
  /\ S \subseteq offered
  /\ \A n \in S \cap protected : writes[n] = 0
  /\ writes' = [n \in Source |->
       IF n \notin S THEN writes[n] ELSE IF writes[n] = 0 THEN 1 ELSE 2]
  /\ UNCHANGED <<offered, protected>>

Next == (\E n \in Source : Offer(n)) \/ (\E S \in SUBSET Source : Deliver(S))

Spec == Init /\ [][Next]_vars

=============================================================================
