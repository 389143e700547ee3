-------------------------- MODULE MCServerDispatch --------------------------
(* Small instances of ServerDispatch. *)
EXTENDS ServerDispatch

(* Peers sections that list some keys, and none at all. *)
Restricted == {[open |-> FALSE, keys |-> K] : K \in SUBSET Key}

AllListed == {[open |-> FALSE, keys |-> Key]}

(* Keys and addresses are interchangeable where a run starts from one     *)
(* symmetric configuration and checks invariants. *)
Symmetric == Permutations(Key) \cup Permutations(Addr)

OpenMode == {[open |-> TRUE, keys |-> {}]}

=============================================================================
