---------------------------- MODULE MCTunnelLink ----------------------------
(* Small instances of TunnelLink: ends a and b, a the busier one. *)
EXTENDS TunnelLink

CONSTANTS a, b, PktsA, PktsB

MCEnd == {a, b}

MCMaxPkts == [e \in MCEnd |-> IF e = a THEN PktsA ELSE PktsB]

(* a is a client; b is a server's tunnel, which may be evicted. *)
MCArms == [e \in MCEnd |-> IF e = a THEN {"Stopped", "TunError"} ELSE {"Evicted"}]

=============================================================================
