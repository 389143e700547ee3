---------------------------- MODULE MCHostGuards ----------------------------
(* The stock client; with a kill switch; and with the kill switch forced   *)
(* onto a file that asks for no route-all and no resolvers, for a single   *)
(* session. *)
EXTENDS HostGuards

Starts ==
  {[file |-> <<>>, cli |-> [flags |-> {}, values |-> <<>>]],
   [file |-> [kill_switch |-> TRUE], cli |-> [flags |-> {}, values |-> <<>>]],
   [file |-> [route_all |-> FALSE, dns |-> {<<"">>}],
    cli |-> [flags |-> {"kill_switch", "no_nat", "no_reconnect"}, values |-> <<>>]]}

=============================================================================
