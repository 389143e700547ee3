----------------------------- MODULE MCConnect -----------------------------
(* Files and command lines of the two ends that differ where it matters. *)
EXTENDS Connect

Here == [path |-> "named", exists |-> TRUE, wellformed |-> TRUE]

NoArgs == [flags |-> {}, values |-> <<>>]

File == [server |-> "server", server_key |-> "server", key_path |-> "client.key"]

ClientOf(file, args) == [kind |-> "this", source |-> Here, file |-> file @@ File, cli |-> args]

BaseClient == ClientOf(<<>>, NoArgs)

Proposes == [handshake |-> [propose |-> TRUE]]

Wide == [transport |-> [data |-> <<"plain", "tagged">>],
         frame |-> [codec |-> <<"v2-tlv", "v1-fixed">>],
         fec |-> [scheme |-> <<"none">>]]

(* The last ones do not get far: not beyond Start, or never to the server. *)
Clients ==
  {BaseClient,
   ClientOf(Wide @@ Proposes, NoArgs),
   [ClientOf(Wide @@ Proposes, NoArgs) EXCEPT !.kind = "older"],
   [ClientOf(Proposes, NoArgs) EXCEPT !.kind = "newer"],
   ClientOf([transport |-> [handshake |-> "tagged"]] @@ Proposes,
            [flags |-> {"no_reconnect"}, values |-> [server |-> "unparsable"]]),
   ClientOf(<<>>, [flags |-> {}, values |-> [server_key |-> "stranger"]])}

StuckClients ==
  {ClientOf([carrier |-> [name |-> "quic"]], NoArgs),
   ClientOf([carrier |-> [name |-> "tcp"]], NoArgs),
   ClientOf([server_key |-> "unreadable"], NoArgs),
   ClientOf([server_key |-> ""], NoArgs),
   ClientOf([key_path |-> ""], NoArgs),
   ClientOf([frame |-> [codec |-> <<"v3">>]], NoArgs),
   ClientOf([congestion |-> [algorithm |-> "cubic"]], NoArgs),
   ClientOf([transport |-> [tag_hex |-> {<<1, 2, 3>>}]], NoArgs),
   [BaseClient EXCEPT !.source.exists = FALSE],
   [BaseClient EXCEPT !.source = [path |-> "default", exists |-> FALSE, wellformed |-> TRUE],
                      !.cli = [flags |-> {}, values |-> [server_key |-> "server", key_path |-> "k"]]]}

ServerOf(file) ==
  [kind |-> "this", file |-> file @@ [key_path |-> "server.key"], cli |-> <<>>, allows |-> TRUE]

Seven == [tag_hex |-> {<<0, 7, 0, 7>>}]

BaseServer == ServerOf([transport |-> Seven])

Servers ==
  {BaseServer,
   ServerOf([Wide EXCEPT !.transport = [data |-> <<SAME, "tagged", "plain">>] @@ Seven]),
   ServerOf([transport |-> [handshake |-> "tagged"] @@ Seven,
             fec |-> [scheme |-> <<"off", "reed-solomon">>]]),
   [BaseServer EXCEPT !.allows = FALSE],
   [BaseServer EXCEPT !.kind = "older"],
   [BaseServer EXCEPT !.kind = "phase1"],
   [BaseServer EXCEPT !.kind = "newer"],
   [BaseServer EXCEPT !.kind = "next"]}

StuckServers == {ServerOf([crypto |-> [aead |-> <<"aes">>]]), ServerOf([key_path |-> ""])}

(* An end of another build meets an end of this one.  Where no session can *)
(* come about a network that is not timely adds nothing. *)
Scenes ==
  {n \in [client : Clients, server : Servers, timely : BOOLEAN] :
     /\ n.client.kind = "this" \/ n.server.kind = "this"
     /\ n.timely \/ (n.server.allows /\ n.client.cli = NoArgs)}
   \cup [client : StuckClients, server : {BaseServer}, timely : {TRUE}]
   \cup [client : {BaseClient}, server : StuckServers, timely : {TRUE}]

=============================================================================
