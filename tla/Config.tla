------------------------------- MODULE Config -------------------------------
(***************************************************************************)
(* How an end's configuration comes about (config.rs, cli.rs): defaults,   *)
(* then the file, then the command line.  A file, and a section of it, is  *)
(* a function on the keys it gives; an optional setting is a set of at     *)
(* most one value.  Settings that no other module reads are left out.      *)
(***************************************************************************)
EXTENDS Integers, Sequences, Functions

None == {}

(* The sections, with what each leaves to its defaults. *)
HandshakeConfig == [kex |-> "noise-ik", propose |-> FALSE]

CryptoConfig == [aead |-> <<>>]

TransportConfig ==
  [handshake |-> "plain", data |-> <<"same-as-handshake">>, tag_hex |-> None]

FecConfig ==
  [scheme |-> <<"reed-solomon">>, k |-> 1, min_m |-> 0, max_m |-> 4, initial_m |-> 2]

FrameConfig == [codec |-> <<"v1-fixed">>]

CongestionConfig == [algorithm |-> "tcp-reno"]

CarrierConfig == [name |-> "udp"]

Sections ==
  [handshake |-> HandshakeConfig, crypto |-> CryptoConfig, transport |-> TransportConfig,
   fec |-> FecConfig, frame |-> FrameConfig, congestion |-> CongestionConfig,
   carrier |-> CarrierConfig]

(* ServerConfig::default; an empty path or key is one nobody has set. *)
ServerDefault ==
  [listen |-> "any", key_path |-> "", obfuscation |-> None,
   handshake |-> HandshakeConfig, crypto |-> CryptoConfig, transport |-> TransportConfig,
   fec |-> FecConfig, frame |-> FrameConfig, congestion |-> CongestionConfig,
   carrier |-> CarrierConfig]

(* ClientConfig::default *)
ClientDefault ==
  [server |-> "localhost", server_key |-> "", key_path |-> "", reconnect |-> TRUE,
   route_all |-> TRUE, dns_leak_protection |-> TRUE, dns |-> None, kill_switch |-> FALSE,
   enable_nat |-> TRUE, obfuscation |-> None,
   handshake |-> HandshakeConfig, crypto |-> CryptoConfig, transport |-> TransportConfig,
   fec |-> FecConfig, frame |-> FrameConfig, congestion |-> CongestionConfig,
   carrier |-> CarrierConfig]

(* given over base.  A key that base does not have goes unheard            *)
(* (warn_unknown_keys). *)
Override(base, given) ==
  [k \in DOMAIN base |-> IF k \in DOMAIN given THEN given[k] ELSE base[k]]

(* The file over the defaults: [fec] key by key, any other section whole,  *)
(* filled up with that section's defaults. *)
MergeFile(base, file) ==
  [k \in DOMAIN base |->
     IF k \notin DOMAIN file THEN base[k]
     ELSE IF k = "fec" THEN Override(base.fec, file.fec)
     ELSE IF k \in DOMAIN Sections THEN Override(Sections[k], file[k])
     ELSE file[k]]

(* An address on the command line that does not parse is passed over. *)
Parsed(cli, key) ==
  IF key \in DOMAIN cli /\ cli[key] = "unparsable"
    THEN Restrict(cli, DOMAIN cli \ {key}) ELSE cli

(* merge_server_config *)
MergeServerConfig(file, cli) ==
  Override(MergeFile(ServerDefault, file), Parsed(cli, "listen"))

(* The flags of the client; each speaks for one setting. *)
FlagFor ==
  [route_all |-> "no_route", reconnect |-> "no_reconnect",
   dns_leak_protection |-> "no_dns_leak_protection", enable_nat |-> "no_nat",
   kill_switch |-> "kill_switch"]

(* run: a flag that is given switches its setting off, the kill switch on. *)
ClientCliOverrides(cli) ==
  [k \in DOMAIN cli.values \cup {s \in DOMAIN FlagFor : FlagFor[s] \in cli.flags} |->
     IF k \in DOMAIN FlagFor THEN k = "kill_switch" ELSE cli.values[k]]

(* merge_client_config; empty names of resolvers are dropped. *)
MergeClientConfig(file, cli) ==
  LET merged == Override(MergeFile(ClientDefault, file),
                         Parsed(ClientCliOverrides(cli), "server"))
  IN  [merged EXCEPT !.dns = {SelectSeq(names, LAMBDA n : n # "") : names \in @}]

(* load_server_config and load_client_config: a file named on the command  *)
(* line must be there, the default one need not. *)
Loads(source) ==
  IF source.exists THEN source.wellformed ELSE source.path = "default"

=============================================================================
