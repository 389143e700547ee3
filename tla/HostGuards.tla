----------------------------- MODULE HostGuards -----------------------------
(***************************************************************************)
(* What the client daemon does to its host (daemon/mod.rs, run_client, and *)
(* the guards of platform/linux.rs): routes, DNS firewall chain,           *)
(* resolv.conf, kill-switch chain and NAT rules, installed one after the   *)
(* other at start and dropped at the end.                                  *)
(*                                                                         *)
(* The host's state outlives the process.  Every external command and      *)
(* every half of a file write is a step of its own: the process may crash  *)
(* between any two, and a command may fail although it could have worked   *)
(* (the lock of xtables, a full disk).  A crash takes the TUN device and   *)
(* the default route through it; everything else stays as it is.           *)
(*                                                                         *)
(* IPv4 server, so route-all installs its IPv4 half only.  IPv6 is         *)
(* available.  All LAN subnets, local addresses and FORWARD rules stand    *)
(* for one of each.                                                        *)
(***************************************************************************)
EXTENDS Config, SequencesExt

CONSTANTS Settings,   \* files and command lines the daemon is started with
          Rules,      \* rules per family of a chain; the last one rejects
          MaxStarts,  \* bound: times the daemon is started
          MaxFaults   \* bound: commands and writes that fail for no reason

ASSUME HostGuardsAssumption ==
  Rules \in Nat \ {0} /\ MaxStarts \in Nat /\ MaxFaults \in Nat

VARIABLES
  chain,     \* filter chains by owner and family, and the jumps from OUTPUT
  nat,       \* copies of each NAT rule, by family
  main,      \* routes of the main table that the daemon cares about
  bypass,    \* entries of table 100 and the rules into it
  resolv,    \* content of /etc/resolv.conf
  backup,    \* content of the .rustnies.bak sidecar
  up,        \* life of the process
  cfg,       \* the configuration of this start
  stages,    \* guards still to be installed or dropped
  stage,     \* the one being worked on
  mode,      \* installing, undoing a failed install, or removing
  todo,      \* its remaining operations
  added,     \* added_main, from which lan_routes is taken
  natted,    \* NatRules.installed
  guards,    \* guards held
  outcome,   \* how the last process ended
  starts, faults,
  orig,      \* ghost: main before the first start
  split,     \* ghost: a crash cut a removal between the families
  botched,   \* ghost: a command of a chain's removal failed for no reason
  torn       \* ghost: the backup was made without the original in it

host == <<chain, nat, main, bypass, resolv, backup>>
process == <<up, cfg, stages, stage, mode, todo, added, natted, guards, outcome>>
ghosts == <<starts, faults, orig, split, botched, torn>>
vars == <<host, process, ghosts>>

Fams == {"v4", "v6"}
Chains == {"dns", "ks"}
NatSpecs == {"masquerade", "forward"}
Main == {"server", "lan", "default"}
Guards == {"route", "dns", "resolv", "ks", "nat"}
NoChain == [exists |-> FALSE, rules |-> 0, jumps |-> 0]

(* "lan" may be there before: the kernel's own route to the subnet. *)
Init ==
  /\ chain = [c \in Chains |-> [f \in Fams |-> NoChain]]
  /\ nat = [f \in Fams |-> [r \in NatSpecs |-> 0]]
  /\ main \in SUBSET {"lan"}
  /\ bypass = {}
  /\ resolv = "original" /\ backup = "absent"
  /\ up = "down" /\ cfg = ClientDefault
  /\ stages = {} /\ stage = "none" /\ mode = "install" /\ todo = <<>>
  /\ added = <<>> /\ natted = <<>> /\ guards = {} /\ outcome = "none"
  /\ starts = 0 /\ faults = 0
  /\ orig = main
  /\ split = FALSE /\ botched = FALSE /\ torn = FALSE

-----------------------------------------------------------------------------
(* Programs: the operations of each guard, in order *)

(* A chain operation on "both" runs iptables, then ip6tables. *)
Op(verb, arg) == [verb |-> verb, arg |-> arg]

RemoveOps ==
  <<Op("unjump", "both"), Op("flush", "both"), Op("delete", "both")>>

(* ks_rules and dns_rules: the same rules for IPv4, then for IPv6. *)
AppendRules ==
  [i \in 1 .. 2 * Rules |-> Op("append", IF i <= Rules THEN "v4" ELSE "v6")]

InstallOps ==
  RemoveOps \o <<Op("create", "both")>> \o AppendRules \o <<Op("jump", "both")>>

(* bypass_plan: route add SUBNET, route add DEFAULT, rule add FROM.  A step *)
(* is named by the word after its verb. *)
BypassPlan == <<"subnet", "default", "from">>

(* install_bypass_plan records a step for removal when that word is "rule" *)
(* or "route", which it never is. *)
Recorded(word) == IF word \in {"rule", "route"} THEN <<Op("unbypass", word)>> ELSE <<>>

(* A bug: the default route first, so that tunnel packets may loop. *)
RouteAllPlanDefaultFirst == <<"default", "server", "lan">>

RouteAllPlan == <<"server", "lan", "default">>

(* install_bypass_plan deletes each entry before it adds it. *)
InstallBypass ==
  [i \in 1 .. 2 * Len(BypassPlan) |->
     Op(IF i % 2 = 1 THEN "unbypass" ELSE "bypass", BypassPlan[(i + 1) \div 2])]

InstallRoutes ==
  [i \in DOMAIN RouteAllPlan |-> Op("add", RouteAllPlan[i])] \o InstallBypass

Dels(routes) == [i \in DOMAIN routes |-> Op("del", routes[i])]

RemoveBypass ==
  Recorded(BypassPlan[1]) \o Recorded(BypassPlan[2]) \o Recorded(BypassPlan[3])
    \o <<Op("unbypass", "default")>>

(* A bug: the LAN exceptions are forgotten. *)
RemoveRoutesNoLan == RemoveBypass \o Dels(<<"default", "server">>)

(* Drop for RouteGuard. *)
RemoveRoutes ==
  RemoveBypass
    \o Dels(IF "lan" \in Range(added) THEN <<"default", "lan", "server">>
             ELSE <<"default", "server">>)

(* A write truncates, then fills. *)
Write(file) == <<Op("truncate", file), Op("fill", file)>>

(* A bug: the backup is always taken. *)
InstallResolvAlways == Write("backup") \o Write("resolv")

InstallResolv == (IF backup = "absent" THEN Write("backup") ELSE <<>>) \o Write("resolv")

RemoveResolv ==
  IF backup = "absent" THEN <<>> ELSE Write("resolv") \o <<Op("unlink", "backup")>>

InstallNat ==
  <<Op("natdel4", "masquerade"), Op("natadd4", "masquerade"),
    Op("natdel4", "forward"), Op("natadd4", "forward"),
    Op("natadd6", "masquerade"), Op("natadd6", "forward")>>

RemoveNat ==
  [i \in 1 .. 2 * Len(natted) |->
     Op(IF i % 2 = 1 THEN "natdel4" ELSE "natdel6", natted[(i + 1) \div 2])]

InstallProgram(g) == CASE g \in Chains  -> InstallOps
                [] g = "route"   -> InstallRoutes
                [] g = "resolv"  -> InstallResolv
                [] g = "nat"     -> InstallNat

DropProgram(g) == CASE g \in Chains  -> RemoveOps
               [] g = "route"   -> RemoveRoutes
               [] g = "resolv"  -> RemoveResolv
               [] g = "nat"     -> RemoveNat

-----------------------------------------------------------------------------
(* The daemon's order of guards *)

(* What run_client makes of its configuration: the kill switch forces      *)
(* route-all on, the guard of DNS needs route-all, and an explicit empty   *)
(* list of resolvers leaves resolv.conf alone. *)
RouteAll(c) == c.route_all \/ c.kill_switch

Wanted(c) ==
  [route  |-> RouteAll(c),
   dns    |-> RouteAll(c) /\ c.dns_leak_protection,
   resolv |-> RouteAll(c) /\ c.dns_leak_protection /\ c.dns # {<<>>},
   ks     |-> c.kill_switch,
   nat    |-> c.enable_nat]

(* The settings read here are booleans (ClientConfig). *)
ASSUME SettingsAssumption ==
  \A s \in Settings, g \in Guards : Wanted(MergeClientConfig(s.file, s.cli))[g] \in BOOLEAN

(* The reconnection loop is left by break. *)
Graceful == {"stopped", "ended"}

(* The order in which run_client installs them, drops them after its loop, *)
(* and drops them when it returns an error: Rust drops locals in the       *)
(* reverse order of their declaration. *)
InstallOrder == [route |-> 1, dns |-> 2, resolv |-> 3, ks |-> 4, nat |-> 5]
StopOrder    == [resolv |-> 1, dns |-> 2, ks |-> 3, nat |-> 4, route |-> 5]
UnwindOrder  == [nat |-> 1, ks |-> 2, resolv |-> 3, dns |-> 4, route |-> 5]

Order == CASE up = "starting"                            -> InstallOrder
           [] up # "starting" /\ outcome \in Graceful    -> StopOrder
           [] up # "starting" /\ outcome \notin Graceful -> UnwindOrder

Start(c) ==
  /\ up = "down" /\ starts < MaxStarts
  /\ up' = "starting" /\ cfg' = c /\ outcome' = "none"
  /\ stages' = {g \in Guards : Wanted(c)[g]}
  /\ mode' = "install" /\ added' = <<>> /\ natted' = <<>>
  /\ starts' = starts + 1
  /\ UNCHANGED <<host, stage, todo, guards, faults, orig, split, botched, torn>>

BeginStage ==
  /\ up \in {"starting", "stopping"} /\ stage = "none"
  /\ \E g \in stages : /\ \A h \in stages : Order[g] <= Order[h]
                       /\ stage' = g /\ stages' = stages \ {g}
  /\ mode' = IF up = "starting" THEN "install" ELSE "remove"
  /\ todo' = IF up = "starting" THEN InstallProgram(stage') ELSE DropProgram(stage')
  /\ UNCHANGED <<host, up, cfg, added, natted, guards, outcome, ghosts>>

(* A bug: the kill switch is handled like the other guards. *)
EndStageKsOptional ==
  /\ stage # "none" /\ todo = <<>>
  /\ stage' = "none"
  /\ guards' = CASE mode = "install" -> guards \cup {stage}
                 [] mode = "undo"    -> guards
                 [] mode = "remove"  -> guards \ {stage}
  /\ UNCHANGED <<host, up, cfg, stages, mode, todo, added, natted, outcome, ghosts>>

(* Only a failed kill switch is fatal. *)
EndStage ==
  /\ stage # "none" /\ todo = <<>>
  /\ stage' = "none"
  /\ guards' = CASE mode = "install" -> guards \cup {stage}
                 [] mode = "undo"    -> guards
                 [] mode = "remove"  -> guards \ {stage}
  /\ IF stage = "ks" /\ mode = "undo"
     THEN up' = "stopping" /\ stages' = guards /\ outcome' = "refused"
     ELSE UNCHANGED <<up, stages, outcome>>
  /\ UNCHANGED <<host, cfg, mode, todo, added, natted, ghosts>>

(* All guards are in place; the reconnection loop runs. *)
Run ==
  /\ up = "starting" /\ stage = "none" /\ stages = {}
  /\ up' = "running"
  /\ UNCHANGED <<host, cfg, stages, stage, mode, todo, added, natted, guards, outcome,
                 ghosts>>

(* The loop is left by a stop: the guards held are dropped one by one. *)
Stop ==
  /\ up = "running"
  /\ up' = "stopping" /\ outcome' = "stopped"
  /\ stages' = guards
  /\ UNCHANGED <<host, cfg, stage, mode, todo, added, natted, guards, ghosts>>

(* The loop is left after the first session when reconnect is off. *)
SessionEnds ==
  /\ up = "running" /\ ~cfg.reconnect
  /\ up' = "stopping" /\ outcome' = "ended"
  /\ stages' = guards
  /\ UNCHANGED <<host, cfg, stage, mode, todo, added, natted, guards, ghosts>>

(* run_client returns an error: a bad profile, or a carrier or a handshake *)
(* that fails when reconnect is off. *)
Fail ==
  /\ up = "running"
  /\ up' = "stopping" /\ outcome' = "failed"
  /\ stages' = guards
  /\ UNCHANGED <<host, cfg, stage, mode, todo, added, natted, guards, ghosts>>

(* The TUN device goes with the process. *)
Exit ==
  /\ up = "stopping" /\ stage = "none" /\ stages = {}
  /\ up' = "down" /\ main' = main \ {"default"}
  /\ UNCHANGED <<chain, nat, bypass, resolv, backup, cfg, stages, stage, mode, todo,
                 added, natted, guards, outcome, ghosts>>

CutAt(next) == todo # <<>> /\ Head(todo) = next

(* What the process knew goes with it. *)
Crash ==
  /\ up # "down"
  /\ up' = "down" /\ main' = main \ {"default"} /\ outcome' = "crashed"
  /\ cfg' = ClientDefault /\ stages' = {} /\ stage' = "none" /\ mode' = "install"
  /\ todo' = <<>> /\ added' = <<>> /\ natted' = <<>> /\ guards' = {}
  /\ split' = (split \/ CutAt(Op("unjump", "v6")) \/ CutAt(Op("delete", "v6")))
  /\ torn' = (torn \/ CutAt(Op("fill", "backup")))
  /\ UNCHANGED <<chain, nat, bypass, resolv, backup, starts, faults, orig, botched>>

-----------------------------------------------------------------------------
(* Commands *)

op == Head(todo)
Busy(g) == stage \in g /\ todo # <<>>

(* A failure is either the command's own or, within the bound, a fault. *)
Fails(possible) ==
  \/ ~possible /\ UNCHANGED faults
  \/ possible /\ faults < MaxFaults /\ faults' = faults + 1

Done == todo' = Tail(todo) /\ UNCHANGED mode
GiveUp(cleanup) == todo' = cleanup /\ mode' = "undo"

ChainFam == IF op.arg = "v6" THEN "v6" ELSE "v4"

(* iptables: a chain can be created once, and deleted when it is empty and *)
(* nothing jumps to it. *)
Possible(c) == CASE op.verb = "unjump" -> c.jumps > 0
                 [] op.verb = "create" -> ~c.exists
                 [] op.verb = "delete" -> c.exists /\ c.rules = 0 /\ c.jumps = 0
                 [] OTHER              -> c.exists

Applied(c) == CASE op.verb = "unjump" -> [c EXCEPT !.jumps = @ - 1]
                [] op.verb = "flush"  -> [c EXCEPT !.rules = 0]
                [] op.verb = "delete" -> NoChain
                [] op.verb = "create" -> [NoChain EXCEPT !.exists = TRUE]
                [] op.verb = "append" -> [c EXCEPT !.rules = @ + 1]
                [] op.verb = "jump"   -> [c EXCEPT !.jumps = @ + 1]

procRest == <<up, cfg, stages, stage, guards, outcome>>

(* IptablesBackend::exec: iptables, then ip6tables if that worked. *)
Exec ==
  /\ Busy(Chains) /\ Possible(chain[stage][ChainFam])
  /\ chain' = [chain EXCEPT ![stage][ChainFam] = Applied(@)]
  /\ todo' = IF op.arg = "both" THEN <<Op(op.verb, "v6")>> \o Tail(todo) ELSE Tail(todo)
  /\ UNCHANGED <<nat, main, bypass, resolv, backup, mode, added, natted, procRest, ghosts>>

(* A bug: nothing is cleaned up after a failed install. *)
ExecFailsNoCleanup ==
  /\ Busy(Chains) /\ Fails(Possible(chain[stage][ChainFam]))
  /\ IF mode # "install" \/ op.verb \in {"unjump", "flush", "delete"}
     THEN Done ELSE GiveUp(<<>>)
  /\ UNCHANGED <<host, added, natted, procRest, starts, orig, split, botched, torn>>

(* Needed to bring a chain down. *)
Removal == {"unjump", "flush", "delete"}

(* apply_required tolerates its first three operations, apply_best_effort  *)
(* all of them; otherwise the install fails and is undone. *)
ExecFails ==
  /\ Busy(Chains) /\ Fails(Possible(chain[stage][ChainFam]))
  /\ IF mode # "install" \/ op.verb \in Removal THEN Done ELSE GiveUp(RemoveOps)
  /\ botched' = (botched \/ (op.verb \in Removal /\ faults' # faults))
  /\ UNCHANGED <<host, added, natted, procRest, starts, orig, split, torn>>

RoutePossible == CASE op.verb = "add"      -> op.arg \notin main
                   [] op.verb = "del"      -> op.arg \in main
                   [] op.verb = "bypass"   -> op.arg \notin bypass
                   [] op.verb = "unbypass" -> op.arg \in bypass

Ip ==
  /\ Busy({"route"}) /\ RoutePossible
  /\ main' = CASE op.verb = "add" -> main \cup {op.arg}
               [] op.verb = "del" -> main \ {op.arg}
               [] OTHER           -> main
  /\ bypass' = CASE op.verb = "bypass"   -> bypass \cup {op.arg}
                 [] op.verb = "unbypass" -> bypass \ {op.arg}
                 [] OTHER                -> bypass
  /\ added' = IF op.verb = "add" THEN Append(added, op.arg) ELSE added
  /\ Done
  /\ UNCHANGED <<chain, nat, resolv, backup, natted, procRest, ghosts>>

(* The server and the default route are required: their failure rolls the  *)
(* main table back. *)
IpFails ==
  /\ Busy({"route"}) /\ Fails(RoutePossible)
  /\ IF op.verb = "add" /\ op.arg # "lan" THEN GiveUp(Dels(Reverse(added))) ELSE Done
  /\ UNCHANGED <<host, added, natted, procRest, starts, orig, split, botched, torn>>

(* A new backup takes what resolv.conf holds, or nothing; the restore what *)
(* the backup holds. *)
Content == CASE op.arg = "backup"                     -> resolv
             [] op.arg = "nothing"                    -> "empty"
             [] op.arg = "resolv" /\ mode = "install" -> "tunnel"
             [] op.arg = "resolv" /\ mode = "remove"  -> backup

FileOp ==
  /\ Busy({"resolv"})
  /\ LET new == CASE op.verb = "truncate" -> "empty"
                  [] op.verb = "fill"     -> Content
                  [] op.verb = "unlink"   -> "absent"
     IN IF op.arg = "resolv" THEN resolv' = new /\ UNCHANGED backup
                             ELSE backup' = new /\ UNCHANGED resolv
  /\ Done
  /\ UNCHANGED <<chain, nat, main, bypass, added, natted, procRest, ghosts>>

(* A resolv.conf that cannot be read counts as empty (unwrap_or_default): *)
(* the install goes on and makes an empty backup. *)
ReadFails ==
  /\ Busy({"resolv"}) /\ op = Op("truncate", "backup") /\ Fails(TRUE)
  /\ todo' = Write("nothing") \o Write("resolv")
  /\ torn' = TRUE
  /\ UNCHANGED <<host, mode, added, natted, procRest, starts, orig, split, botched>>

(* A failed write ends install and remove with an error; nothing is undone. *)
FileFails ==
  /\ Busy({"resolv"}) /\ Fails(TRUE)
  /\ todo' = <<>> /\ mode' = IF mode = "install" THEN "undo" ELSE mode
  /\ torn' = (torn \/ op = Op("fill", "backup"))
  /\ UNCHANGED <<host, added, natted, procRest, starts, orig, split, botched>>

NatFam == IF op.verb \in {"natdel6", "natadd6"} THEN "v6" ELSE "v4"
NatPossible == op.verb \in {"natdel4", "natdel6"} => nat[NatFam][op.arg] > 0

NatCmd ==
  /\ Busy({"nat"}) /\ NatPossible
  /\ IF op.verb \in {"natadd4", "natadd6"}
     THEN /\ nat' = [nat EXCEPT ![NatFam][op.arg] = @ + 1]
          /\ natted' = Append(natted, op.arg)
     ELSE nat' = [nat EXCEPT ![NatFam][op.arg] = @ - 1] /\ UNCHANGED natted
  /\ Done
  /\ UNCHANGED <<chain, main, bypass, resolv, backup, added, procRest, ghosts>>

(* Only a failed IPv4 append ends the install; the dropped NatRules then   *)
(* removes what it recorded. *)
NatFails ==
  /\ Busy({"nat"}) /\ Fails(NatPossible)
  /\ IF op.verb = "natadd4" THEN GiveUp(RemoveNat) ELSE Done
  /\ UNCHANGED <<host, added, natted, procRest, starts, orig, split, botched, torn>>

Next ==
  \/ \E s \in Settings : Start(MergeClientConfig(s.file, s.cli))
  \/ BeginStage \/ EndStage \/ Run \/ Stop \/ SessionEnds \/ Fail \/ Exit \/ Crash
  \/ Exec \/ ExecFails \/ Ip \/ IpFails \/ FileOp \/ ReadFails \/ FileFails \/ NatCmd \/ NatFails

Spec == Init /\ [][Next]_vars

-----------------------------------------------------------------------------
(* Properties *)

ChainState == [exists : BOOLEAN, rules : 0 .. Rules, jumps : Nat]
File == {"original", "tunnel", "empty"}
OpType ==
  [verb : {"unjump", "flush", "delete", "create", "append", "jump", "add", "del", "bypass",
           "unbypass", "truncate", "fill", "unlink", "natadd4", "natdel4", "natadd6", "natdel6"},
   arg : {"both", "backup", "nothing", "resolv", "subnet", "from"} \cup Fams \cup Main \cup NatSpecs]

(* Types of host and process state. *)
TypeOK ==
  /\ chain \in [Chains -> [Fams -> ChainState]]
  /\ nat \in [Fams -> [NatSpecs -> Nat]]
  /\ main \subseteq Main /\ bypass \subseteq Range(BypassPlan)
  /\ resolv \in File /\ backup \in File \cup {"absent"}
  /\ up \in {"down", "starting", "running", "stopping"}
  /\ \A g \in Guards : Wanted(cfg)[g] \in BOOLEAN
  /\ stages \subseteq Guards /\ stage \in Guards \cup {"none"}
  /\ mode \in {"install", "undo", "remove"}
  /\ todo \in Seq(OpType)
  /\ added \in Seq(Main) /\ natted \in Seq(NatSpecs) /\ guards \subseteq Guards
  /\ outcome \in {"none", "stopped", "ended", "failed", "refused", "crashed"}
  /\ starts \in 0 .. MaxStarts /\ faults \in 0 .. MaxFaults
  /\ orig \subseteq {"lan"} /\ split \in BOOLEAN /\ botched \in BOOLEAN /\ torn \in BOOLEAN

Blocks(g) == \A f \in Fams : chain[g][f].rules = Rules /\ chain[g][f].jumps > 0

(* Fail closed (KillSwitch, DnsLeakGuard): a guard that is held blocks in  *)
(* both families until run_client drops it, whatever crashed or failed     *)
(* before, and a daemon asked for a kill switch never runs without.        *)
(* run_client drops it after a stop, but also when it returns an error and *)
(* when the session ends and reconnect is off, where doc/platform.md:278   *)
(* says "Only a graceful shutdown". *)
FailClosed ==
  /\ TypeOK
  /\ \A g \in Chains \cap guards : Blocks(g) \/ (up = "stopping" /\ stage = g)
  /\ up = "running" /\ cfg.kill_switch => "ks" \in guards

(* Re-installing "never leaves duplicate jumps" (doc/platform.md), whatever *)
(* crashed or failed, so that one Unjump lifts a chain.  A start refused   *)
(* because a command of the kill switch's install failed leaves no half of *)
(* its chain behind (KillSwitch::install), unless an earlier crash cut a   *)
(* removal between the two families: then at most a chain that blocks      *)
(* nothing.  That is, if no command of a removal fails for no reason. *)
ChainsWhole ==
  /\ \A g \in Chains, f \in Fams : chain[g][f].jumps <= 1
  /\ up = "down" /\ outcome = "refused" /\ ~botched
       => \A f \in Fams : /\ chain["ks"][f].rules = 0
                          /\ split \/ chain["ks"][f] = NoChain

(* ResolvConfGuard: the original resolv.conf is in place or in the backup  *)
(* at every moment, over crashes, failed writes and several lives; unless  *)
(* once the backup was made of a resolv.conf that could not be read, or a  *)
(* crash or a failed write came between its creation and its filling.      *)
(* doc/platform.md:226, "never lost", knows none of the two exceptions. *)
OriginalKept == torn \/ "original" \in {resolv, backup}

(* Route-all never sends the tunnel's own packets into the tunnel: while   *)
(* the default route is the TUN, the server has its own, over every order  *)
(* of install, removal and crash, if no command fails for no reason. *)
NoLoop == faults = 0 /\ "default" \in main => "server" \in main

(* Leaving the loop (end of run_client) puts the host back although        *)
(* earlier processes crashed, as far as its configuration asks for the     *)
(* guards and if no command failed for no reason: kill-switch chain,       *)
(* resolv.conf, what this process added to the main table, and NAT rules   *)
(* if at most one process crashed. *)
StopRestores ==
  up = "down" /\ outcome \in Graceful /\ faults = 0 =>
    /\ Wanted(cfg).ks => chain["ks"] = [f \in Fams |-> NoChain]
    /\ Wanted(cfg).resolv /\ ~torn => resolv = "original" /\ backup = "absent"
    /\ added # <<>> => main = orig
    /\ Wanted(cfg).nat /\ starts <= 2 => \A f \in Fams, r \in NatSpecs : nat[f][r] = 0
=============================================================================
