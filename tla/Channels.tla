------------------------------ MODULE Channels ------------------------------
(***************************************************************************)
(* The queues of the multi-client server (tunnel/server.rs): the one       *)
(* dispatcher task, which reads the TUN device, the carrier and the shared *)
(* aggregator of decrypted packets, and one tunnel task per session, each  *)
(* with a bounded channel of datagrams and one of TUN packets.  A full     *)
(* TUN channel holds the dispatcher back, a full aggregator holds the      *)
(* tunnels back, and a freshly accepted stream connection holds the        *)
(* dispatcher until it speaks.  In front of the handshake stands the probe *)
(* limiter.                                                                *)
(*                                                                         *)
(* Who may have a session, roaming and the address cache's staleness are   *)
(* in ServerDispatch: here a client keeps its address.  A datagram is the  *)
(* source address of the packet it carries, Junk when it does not decrypt, *)
(* or Bye, the client's Close.                                             *)
(***************************************************************************)
EXTENDS Integers, Sequences, FiniteSets, FiniteSetsExt

CONSTANTS
  Addr,             \* source addresses of clients
  Ip,               \* addresses inside the tunnel
  TunNet,           \* those of the server's TUN subnet (tun_nets)
  PER_CLIENT_CHAN, TUN_WRITE_CHAN,
  HANDSHAKE_PROBE_BURST, HANDSHAKE_PROBE_INTERVAL,   \* in ticks of the model's clock
  HANDSHAKE_TOKEN_TTL, HANDSHAKE_PROBE_GLOBAL_CAP,
  MaxSessions,      \* bound: sessions ever created
  Scenes            \* what may happen in a behaviour, see Scene

(* stream: the carrier is tcp; from: the addresses that send; ips: the     *)
(* addresses the clients' packets come from; junk: whether bytes that are  *)
(* no frame arrive; sessions, packets: bounds on handshakes and on packets *)
(* read from the TUN; time: the clock runs; stop: the server is stopped.   *)
Scene == [stream : BOOLEAN, from : SUBSET Addr, ips : SUBSET Ip, junk : BOOLEAN,
          sessions : 0 .. MaxSessions, packets : Nat, time : BOOLEAN, stop : BOOLEAN]

ASSUME ChannelsAssumption ==
  /\ Scenes \subseteq Scene
  /\ TunNet \subseteq Ip
  /\ {PER_CLIENT_CHAN, TUN_WRITE_CHAN, HANDSHAKE_PROBE_BURST,
      HANDSHAKE_PROBE_INTERVAL, HANDSHAKE_PROBE_GLOBAL_CAP} \subseteq Nat \ {0}
  /\ HANDSHAKE_TOKEN_TTL \in Nat /\ MaxSessions \in Nat
  /\ HANDSHAKE_TOKEN_TTL >= HANDSHAKE_PROBE_BURST * HANDSHAKE_PROBE_INTERVAL

VARIABLES
  scene,       \* the scene of this behaviour
  disp,        \* where the dispatcher is: its select, or what it awaits
  table,       \* the sessions of the session table
  tun_ips,     \* per session: the tunnel addresses learned
  addr_index,  \* address -> the session last created from it, 0 for none
  created,     \* sessions ever created, with ids 1 .. created
  limiter,     \* ProbeLimiter: by_source and the age of last_purge
  stopping,    \* the stop watch
  task,        \* per session: where its task is
  udp, tun,    \* per session: its two channels
  tun_write,   \* the shared aggregator
  wire,        \* per session: messages on its stream connection, not read yet
  read,        \* number of packets read from the TUN
  routed,      \* ghost, per session: packets the dispatcher chose it for
  taken,       \* ghost, per session: packets its task has taken
  used,        \* ghost, per session: addresses its client has sent from
  ideal        \* ghost, per address: an ideal token bucket, in ticks

dispVars == <<disp, table, tun_ips, addr_index, created, routed, read>>
taskVars == <<task, udp, tun, tun_write, taken>>
limitVars == <<limiter, ideal>>
clientVars == <<wire, used>>
vars == <<scene, stopping, dispVars, taskVars, limitVars, clientVars>>

Session == 1 .. MaxSessions
Junk == "junk"
Bye == "bye"

Full == HANDSHAKE_PROBE_BURST * HANDSHAKE_PROBE_INTERVAL

Select == [at |-> "select"]

Alive(s) == task[s].at \in {"select", "post"}

Gone == disp.at = "stopped"

Init ==
  /\ scene \in Scenes
  /\ disp = Select
  /\ table = {}
  /\ tun_ips = [s \in Session |-> {}]
  /\ addr_index = [a \in Addr |-> 0]
  /\ created = 0
  /\ limiter = [by_source |-> <<>>, purge |-> 0]
  /\ stopping = FALSE
  /\ task = [s \in Session |-> [at |-> "none"]]
  /\ udp = [s \in Session |-> <<>>]
  /\ tun = [s \in Session |-> <<>>]
  /\ tun_write = <<>>
  /\ wire = [s \in Session |-> <<>>]
  /\ read = 0
  /\ routed = [s \in Session |-> <<>>]
  /\ taken = [s \in Session |-> <<>>]
  /\ used = [s \in Session |-> {}]
  /\ ideal = [a \in Addr |-> Full]

-----------------------------------------------------------------------------
(* The probe limiter *)

NewBucket == [tokens |-> HANDSHAKE_PROBE_BURST, age |-> 0]

Refilled(b) == Min({b.tokens + b.age \div HANDSHAKE_PROBE_INTERVAL, HANDSHAKE_PROBE_BURST})

(* A bug: the time of the last refill stays when a probe is granted. *)
TakeForgetsRefill(b) ==
  LET t == Refilled(b)
  IN  [ok |-> t > 0, bucket |-> [tokens |-> Max({t - 1, 0}), age |-> b.age]]

(* ProbeBucket::take: any take, granted or refused, restarts the refill. *)
Take(b) ==
  LET t == Refilled(b)
  IN  [ok |-> t > 0, bucket |-> [tokens |-> Max({t - 1, 0}), age |-> 0]]

(* ProbeLimiter::allow's lazy purge of idle sources. *)
Purged(l) ==
  IF l.purge < HANDSHAKE_TOKEN_TTL THEN l
  ELSE LET keep == {a \in DOMAIN l.by_source : l.by_source[a].age < HANDSHAKE_TOKEN_TTL}
       IN  [by_source |-> [a \in keep |-> l.by_source[a]], purge |-> 0]

(* ProbeLimiter::allow: the verdict and the limiter after it. *)
Allow(l0, src) ==
  LET l == Purged(l0)
      known == src \in DOMAIN l.by_source
      t == Take(IF known THEN l.by_source[src] ELSE NewBucket)
  IN  IF ~known /\ Cardinality(DOMAIN l.by_source) >= HANDSHAKE_PROBE_GLOBAL_CAP
        THEN [ok |-> FALSE, limiter |-> l]
        ELSE [ok |-> t.ok,
              limiter |-> [l EXCEPT !.by_source =
                [a \in DOMAIN @ \cup {src} |-> IF a = src THEN t.bucket ELSE @[a]]]]

(* The probe path charges the limiter, and the ideal bucket what it grants. *)
Probe(src) ==
  LET p == Allow(limiter, src)
  IN  /\ limiter' = p.limiter
      /\ ideal' = [ideal EXCEPT ![src] = @ - IF p.ok THEN HANDSHAKE_PROBE_INTERVAL ELSE 0]

(* Ages stop counting where they no longer matter. *)
Older(age) == Min({age + 1, HANDSHAKE_TOKEN_TTL})

Tick ==
  /\ scene.time
  /\ limiter' = [by_source |-> [a \in DOMAIN limiter.by_source |->
                                  [limiter.by_source[a] EXCEPT !.age = Older(@)]],
                 purge |-> Older(limiter.purge)]
  /\ ideal' = [a \in Addr |-> Min({ideal[a] + 1, Full})]
  /\ UNCHANGED <<scene, stopping, dispVars, taskVars, clientVars>>

-----------------------------------------------------------------------------
(* The dispatcher *)

(* handle_handshake with an answer, and spawn_client. *)
Spawn(a) ==
  LET s == created + 1
  IN  /\ created' = s
      /\ table' = table \cup {s}
      /\ addr_index' = [addr_index EXCEPT ![a] = s]
      /\ task' = [task EXCEPT ![s] = [at |-> "select"]]

Room(s) == Alive(s) /\ Len(udp[s]) < PER_CLIENT_CHAN

(* dispatch_datagram, a frame of session s whose header can be read:       *)
(* without room in the session's channel it is taken for a probe of its    *)
(* address, and dropped. *)
DispatchData(s, d) ==
  /\ disp = Select /\ ~scene.stream
  /\ s \in 1 .. created
  /\ \E a \in scene.from :
       IF s \in table /\ Room(s)
         THEN /\ udp' = [udp EXCEPT ![s] = Append(@, d)]
              /\ UNCHANGED limitVars
         ELSE Probe(a) /\ UNCHANGED udp
  /\ used' = [used EXCEPT ![s] = @ \cup ({d} \cap Ip)]
  /\ UNCHANGED <<scene, stopping, dispVars, task, tun, tun_write, taken, wire>>

(* dispatch_datagram, bytes without a readable header and no message 1:    *)
(* past the limiter they go to the session last seen at their address. *)
DispatchJunk(a) ==
  LET s == addr_index[a]
  IN  /\ disp = Select /\ ~scene.stream
      /\ scene.junk
      /\ Probe(a)
      /\ udp' = IF Allow(limiter, a).ok /\ s \in table /\ Room(s)
                  THEN [udp EXCEPT ![s] = Append(@, Junk)] ELSE udp
      /\ UNCHANGED <<scene, stopping, dispVars, task, tun, tun_write, taken, clientVars>>

(* dispatch_datagram, message 1 of a client that may connect. *)
DispatchHello(a) ==
  /\ disp = Select /\ ~scene.stream
  /\ created < scene.sessions
  /\ Probe(a)
  /\ IF Allow(limiter, a).ok THEN Spawn(a) ELSE UNCHANGED <<created, table, addr_index, task>>
  /\ UNCHANGED <<scene, stopping, disp, tun_ips, routed, read, udp, tun, tun_write, taken,
                 clientVars>>

(* dispatch_connection: the dispatcher itself awaits message 1. *)
Accept(a) ==
  /\ disp = Select /\ scene.stream
  /\ created < scene.sessions
  /\ disp' = [at |-> "accept", from |-> a]
  /\ UNCHANGED <<scene, stopping, table, tun_ips, addr_index, created, routed, read, taskVars,
                 limitVars, clientVars>>

(* The connection brings message 1, or something else or its end. *)
FirstMessage(hello) ==
  /\ disp.at = "accept"
  /\ disp' = Select
  /\ IF hello THEN Spawn(disp.from) ELSE UNCHANGED <<created, table, addr_index, task>>
  /\ UNCHANGED <<scene, stopping, tun_ips, routed, read, udp, tun, tun_write, taken, limitVars,
                 clientVars>>

(* A client sends on its connection.  spawn_client starts no reader for    *)
(* it: what arrives stays there. *)
ClientSends(s, ip) ==
  /\ scene.stream
  /\ Alive(s)
  /\ Len(wire[s]) < PER_CLIENT_CHAN
  /\ wire' = [wire EXCEPT ![s] = Append(@, ip)]
  /\ UNCHANGED <<scene, stopping, dispVars, taskVars, limitVars, used>>

(* The owners of a destination: its session is any of them that lives, in  *)
(* the order of a hash table. *)
Owners(ip) == {s \in table : ip \in tun_ips[s] /\ Alive(s)}

(* A bug: what does not fit is dropped. *)
HandOverDrops(s, n) ==
  /\ tun' = IF Len(tun[s]) < PER_CLIENT_CHAN THEN [tun EXCEPT ![s] = Append(@, n)] ELSE tun
  /\ UNCHANGED disp

(* A packet for session s: without room the dispatcher awaits some. *)
HandOver(s, n) ==
  IF Len(tun[s]) < PER_CLIENT_CHAN
    THEN tun' = [tun EXCEPT ![s] = Append(@, n)] /\ UNCHANGED disp
    ELSE disp' = [at |-> "tun", to |-> s, packet |-> n] /\ UNCHANGED tun

(* TUN -> clients: a packet for ip is read and routed; nobody's is dropped. *)
TunPacket(ip) ==
  /\ disp = Select
  /\ read < scene.packets
  /\ read' = read + 1
  /\ IF Owners(ip) = {} THEN UNCHANGED <<disp, tun, routed>>
     ELSE \E s \in Owners(ip) :
            /\ HandOver(s, [n |-> read + 1, ip |-> ip])
            /\ routed' = [routed EXCEPT ![s] = Append(@, [n |-> read + 1, ip |-> ip])]
  /\ UNCHANGED <<scene, stopping, table, tun_ips, addr_index, created, task, udp, tun_write,
                 taken, limitVars, clientVars>>

(* A bug: the end of the receiver does not wake the sender. *)
SendUnblocksOnRoom ==
  LET s == disp.to
  IN  /\ disp.at = "tun"
      /\ Alive(s) /\ Len(tun[s]) < PER_CLIENT_CHAN
      /\ tun' = [tun EXCEPT ![s] = Append(@, disp.packet)]
      /\ disp' = Select
      /\ UNCHANGED <<scene, stopping, table, tun_ips, addr_index, created, routed, read, task,
                     udp, tun_write, taken, limitVars, clientVars>>

(* The awaited send gets its room, or fails because the task has ended. *)
SendUnblocks ==
  LET s == disp.to
  IN  /\ disp.at = "tun"
      /\ Alive(s) => Len(tun[s]) < PER_CLIENT_CHAN
      /\ tun' = IF Alive(s) THEN [tun EXCEPT ![s] = Append(@, disp.packet)] ELSE tun
      /\ disp' = Select
      /\ UNCHANGED <<scene, stopping, table, tun_ips, addr_index, created, routed, read, task,
                     udp, tun_write, taken, limitVars, clientVars>>

(* A bug: the packet's address is credited to the newest session. *)
LearnNewest(s, ip) ==
  tun_ips' = [tun_ips EXCEPT ![created] = @ \cup ({ip} \cap TunNet)]

(* should_learn_tun_ip: only addresses of the TUN subnet, and only for a   *)
(* session that is still listed. *)
Learn(s, ip) ==
  tun_ips' = IF s \in table THEN [tun_ips EXCEPT ![s] = @ \cup ({ip} \cap TunNet)] ELSE tun_ips

(* clients -> TUN *)
TunWrite ==
  /\ disp = Select
  /\ tun_write # <<>>
  /\ tun_write' = Tail(tun_write)
  /\ Learn(Head(tun_write).sid, Head(tun_write).ip)
  /\ UNCHANGED <<scene, stopping, disp, table, addr_index, created, routed, read, task, udp,
                 tun, taken, limitVars, clientVars>>

(* The sweep. *)
Sweep ==
  /\ disp = Select
  /\ table' = {s \in table : Alive(s)}
  /\ addr_index' = [a \in Addr |-> IF addr_index[a] \in table' THEN addr_index[a] ELSE 0]
  /\ UNCHANGED <<scene, stopping, disp, tun_ips, created, routed, read, taskVars, limitVars,
                 clientVars>>

(* An operator stops the server. *)
StopSignal ==
  /\ scene.stop /\ ~stopping
  /\ stopping' = TRUE
  /\ UNCHANGED <<scene, dispVars, taskVars, limitVars, clientVars>>

(* The loop is left: every handle is dropped, and with run_server's return *)
(* the aggregator's receiver. *)
Shutdown ==
  /\ disp = Select
  /\ stopping
  /\ disp' = [at |-> "stopped"]
  /\ table' = {}
  /\ addr_index' = [a \in Addr |-> 0]
  /\ tun_write' = <<>>
  /\ UNCHANGED <<scene, stopping, tun_ips, created, routed, read, task, udp, tun, taken,
                 limitVars, clientVars>>

-----------------------------------------------------------------------------
(* The tunnel tasks *)

(* Leaving Tunnel::run drops the receivers; ServerDispatch tells the ways  *)
(* to leave apart. *)
Ends(s) ==
  /\ task' = [task EXCEPT ![s] = [at |-> "ended"]]
  /\ udp' = [udp EXCEPT ![s] = <<>>]
  /\ tun' = [tun EXCEPT ![s] = <<>>]
  /\ routed' = [routed EXCEPT ![s] = <<>>]
  /\ taken' = [taken EXCEPT ![s] = <<>>]
  /\ UNCHANGED <<scene, stopping, disp, table, tun_ips, addr_index, created, read, tun_write,
                 limitVars, clientVars>>

(* handle_udp_datagram: a packet goes to the aggregator (ChannelTun::send). *)
TaskUdp(s) ==
  /\ task[s].at = "select"
  /\ udp[s] # <<>>
  /\ IF Head(udp[s]) = Bye THEN Ends(s)
     ELSE /\ udp' = [udp EXCEPT ![s] = Tail(@)]
          /\ task' = [task EXCEPT ![s] = IF Head(udp[s]) = Junk THEN @
                                         ELSE [at |-> "post", ip |-> Head(udp[s])]]
          /\ UNCHANGED <<scene, stopping, dispVars, tun, tun_write, taken, limitVars, clientVars>>

(* A bug: the packet waits for room though nobody will make any. *)
TaskPostStubborn(s) ==
  /\ task[s].at = "post"
  /\ ~Gone
  /\ Len(tun_write) < TUN_WRITE_CHAN
  /\ tun_write' = Append(tun_write, [sid |-> s, ip |-> task[s].ip])
  /\ task' = [task EXCEPT ![s] = [at |-> "select"]]
  /\ UNCHANGED <<scene, stopping, dispVars, udp, tun, taken, limitVars, clientVars>>

(* ChannelTun::send completes, or fails because the receiver is gone. *)
TaskPost(s) ==
  /\ task[s].at = "post"
  /\ Gone \/ Len(tun_write) < TUN_WRITE_CHAN
  /\ tun_write' = IF Gone THEN tun_write
                  ELSE Append(tun_write, [sid |-> s, ip |-> task[s].ip])
  /\ task' = [task EXCEPT ![s] = [at |-> "select"]]
  /\ UNCHANGED <<scene, stopping, dispVars, udp, tun, taken, limitVars, clientVars>>

(* ChannelTun::recv and handle_tun_packet, which sends or drops. *)
TaskTun(s) ==
  /\ task[s].at = "select"
  /\ tun[s] # <<>>
  /\ tun' = [tun EXCEPT ![s] = Tail(@)]
  /\ taken' = [taken EXCEPT ![s] = Append(@, Head(tun[s]))]
  /\ UNCHANGED <<scene, stopping, dispVars, task, udp, tun_write, limitVars, clientVars>>

(* The inactivity timeout; a task at its select sees it, and nothing else  *)
(* that waits does. *)
TaskTimeout(s) == task[s].at = "select" /\ Ends(s)

TaskStopped(s) == task[s].at = "select" /\ stopping /\ Ends(s)

(* The handle is gone and a channel is drained. *)
TaskOrphaned(s) ==
  /\ task[s].at = "select"
  /\ s \notin table
  /\ udp[s] = <<>> \/ tun[s] = <<>>
  /\ Ends(s)

Dispatcher ==
  \/ \E a \in scene.from : DispatchJunk(a) \/ DispatchHello(a) \/ Accept(a)
  \/ \E s \in Session : \E d \in scene.ips \cup {Bye} : DispatchData(s, d)
  \/ \E hello \in BOOLEAN : FirstMessage(hello)
  \/ \E ip \in TunNet \cap scene.ips : TunPacket(ip)
  \/ SendUnblocks \/ TunWrite \/ Sweep \/ Shutdown

Task(s) ==
  \/ TaskUdp(s) \/ TaskPost(s) \/ TaskTun(s)
  \/ TaskTimeout(s) \/ TaskStopped(s) \/ TaskOrphaned(s)

Next ==
  \/ Tick \/ StopSignal
  \/ Dispatcher
  \/ \E s \in Session : \/ Task(s)
                        \/ \E ip \in scene.ips : ClientSends(s, ip)

Spec == Init /\ [][Next]_vars

(* A task that can go on does, and the dispatcher's select is fair ("no    *)
(* biased here on purpose"): a stop signal it sees again and again is      *)
(* taken.  Nobody owes the server a packet, a message or a timeout. *)
Fairness ==
  /\ WF_vars(SendUnblocks) /\ SF_vars(Shutdown)
  /\ \A s \in Session : /\ WF_vars(TaskUdp(s)) /\ WF_vars(TaskPost(s))
                        /\ WF_vars(TaskTun(s)) /\ WF_vars(TaskStopped(s))

FairSpec == Spec /\ Fairness

-----------------------------------------------------------------------------

Packet == [n : 1 .. read, ip : TunNet]

TypeOK ==
  /\ scene \in Scenes
  /\ \/ disp \in {Select, [at |-> "stopped"]}
     \/ disp \in [at : {"accept"}, from : Addr]
     \/ disp \in [at : {"tun"}, to : 1 .. created, packet : Packet]
  /\ table \subseteq 1 .. created
  /\ tun_ips \in [Session -> SUBSET TunNet]
  /\ Cardinality(DOMAIN limiter.by_source) <= HANDSHAKE_PROBE_GLOBAL_CAP
  /\ \A a \in DOMAIN limiter.by_source :
       limiter.by_source[a] \in [tokens : 0 .. HANDSHAKE_PROBE_BURST,
                                 age : 0 .. HANDSHAKE_TOKEN_TTL]
  /\ \A s \in Session :
       /\ s > created <=> task[s].at = "none"
       /\ Len(udp[s]) <= PER_CLIENT_CHAN /\ Len(tun[s]) <= PER_CLIENT_CHAN
  /\ Len(tun_write) <= TUN_WRITE_CHAN

(* However a source spaces its probes, and whatever the purge forgets, the *)
(* limiter grants it no more than a token bucket of the configured burst   *)
(* and rate would ("at most HANDSHAKE_PROBE_BURST probes burst, then       *)
(* refilled at one token per HANDSHAKE_PROBE_INTERVAL_MS"). *)
RateBounded == TypeOK /\ \A a \in Addr : ideal[a] >= 0

(* The dispatcher neither drops nor reorders return traffic of a session   *)
(* that lives: what it routed there is what the task took, what the        *)
(* channel holds and what the dispatcher is still waiting to hand over     *)
(* ("applying backpressure ... instead of silently dropping"). *)
ReturnInOrder ==
  \A s \in Session :
    Alive(s) =>
      routed[s] = taken[s] \o tun[s]
                    \o IF disp.at = "tun" /\ disp.to = s THEN <<disp.packet>> ELSE <<>>

(* A client is sent only the return traffic of addresses its own traffic   *)
(* came from, though learning lags behind in a queue shared by all clients *)
(* (the session tag of the aggregator, ChannelTun). *)
ReturnToOwner ==
  \A s \in Session : \A i \in DOMAIN routed[s] : routed[s][i].ip \in used[s]

(* The one circular wait of the server: the dispatcher waits for room in   *)
(* the TUN channel of a session whose task waits for room in the           *)
(* aggregator, which only the dispatcher empties. *)
CircularWait ==
  /\ disp.at = "tun"
  /\ task[disp.to].at = "post"
  /\ Len(tun[disp.to]) = PER_CLIENT_CHAN
  /\ Len(tun_write) = TUN_WRITE_CHAN

(* Backpressure ends: the dispatcher's wait for a client is over sooner or *)
(* later, whatever the client's task does, except in the circular wait. *)
BackpressureEnds == disp.at = "tun" ~> disp.at # "tun" \/ CircularWait

(* A stop ends the dispatcher and every tunnel task, also those waiting    *)
(* for room in the aggregator, unless the dispatcher is in the circular    *)
(* wait or at a connection that stays silent (the shutdown of run_server). *)
StopEnds ==
  stopping ~> \/ Gone /\ \A s \in Session : ~Alive(s)
              \/ CircularWait
              \/ disp.at = "accept"

(* "every later message on this connection belongs to the session the      *)
(* handshake creates" (dispatch_connection): what a client sends on its    *)
(* connection is read, unless the server is stopped. *)
ConnectionServed ==
  \A s \in Session : wire[s] # <<>> ~> wire[s] = <<>> \/ stopping
=============================================================================
