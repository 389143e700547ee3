--------------------------- MODULE ServerDispatch ---------------------------
(***************************************************************************)
(* The multi-client server: the dispatcher task of tunnel/server.rs with   *)
(* its session table and address cache, one tunnel task per session, the   *)
(* channels between them, the authorization set of tunnel/peers.rs, and    *)
(* the operator commands of ipc/mod.rs.                                    *)
(*                                                                         *)
(* A tunnel task is modelled by what the dispatcher can tell of it: the    *)
(* datagrams it takes from its channel, the address it answers to, and how *)
(* it ends.  A datagram decrypts under the key of one session or of none   *)
(* (sid = 0: garbled, or made up), comes from some address and may be the  *)
(* client's Close; the network may bring it at any time and any number of  *)
(* times.  A datagram the probe limiter drops is a lost one.               *)
(***************************************************************************)
EXTENDS Integers, Sequences, FiniteSets, TLC

CONSTANTS Key,             \* static public keys of clients
          Addr,            \* source addresses
          MaxSessions,     \* bound: handshakes that succeed
          MAX_PER_PEER,    \* max_sessions_per_peer, 0 for unlimited
          PER_CLIENT_CHAN, \* capacity of a session's datagram channel
          AuthConfigs,     \* contents the peers section of the config may have
          MaxRoams,        \* bound: address changes in the channel
          MayStop,         \* whether the server is stopped
          MayWait          \* whether an arm's await may hold the dispatcher or a task

ASSUME ServerDispatchAssumption ==
  /\ MaxSessions \in Nat /\ MAX_PER_PEER \in Nat /\ MaxRoams \in Nat
  /\ PER_CLIENT_CHAN \in Nat \ {0}
  /\ AuthConfigs \subseteq [open : BOOLEAN, keys : SUBSET Key]
  /\ MayStop \in BOOLEAN /\ MayWait \in BOOLEAN

VARIABLES
  auth,        \* PeerAuth.open, PeerAuth.keys
  denylist,    \* PeerAuth.denylist
  control,     \* keys of Revoke commands on their way to the dispatcher
  acked,       \* ghost: keys whose revocation the dispatcher has carried out
  sessions,    \* the session table: key and current_addr of a ClientHandle
  idle,        \* the order of last_forwarded in the table, as pairs <<earlier, later>>
  addr_index,  \* SocketAddr -> SessionId, 0 for none
  created,     \* number of sessions ever created; their ids are 1 .. created
  task,        \* per session: its key, its peer address, state of the task
  evict,       \* sessions with a signal in their evict channel
  chan,        \* per session: datagrams in its channel
  roams,       \* the address-change channel
  from,        \* ghost: addresses each session's client has sent from
  running,     \* the dispatcher's loop runs
  held         \* an await inside one of its arms holds the dispatcher

authVars == <<auth, denylist, control, acked>>
tableVars == <<sessions, idle, addr_index, created>>
taskVars == <<task, evict, chan, roams, from>>
vars == <<authVars, tableVars, taskVars, running, held>>

Session == 1 .. MaxSessions

Table == DOMAIN sessions

Alive(s) == task[s].state \in {"spawned", "running", "held"}

(* The dispatcher is at its select!. *)
AtSelect == running /\ ~held

(* tun_tx.is_closed(): the task has dropped its receivers. *)
Closed(s) == ~Alive(s)

NoTask == [key |-> "none", peer |-> "none", state |-> "none"]

Init ==
  /\ auth \in AuthConfigs
  /\ denylist = {} /\ control = {} /\ acked = {}
  /\ sessions = <<>>
  /\ idle = {}
  /\ addr_index = [a \in Addr |-> 0]
  /\ created = 0
  /\ task = [s \in Session |-> NoTask]
  /\ evict = {}
  /\ chan = [s \in Session |-> <<>>]
  /\ roams = <<>>
  /\ from = [s \in Session |-> {}]
  /\ running = TRUE
  /\ held = FALSE

-----------------------------------------------------------------------------
(* Authorization and operator commands *)

(* PeerAuth::check, and the authorizer handle_handshake builds from it:    *)
(* none at all in open mode. *)
Check(k) == k \notin denylist /\ (auth.open \/ k \in auth.keys)

Authorized(k) == auth.open \/ Check(k)

(* SIGHUP: set_peers or set_open.  The denylist stays. *)
Reload(c) ==
  /\ auth' = c
  /\ UNCHANGED <<denylist, control, acked, tableVars, taskVars, running, held>>

(* A bug: live sessions are evicted, new ones are not kept out. *)
IpcRevokeEvictOnly(k) ==
  /\ running
  /\ k \notin control
  /\ control' = control \cup {k}
  /\ UNCHANGED <<auth, denylist, acked, tableVars, taskVars, running, held>>

(* handle_revoke: the key is denied first, then the command is queued. *)
IpcRevoke(k) ==
  /\ running
  /\ k \notin denylist
  /\ denylist' = denylist \cup {k}
  /\ control' = control \cup {k}
  /\ UNCHANGED <<auth, acked, tableVars, taskVars, running, held>>

(* A bug: nobody is signalled. *)
SignalNobody(victims) == UNCHANGED evict

(* The eviction signal is lost when the task has gone. *)
Signal(victims) == evict' = evict \cup {s \in victims : Alive(s)}

(* evict_sessions_for_key: the entries stay for the sweep. *)
HandleRevoke(k) ==
  /\ AtSelect
  /\ k \in control
  /\ control' = control \ {k}
  /\ acked' = acked \cup {k}
  /\ Signal({s \in Table : sessions[s].key = k})
  /\ UNCHANGED <<auth, denylist, tableVars, task, chan, roams, from, running, held>>

(* evict_sessions for one session id. *)
HandleDisconnect(s) ==
  /\ AtSelect
  /\ s \in Table
  /\ s \notin evict
  /\ Signal({s})
  /\ UNCHANGED <<authVars, tableVars, task, chan, roams, from, running, held>>

-----------------------------------------------------------------------------
(* Handshakes *)

(* What is left of the order among the sessions in S. *)
Among(S) == idle \cap (S \X S)

(* The order among S, with s after all of them. *)
Latest(S, s) == Among(S) \cup (S \X {s})

(* The one of mine whose last_forwarded is the earliest. *)
Oldest(mine) == {s \in mine : \A t \in mine \ {s} : <<s, t>> \in idle}

(* A bug: the cap is off by one. *)
VictimsLate(k) ==
  LET mine == {s \in Table : sessions[s].key = k}
  IN  IF MAX_PER_PEER = 0 \/ Cardinality(mine) <= MAX_PER_PEER THEN {} ELSE Oldest(mine)

(* evict_oldest_peer_session: the victim, if the cap is reached. *)
Victims(k) ==
  LET mine == {s \in Table : sessions[s].key = k}
  IN  IF MAX_PER_PEER = 0 \/ Cardinality(mine) < MAX_PER_PEER THEN {} ELSE Oldest(mine)

(* handle_handshake for message 1 of key k: authorized, message 2 sent,    *)
(* the cap enforced, then the session spawned, unless its profile or its   *)
(* tunnel cannot be built. *)
HandleHandshake(k, a, spawns) ==
  LET s     == created + 1
      gone  == Victims(k)
      left  == [x \in Table \ gone |-> sessions[x]]
  IN  /\ AtSelect
      /\ created < MaxSessions
      /\ Authorized(k)
      /\ Signal(gone)
      /\ IF spawns
           THEN /\ created' = s
                /\ sessions' = [x \in DOMAIN left \cup {s} |->
                     IF x = s THEN [key |-> k, addr |-> a] ELSE left[x]]
                /\ idle' = Latest(Table \ gone, s)
                /\ addr_index' = [addr_index EXCEPT ![a] = s]
                /\ task' = [task EXCEPT ![s] = [key |-> k, peer |-> a, state |-> "spawned"]]
                /\ from' = [from EXCEPT ![s] = {a}]
           ELSE /\ gone # {}
                /\ sessions' = left
                /\ idle' = Among(Table \ gone)
                /\ UNCHANGED <<created, addr_index, task, from>>
      /\ UNCHANGED <<authVars, chan, roams, running, held>>

-----------------------------------------------------------------------------
(* Datagrams *)

Room(s) == Alive(s) /\ Len(chan[s]) < PER_CLIENT_CHAN

Forward(s, d) ==
  /\ chan' = [chan EXCEPT ![s] = Append(@, d)]
  /\ idle' = Latest(Table \ {s}, s)

(* dispatch_datagram for a datagram that is no handshake: to the session   *)
(* to that peek_routed_session reads from it (0: unreadable; anything for  *)
(* bytes that are not a frame of the server), else to the one its address  *)
(* was last seen with. *)
DispatchDatagram(d, to) ==
  /\ AtSelect
  /\ from' = [s \in Session |-> IF s = d.sid THEN from[s] \cup {d.addr} ELSE from[s]]
  /\ \/ /\ to \in Table /\ Room(to)
        /\ Forward(to, d)
     \/ /\ ~(to \in Table /\ Room(to))
        /\ addr_index[d.addr] \in Table /\ Room(addr_index[d.addr])
        /\ Forward(addr_index[d.addr], d)
  /\ UNCHANGED <<authVars, sessions, addr_index, created, task, evict, roams, running, held>>

(* A bug: the entry of the old address is left behind. *)
ApplyRoamKeepsOld ==
  LET s == Head(roams).sid
      a == Head(roams).addr
  IN  /\ AtSelect
      /\ roams # <<>>
      /\ roams' = Tail(roams)
      /\ IF s \in Table /\ sessions[s].addr # a
           THEN /\ addr_index' = [addr_index EXCEPT ![a] = s]
                /\ sessions' = [sessions EXCEPT ![s].addr = a]
           ELSE UNCHANGED <<sessions, addr_index>>
      /\ UNCHANGED <<authVars, idle, created, task, evict, chan, from, running, held>>

(* A bug: the cache follows the client, its handle does not. *)
ApplyRoamIndexOnly ==
  /\ AtSelect
  /\ roams # <<>>
  /\ roams' = Tail(roams)
  /\ addr_index' = [addr_index EXCEPT ![Head(roams).addr] = Head(roams).sid]
  /\ UNCHANGED <<authVars, sessions, idle, created, task, evict, chan, from, running, held>>

(* The address-change branch of run_server. *)
ApplyRoam ==
  LET s == Head(roams).sid
      a == Head(roams).addr
  IN  /\ AtSelect
      /\ roams # <<>>
      /\ roams' = Tail(roams)
      /\ IF s \in Table /\ sessions[s].addr # a
           THEN /\ addr_index' = [x \in Addr |->
                     IF x = a THEN s
                     ELSE IF x = sessions[s].addr /\ addr_index[x] = s THEN 0
                     ELSE addr_index[x]]
                /\ sessions' = [sessions EXCEPT ![s].addr = a]
           ELSE UNCHANGED <<sessions, addr_index>>
      /\ UNCHANGED <<authVars, idle, created, task, evict, chan, from, running, held>>

(* The sweep: entries of ended tasks go, and what the cache says of them. *)
Sweep ==
  LET left == {s \in Table : ~Closed(s)}
  IN  /\ AtSelect
      /\ sessions' = [s \in left |-> sessions[s]]
      /\ idle' = Among(left)
      /\ addr_index' = [a \in Addr |-> IF addr_index[a] \in left THEN addr_index[a] ELSE 0]
      /\ UNCHANGED <<authVars, created, taskVars, running, held>>

(* The stop signal: the loop is left and every handle dropped. *)
Stop ==
  /\ MayStop /\ AtSelect
  /\ running' = FALSE
  /\ sessions' = <<>> /\ idle' = {}
  /\ addr_index' = [a \in Addr |-> 0]
  /\ control' = {}
  /\ UNCHANGED <<auth, denylist, acked, created, taskVars, held>>

(* An arm awaits: room in a tunnel's channel of TUN packets, or message 1  *)
(* of a stream connection just accepted.  Nothing bounds the wait, and no  *)
(* other arm runs meanwhile. *)
DispatcherHeld ==
  /\ MayWait /\ AtSelect
  /\ held' = TRUE
  /\ UNCHANGED <<authVars, tableVars, taskVars, running>>

DispatcherFreed ==
  /\ held
  /\ held' = FALSE
  /\ UNCHANGED <<authVars, tableVars, taskVars, running>>

-----------------------------------------------------------------------------
(* Tunnel tasks *)

TaskStart(s) ==
  /\ task[s].state = "spawned"
  /\ task' = [task EXCEPT ![s].state = "running"]
  /\ UNCHANGED <<authVars, tableVars, evict, chan, roams, from, running, held>>

(* Leaving Tunnel::run: the receivers are dropped, with what is in them. *)
TaskEnds(s, how) ==
  /\ task' = [task EXCEPT ![s].state = how]
  /\ chan' = [chan EXCEPT ![s] = <<>>]
  /\ evict' = evict \ {s}
  /\ UNCHANGED <<authVars, tableVars, from, running, held>>

(* A bug: the address is believed before the datagram is authenticated. *)
TaskRecvTrusting(s) ==
  LET d == Head(chan[s])
  IN  /\ task[s].state = "running"
      /\ chan[s] # <<>>
      /\ Len(roams) < MaxRoams
      /\ roams' = Append(roams, [sid |-> s, addr |-> d.addr])
      /\ task' = [task EXCEPT ![s].peer = d.addr]
      /\ chan' = [chan EXCEPT ![s] = Tail(@)]
      /\ UNCHANGED <<authVars, tableVars, evict, from, running, held>>

(* A packet that decrypts is passed on to the dispatcher's aggregator,     *)
(* and the task awaits room in it. *)
After(s, d) == IF MayWait /\ d.sid = s THEN {"running", "held"} ELSE {"running"}

Took(s, d, st) ==
  [key |-> task[s].key, peer |-> IF d.sid = s THEN d.addr ELSE task[s].peer, state |-> st]

(* handle_udp_datagram: what does not decrypt is dropped, what does proves *)
(* the sender's address; a Close ends the task. *)
TaskRecv(s) ==
  LET d == Head(chan[s])
      moved == d.sid = s /\ d.addr # task[s].peer
  IN  /\ task[s].state = "running"
      /\ chan[s] # <<>>
      /\ roams' = IF moved THEN Append(roams, [sid |-> s, addr |-> d.addr]) ELSE roams
      /\ moved => Len(roams) < MaxRoams
      /\ IF d.sid = s /\ d.close
           THEN /\ task' = [task EXCEPT ![s] = [@ EXCEPT !.state = "PeerClosed",
                                                         !.peer = d.addr]]
                /\ chan' = [chan EXCEPT ![s] = <<>>]
                /\ evict' = evict \ {s}
           ELSE /\ \E st \in After(s, d) : task' = [task EXCEPT ![s] = Took(s, d, st)]
                /\ chan' = [chan EXCEPT ![s] = Tail(@)]
                /\ UNCHANGED evict
      /\ UNCHANGED <<authVars, tableVars, from, running, held>>

TaskFreed(s) ==
  /\ task[s].state = "held"
  /\ task' = [task EXCEPT ![s].state = "running"]
  /\ UNCHANGED <<authVars, tableVars, evict, chan, roams, from, running, held>>

(* The evict branch: a Close is sent first. *)
TaskEvicted(s) ==
  /\ task[s].state = "running"
  /\ s \in evict
  /\ TaskEnds(s, "PeerClosed")
  /\ UNCHANGED roams

(* The inactivity timeout: a Close is sent first. *)
TaskTimeout(s) ==
  /\ task[s].state = "running"
  /\ TaskEnds(s, "SessionTimeout")
  /\ UNCHANGED roams

(* The stop branch: a Close is sent first. *)
TaskStopped(s) ==
  /\ task[s].state = "running"
  /\ ~running
  /\ TaskEnds(s, "Stopped")
  /\ UNCHANGED roams

(* The handle was dropped: once drained, udp_rx.recv() says None and       *)
(* tun.recv() fails.  No Close is sent. *)
TaskOrphaned(s) ==
  /\ task[s].state = "running"
  /\ s \notin Table
  /\ \/ chan[s] = <<>> /\ TaskEnds(s, "UdpClosed")
     \/ TaskEnds(s, "TunError")
  /\ UNCHANGED roams

Datagram ==
  {d \in [sid : 0 .. created, addr : Addr, close : BOOLEAN] : d.close => d.sid # 0}

Next ==
  \/ \E c \in AuthConfigs : Reload(c)
  \/ \E k \in Key : IpcRevoke(k) \/ HandleRevoke(k)
  \/ \E k \in Key : \E a \in Addr : \E spawns \in BOOLEAN : HandleHandshake(k, a, spawns)
  \/ \E d \in Datagram : \E to \in 0 .. created : DispatchDatagram(d, to)
  \/ ApplyRoam
  \/ Sweep
  \/ Stop
  \/ DispatcherHeld \/ DispatcherFreed
  \/ \E s \in Session : \/ HandleDisconnect(s) \/ TaskStart(s) \/ TaskRecv(s) \/ TaskFreed(s)
                        \/ TaskEvicted(s) \/ TaskTimeout(s) \/ TaskStopped(s)
                        \/ TaskOrphaned(s)

Spec == Init /\ [][Next]_vars

(* A task that can run, runs.  select! polls its arms in random order, so  *)
(* an arm that is ready whenever the loop comes round is taken in the end: *)
(* strong fairness, for the waits inside other arms come and go.  That the *)
(* loop does come round is not assumed: no wait need end. *)
Fairness ==
  /\ SF_vars(Sweep)
  /\ \A k \in Key : SF_vars(HandleRevoke(k))
  /\ \A s \in Session : /\ WF_vars(TaskStart(s))
                        /\ SF_vars(TaskEvicted(s))
                        /\ SF_vars(TaskStopped(s))

FairSpec == Spec /\ Fairness

-----------------------------------------------------------------------------

Exit == {"PeerClosed", "SessionTimeout", "Stopped", "UdpClosed", "TunError"}

(* idle is a strict order of all sessions in the table. *)
IdleOrder ==
  /\ idle \subseteq Table \X Table
  /\ \A s, t \in Table : <<s, t>> \in idle <=> s # t /\ <<t, s>> \notin idle
  /\ \A s, t, u \in Table : <<s, t>> \in idle /\ <<t, u>> \in idle => <<s, u>> \in idle

TypeOK ==
  /\ auth \in AuthConfigs
  /\ denylist \subseteq Key /\ control \subseteq Key /\ acked \subseteq Key
  /\ created \in 0 .. MaxSessions
  /\ Table \subseteq 1 .. created
  /\ sessions \in [Table -> [key : Key, addr : Addr]]
  /\ IdleOrder
  /\ addr_index \in [Addr -> 0 .. created]
  /\ \A s \in Session :
       IF s <= created
         THEN task[s] \in [key : Key, peer : Addr, state : {"spawned", "running", "held"} \cup Exit]
         ELSE task[s] = NoTask
  /\ evict \subseteq 1 .. created
  /\ from \in [Session -> SUBSET Addr]
  /\ running \in BOOLEAN /\ held \in BOOLEAN

(* Once a revocation is acknowledged, every tunnel of that key still alive *)
(* has its eviction signal or has lost its handle, and no later handshake  *)
(* adds one: denying the key before the command is queued closes the race  *)
(* with handle_handshake (handle_revoke, evict_sessions_for_key). *)
RevokedLeave ==
  \A s \in Session :
    Alive(s) /\ task[s].key \in acked => s \in evict \/ s \notin Table

(* The table and the address each tunnel answers to agree, but for the     *)
(* changes still in the channel (the roaming branches of                   *)
(* handle_udp_datagram and run_server). *)
AddrAgrees ==
  \A s \in Table :
    LET mine == {i \in DOMAIN roams : roams[i].sid = s}
    IN  /\ mine = {} => task[s].peer = sessions[s].addr
        /\ \A i \in mine : (\A j \in mine : j <= i) => task[s].peer = roams[i].addr

(* A session follows its own client only: bytes that name it in their      *)
(* header, or reach it by a stale cache entry, never repoint it before     *)
(* they decrypt ("The AEAD tag passing is the authentication gate",        *)
(* handle_udp_datagram). *)
RoamAuthentic == \A s \in Table : sessions[s].addr \in from[s]

(* The cache says of a session in the table only where it is now, in       *)
(* whatever order handshakes, roams and sweeps come, also when two         *)
(* sessions share or swap addresses (the address-change branch of          *)
(* run_server). *)
CacheExact ==
  \A a \in Addr : addr_index[a] \in Table => sessions[addr_index[a]].addr = a

(* The cap holds for the table, and a tunnel pushed out of it was told to  *)
(* close (evict_oldest_peer_session). *)
CapRespected ==
  /\ TypeOK
  /\ MAX_PER_PEER > 0 =>
       \A k \in Key : Cardinality({s \in Table : sessions[s].key = k}) <= MAX_PER_PEER
  /\ running => \A s \in Session : Alive(s) /\ s \notin Table => s \in evict

(* A revoked key's sessions all leave the table in the end (evict signal,  *)
(* Close, exit, sweep), if only the dispatcher and the tasks keep coming   *)
(* back to their selects.  Channels shows how they may not: each waiting   *)
(* for room at the other, or the dispatcher for a silent connection. *)
RevokedGone ==
  []<>~held /\ (\A s \in Session : []<>(task[s].state # "held")) =>
    \A k \in Key : k \in denylist ~> (~running \/ \A s \in Table : sessions[s].key # k)

(* "A revoked (denylisted) key is always rejected, even in open mode"      *)
(* (the comment of PeerAuth::check): no tunnel of a key is spawned once it *)
(* is on the denylist. *)
RevokedRejected ==
  [][\A s \in Session : task[s].state = "none" /\ task'[s].state # "none"
                          => task'[s].key \notin denylist]_vars
=============================================================================
