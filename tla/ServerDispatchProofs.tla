------------------------ MODULE ServerDispatchProofs ------------------------
(***************************************************************************)
(* The dispatcher, for any number of keys, addresses and sessions.  First  *)
(* revocation on a server with a peers section, for any session cap and    *)
(* any reloads of the section; then the session table, its address cache   *)
(* and its session cap, for any cap, any channel size and any              *)
(* authorization.                                                          *)
(***************************************************************************)
EXTENDS ServerDispatch, FiniteSetTheorems, TLAPS

-----------------------------------------------------------------------------
(* Revocation *)

TaskState == {"none", "spawned", "running", "held"} \cup Exit

Task == [key : Key \cup {"none"}, peer : Addr \cup {"none"}, state : TaskState]

(* The table lists created sessions under the keys their tasks have. *)
TableOK ==
  /\ created \in Nat
  /\ task \in [Session -> Task]
  /\ \A s \in Session : s > created => task[s].state = "none"
  /\ Table \subseteq Session
  /\ \A s \in Table : /\ sessions[s] \in [key : Key, addr : Addr]
                     /\ sessions[s].key = task[s].key

(* What travels in the channels. *)
InChan == [sid : Nat, addr : Addr, close : BOOLEAN]

InRoams == [sid : Session, addr : Addr]

ChannelsOK ==
  /\ chan \in [Session -> Seq(InChan)]
  /\ roams \in Seq(InRoams)

(* A key is denied before anything else is done about it. *)
DeniedFirst == control \cup acked \subseteq denylist

RevokeInv ==
  /\ ~auth.open
  /\ TableOK
  /\ ChannelsOK
  /\ DeniedFirst
  /\ RevokedLeave

-----------------------------------------------------------------------------

LEMMA RevokeInit ==
  ASSUME \A c \in AuthConfigs : ~c.open, Init
  PROVE  RevokeInv
<1>1. Table = {}
  BY DEF Init, Table
<1>2. TableOK
  BY <1>1 DEF Init, TableOK, Task, TaskState, NoTask
<1>3. RevokedLeave
  BY DEF Init, RevokedLeave
<1> QED
  BY <1>2, <1>3 DEF Init, RevokeInv, DeniedFirst, ChannelsOK

(* The operator commands. *)
LEMMA RevokeCommands ==
  ASSUME \A c \in AuthConfigs : ~c.open, RevokeInv,
         \/ \E c \in AuthConfigs : Reload(c)
         \/ \E k \in Key : IpcRevoke(k) \/ HandleRevoke(k)
         \/ \E s \in Session : HandleDisconnect(s)
  PROVE  RevokeInv'
<1>1. CASE \E c \in AuthConfigs : Reload(c)
  BY <1>1 DEF RevokeInv, Reload, TableOK, ChannelsOK, DeniedFirst, RevokedLeave, Alive, Table,
              tableVars, taskVars
<1>2. CASE \E k \in Key : IpcRevoke(k)
  BY <1>2 DEF RevokeInv, IpcRevoke, TableOK, ChannelsOK, DeniedFirst, RevokedLeave, Alive, Table,
              tableVars, taskVars
<1>3. ASSUME NEW k \in Key, HandleRevoke(k) PROVE RevokeInv'
  <2>1. ~auth'.open /\ TableOK' /\ ChannelsOK' /\ DeniedFirst'
    BY <1>3 DEF RevokeInv, HandleRevoke, TableOK, ChannelsOK, DeniedFirst, Table, tableVars
  <2>2. RevokedLeave'
    BY <1>3 DEF RevokeInv, HandleRevoke, TableOK, RevokedLeave, Alive, Table, Signal,
                tableVars
  <2> QED
    BY <2>1, <2>2 DEF RevokeInv
<1>4. CASE \E s \in Session : HandleDisconnect(s)
  BY <1>4 DEF RevokeInv, HandleDisconnect, TableOK, ChannelsOK, DeniedFirst, RevokedLeave, Alive,
              Table, Signal, authVars, tableVars
<1> QED
  BY <1>1, <1>2, <1>3, <1>4

(* A handshake: its key is not denied, so the new task is none of the      *)
(* revoked ones; the tasks it pushes out of the table lose their handle. *)
LEMMA RevokeHandshake ==
  ASSUME RevokeInv, NEW k \in Key, NEW a \in Addr, NEW spawns \in BOOLEAN,
         HandleHandshake(k, a, spawns)
  PROVE  RevokeInv'
<1> DEFINE s == created + 1
           gone == Victims(k)
<1>1. k \notin acked
  BY DEF RevokeInv, HandleHandshake, Authorized, Check, DeniedFirst
<1>2. s \in Session /\ task[s].state = "none"
  BY ServerDispatchAssumption DEF RevokeInv, HandleHandshake, TableOK, Session
<1>3. ~auth'.open /\ ChannelsOK' /\ DeniedFirst'
  BY DEF RevokeInv, HandleHandshake, ChannelsOK, DeniedFirst, authVars
<1>4. CASE spawns
  <2>1. /\ Table' = (Table \ gone) \cup {s}
        /\ \A x \in Table \ gone : x # s => sessions'[x] = sessions[x]
        /\ sessions'[s] = [key |-> k, addr |-> a]
    <3> DEFINE left == [x \in Table \ gone |-> sessions[x]]
    <3>1. sessions' = [x \in DOMAIN left \cup {s} |->
                         IF x = s THEN [key |-> k, addr |-> a] ELSE left[x]]
      BY <1>4 DEF HandleHandshake
    <3>2. DOMAIN left = Table \ gone
      OBVIOUS
    <3>3. s \in DOMAIN sessions' /\ DOMAIN sessions' = (Table \ gone) \cup {s}
      BY <3>1, <3>2
    <3> HIDE DEF gone, s
    <3> QED
      BY <3>1, <3>2, <3>3 DEF Table
  <2>2. /\ task' \in [Session -> Task]
        /\ task'[s] = [key |-> k, peer |-> a, state |-> "spawned"]
        /\ \A x \in Session \ {s} : task'[x] = task[x]
    BY <1>2, <1>4 DEF HandleHandshake, RevokeInv, TableOK, Task, TaskState
  <2>3. TableOK'
    <3>1. created \in Nat /\ created' = s
      BY <1>4 DEF HandleHandshake, RevokeInv, TableOK
    <3>2. \A x \in Session : x > created' => task'[x].state = "none"
      BY <3>1, <2>2 DEF RevokeInv, TableOK, Session
    <3>3. Table' \subseteq Session
      BY <1>2, <2>1 DEF RevokeInv, TableOK
    <3>5. ASSUME NEW x \in Table'
          PROVE  sessions'[x] \in [key : Key, addr : Addr] /\ sessions'[x].key = task'[x].key
      <4>1. CASE x = s
        BY <4>1, <2>1, <2>2
      <4>2. CASE x # s
        <5>1. x \in Table /\ sessions'[x] = sessions[x] /\ task'[x] = task[x]
          BY <4>2, <3>3, <2>1, <2>2
        <5> QED
          BY <5>1 DEF RevokeInv, TableOK
      <4> QED
        BY <4>1, <4>2
    <3> QED
      BY <3>1, <3>2, <3>3, <3>5, <2>2 DEF TableOK
  <2>4. RevokedLeave'
    BY <1>1, <1>2, <1>4, <2>1, <2>2
       DEF HandleHandshake, RevokeInv, RevokedLeave, Alive, Signal, authVars
  <2> QED
    BY <1>3, <2>3, <2>4 DEF RevokeInv
<1>5. CASE ~spawns
  <2>1. /\ Table' = Table \ gone
        /\ \A x \in Table \ gone : sessions'[x] = sessions[x]
        /\ UNCHANGED <<task, created>>
    BY <1>5 DEF HandleHandshake, Table
  <2>2. TableOK'
    BY <2>1 DEF RevokeInv, TableOK
  <2>3. RevokedLeave'
    BY <2>1 DEF HandleHandshake, RevokeInv, RevokedLeave, Alive, Signal, authVars
  <2> QED
    BY <1>3, <2>2, <2>3 DEF RevokeInv
<1> QED
  BY <1>4, <1>5

(* The dispatcher's other branches. *)
LEMMA RevokeDispatcher ==
  ASSUME RevokeInv,
         \/ \E d \in Datagram : \E to \in 0 .. created : DispatchDatagram(d, to)
         \/ ApplyRoam \/ Sweep \/ Stop
  PROVE  RevokeInv'
<1>1. ASSUME NEW d \in Datagram, NEW to \in 0 .. created, DispatchDatagram(d, to)
      PROVE  RevokeInv'
  <2>1. d \in InChan
    BY DEF Datagram, RevokeInv, TableOK, InChan
  <2>2. ChannelsOK'
    <3>1. PICK s : chan' = [chan EXCEPT ![s] = Append(@, d)]
      BY <1>1 DEF DispatchDatagram, Forward
    <3>2. chan \in [Session -> Seq(InChan)] /\ roams' = roams
      BY <1>1 DEF RevokeInv, ChannelsOK, DispatchDatagram
    <3>3. ASSUME s \in Session PROVE Append(chan[s], d) \in Seq(InChan)
      BY <2>1, <3>2, <3>3
    <3>4. chan' \in [Session -> Seq(InChan)]
      BY <3>1, <3>2, <3>3, ZenonT(20)
    <3> QED
      BY <3>2, <3>4 DEF RevokeInv, ChannelsOK
  <2> QED
    BY <1>1, <2>2 DEF RevokeInv, DispatchDatagram, TableOK, DeniedFirst, RevokedLeave,
                      Alive, Table, authVars
<1>2. CASE ApplyRoam
  <2>1. Head(roams) \in InRoams
    BY <1>2 DEF ApplyRoam, RevokeInv, ChannelsOK
  <2>2. /\ Table' = Table
        /\ \A s \in Table : /\ sessions'[s] \in [key : Key, addr : Addr]
                           /\ sessions'[s].key = sessions[s].key
    BY <1>2, <2>1 DEF ApplyRoam, Table, RevokeInv, TableOK, InRoams
  <2>3. ChannelsOK'
    BY <1>2 DEF ApplyRoam, RevokeInv, ChannelsOK
  <2> QED
    BY <1>2, <2>2, <2>3 DEF RevokeInv, ApplyRoam, TableOK, DeniedFirst, RevokedLeave, Alive,
                           authVars
<1>3. CASE Sweep
  <2>1. /\ Table' \subseteq Table
        /\ \A s \in Table' : sessions'[s] = sessions[s]
    BY <1>3 DEF Sweep, Table
  <2> QED
    BY <1>3, <2>1 DEF RevokeInv, Sweep, TableOK, ChannelsOK, DeniedFirst, RevokedLeave, Alive,
                      authVars, taskVars
<1>4. CASE Stop
  <2>1. Table' = {}
    BY <1>4 DEF Stop, Table
  <2> QED
    BY <1>4, <2>1 DEF RevokeInv, Stop, TableOK, ChannelsOK, DeniedFirst, RevokedLeave, Alive, taskVars
<1> QED
  BY <1>1, <1>2, <1>3, <1>4

(* handle_udp_datagram, one conjunct at a time. *)
LEMMA RecvShape ==
  ASSUME NEW s, TaskRecv(s)
  PROVE  /\ chan[s] # <<>>
         /\ chan' = [chan EXCEPT ![s] = <<>>] \/ chan' = [chan EXCEPT ![s] = Tail(chan[s])]
         /\ roams' = IF Head(chan[s]).sid = s /\ Head(chan[s]).addr # task[s].peer
                       THEN Append(roams, [sid |-> s, addr |-> Head(chan[s]).addr]) ELSE roams
         /\ ~(Head(chan[s]).sid = s /\ Head(chan[s]).close) =>
              \E st \in {"running", "held"} :
                task' = [task EXCEPT ![s] = Took(s, Head(chan[s]), st)]
<1>1. chan[s] # <<>>
  BY Zenon DEF TaskRecv
<1>2. chan' = [chan EXCEPT ![s] = <<>>] \/ chan' = [chan EXCEPT ![s] = Tail(chan[s])]
  BY Zenon DEF TaskRecv
<1>3. roams' = IF Head(chan[s]).sid = s /\ Head(chan[s]).addr # task[s].peer
                 THEN Append(roams, [sid |-> s, addr |-> Head(chan[s]).addr]) ELSE roams
  BY Zenon DEF TaskRecv
<1>4. ASSUME ~(Head(chan[s]).sid = s /\ Head(chan[s]).close)
      PROVE  \E st \in After(s, Head(chan[s])) :
               task' = [task EXCEPT ![s] = Took(s, Head(chan[s]), st)]
  BY <1>4, Zenon DEF TaskRecv
<1>5. After(s, Head(chan[s])) \subseteq {"running", "held"}
  BY DEF After
<1> QED
  BY <1>1, <1>2, <1>3, <1>4, <1>5, Zenon

(* A tunnel task keeps its key, starts at most once and drops its eviction *)
(* signal only when it ends. *)
LEMMA RevokeTask ==
  ASSUME RevokeInv, NEW s \in Session,
         \/ TaskStart(s) \/ TaskFreed(s) \/ TaskRecv(s) \/ TaskEvicted(s) \/ TaskTimeout(s)
         \/ TaskStopped(s) \/ TaskOrphaned(s)
  PROVE  RevokeInv'
<1>1. /\ UNCHANGED <<authVars, tableVars>>
      /\ task[s].state # "none"
      /\ Alive(s)
  BY DEF TaskStart, TaskFreed, TaskRecv, TaskEvicted, TaskTimeout, TaskStopped, TaskOrphaned,
         TaskEnds, Alive
<1>2. task \in [Session -> Task]
  BY DEF RevokeInv, TableOK
<1>3. /\ task' \in [Session -> Task]
      /\ task'[s].key = task[s].key
      /\ \A x \in Session \ {s} : task'[x] = task[x]
      /\ \/ evict' = evict
         \/ evict' = evict \ {s} /\ task'[s].state \in Exit
  <2>1. CASE TaskStart(s) \/ TaskFreed(s)
    BY <2>1, <1>2 DEF TaskStart, TaskFreed, Task, TaskState
  <2>2. CASE TaskRecv(s)
    <3> DEFINE d == Head(chan[s])
    <3>1. d \in InChan
      <4>1. chan[s] # <<>>
        BY <2>2, RecvShape
      <4> QED
        BY <4>1 DEF RevokeInv, ChannelsOK
    <3>2. CASE d.sid = s /\ d.close
      <4>1. task[s] \in Task
        BY <1>2
      <4>2. [task[s] EXCEPT !.state = "PeerClosed", !.peer = d.addr] \in Task
        BY <3>1, <4>1 DEF InChan, Task, TaskState, Exit
      <4>3. task' = [task EXCEPT ![s] = [task[s] EXCEPT !.state = "PeerClosed", !.peer = d.addr]]
        BY <2>2, <3>2 DEF TaskRecv
      <4>4. evict' = evict \ {s}
        BY <2>2, <3>2 DEF TaskRecv
      <4>5. [task[s] EXCEPT !.state = "PeerClosed", !.peer = d.addr].key = task[s].key
        BY <4>1 DEF Task
      <4>6. [task[s] EXCEPT !.state = "PeerClosed", !.peer = d.addr].state = "PeerClosed"
        BY <4>1 DEF Task
      <4> HIDE DEF d
      <4> QED
        BY <4>2, <4>3, <4>4, <4>5, <4>6, <1>2 DEF Exit
    <3>3. CASE ~(d.sid = s /\ d.close)
      <4>1. task[s] \in Task /\ evict' = evict
        BY <1>2, <2>2, <3>3 DEF TaskRecv
      <4>2. PICK st \in {"running", "held"} :
              task' = [task EXCEPT ![s] = Took(s, d, st)]
        BY <2>2, <3>3, RecvShape
      <4> DEFINE v == Took(s, d, st)
      <4>3. v \in Task /\ v.key = task[s].key
        BY <3>1, <4>1 DEF Took, InChan, Task, TaskState
      <4> HIDE DEF v, d
      <4> QED
        BY <1>2, <4>1, <4>2, <4>3 DEF v
    <3> QED
      BY <3>2, <3>3
  <2>3. CASE TaskEvicted(s) \/ TaskTimeout(s) \/ TaskStopped(s) \/ TaskOrphaned(s)
    BY <2>3, <1>2 DEF TaskEvicted, TaskTimeout, TaskStopped, TaskOrphaned, TaskEnds,
                      Task, TaskState, Exit
  <2> QED
    BY <2>1, <2>2, <2>3
<1>4. TableOK'
  BY <1>1, <1>2, <1>3 DEF RevokeInv, TableOK, Table, tableVars
<1>5. RevokedLeave'
  BY <1>1, <1>2, <1>3 DEF RevokeInv, RevokedLeave, Alive, Table, authVars, tableVars, Exit
<1>6. <<>> \in Seq(InChan)
  OBVIOUS
<1>7. ChannelsOK'
  <2>1. CASE TaskRecv(s)
    <3>1. Head(chan[s]) \in InChan
      <4>1. chan[s] # <<>>
        BY <2>1, RecvShape
      <4> QED
        BY <4>1 DEF RevokeInv, ChannelsOK
    <3>2. [sid |-> s, addr |-> Head(chan[s]).addr] \in InRoams
      BY <3>1 DEF InChan, InRoams
    <3>3. chan' = [chan EXCEPT ![s] = <<>>] \/ chan' = [chan EXCEPT ![s] = Tail(@)]
      BY <2>1 DEF TaskRecv
    <3>4. chan \in [Session -> Seq(InChan)] /\ chan[s] # <<>>
      BY <2>1, RecvShape DEF RevokeInv, ChannelsOK
    <3>5. Tail(chan[s]) \in Seq(InChan)
      BY <3>4
    <3>6. chan' \in [Session -> Seq(InChan)]
      BY <1>6, <3>3, <3>4, <3>5, ZenonT(20)
    <3>7. roams' \in Seq(InRoams)
      <4>1. roams' = IF Head(chan[s]).sid = s /\ Head(chan[s]).addr # task[s].peer
                       THEN Append(roams, [sid |-> s, addr |-> Head(chan[s]).addr]) ELSE roams
        BY <2>1, RecvShape
      <4> QED
        BY <3>2, <4>1 DEF RevokeInv, ChannelsOK
    <3> QED
      BY <3>6, <3>7 DEF ChannelsOK
  <2>2. CASE ~TaskRecv(s)
    <3>1. /\ chan' = chan \/ chan' = [chan EXCEPT ![s] = <<>>]
          /\ roams' = roams
      BY <2>2 DEF TaskStart, TaskFreed, TaskEvicted, TaskTimeout, TaskStopped, TaskOrphaned, TaskEnds
    <3> QED
      BY <1>6, <3>1, ZenonT(20) DEF RevokeInv, ChannelsOK
  <2> QED
    BY <2>1, <2>2
<1> QED
  BY <1>1, <1>4, <1>5, <1>7 DEF RevokeInv, DeniedFirst, authVars

LEMMA RevokeStep ==
  ASSUME \A c \in AuthConfigs : ~c.open, RevokeInv, [Next]_vars
  PROVE  RevokeInv'
<1>1. CASE UNCHANGED vars
  BY <1>1 DEF vars, authVars, tableVars, taskVars, RevokeInv, TableOK, ChannelsOK, DeniedFirst,
              RevokedLeave, Alive, Table
<1>2. CASE DispatcherHeld \/ DispatcherFreed
  BY <1>2 DEF DispatcherHeld, DispatcherFreed, authVars, tableVars, taskVars, RevokeInv, TableOK,
              ChannelsOK, DeniedFirst, RevokedLeave, Alive, Table
<1>3. CASE Next /\ ~(DispatcherHeld \/ DispatcherFreed)
  BY <1>3, RevokeCommands, RevokeHandshake, RevokeDispatcher, RevokeTask DEF Next
<1> QED
  BY <1>1, <1>2, <1>3

(* On a server with a peers section, once a revocation is acknowledged     *)
(* every tunnel of the key that is still alive is on its way out. *)
THEOREM RevocationEffective ==
  (\A c \in AuthConfigs : ~c.open) => (Spec => []RevokedLeave)
<1> SUFFICES ASSUME \A c \in AuthConfigs : ~c.open PROVE Spec => []RevokedLeave
  OBVIOUS
<1>1. Init => RevokeInv
  BY RevokeInit
<1>2. RevokeInv /\ [Next]_vars => RevokeInv'
  BY RevokeStep
<1>3. RevokeInv => RevokedLeave
  BY DEF RevokeInv
<1> QED
  BY <1>1, <1>2, <1>3, PTL DEF Spec

-----------------------------------------------------------------------------
(* The session table, the cache and the cap *)

LEMMA LeastNatural ==
  ASSUME NEW T, T \subseteq Nat, T # {}
  PROVE  \E x \in T : \A y \in T : x <= y
<1> DEFINE Less == {ss \in Nat \X Nat : ss[1] < ss[2]}
<1>1. IsWellFoundedOn(Less, Nat)
  BY NatLessThanWellFounded DEF OpToRel
<1>2. PICK x \in T : \A y \in T : ~(<<y, x>> \in Less)
  <2> HIDE DEF Less
  <2> QED
    BY <1>1, WFMin
<1>3. ASSUME NEW y \in T PROVE x <= y
  <2>1. <<y, x>> \in Nat \X Nat
    OBVIOUS
  <2>2. ~(<<y, x>>[1] < <<y, x>>[2])
    BY <1>2, <2>1
  <2> QED
    BY <2>2
<1> QED
  BY <1>3

(* Among sessions of the table exactly one was idle the longest. *)
LEMMA OldestIsOne ==
  ASSUME IdleOrder, NEW mine, mine \subseteq Table, IsFiniteSet(mine), mine # {}
  PROVE  \E v \in mine : Oldest(mine) = {v}
<1> DEFINE Before(x) == {y \in mine : <<y, x>> \in idle}
           Counts == {Cardinality(Before(x)) : x \in mine}
<1>1. \A x \in mine : IsFiniteSet(Before(x)) /\ Cardinality(Before(x)) \in Nat
  BY FS_Subset, FS_CardinalityType
<1>2. PICK n \in Counts : \A y \in Counts : n <= y
  <2>1. Counts \subseteq Nat /\ Counts # {}
    BY <1>1
  <2> HIDE DEF Counts
  <2> QED
    BY <2>1, LeastNatural
<1>3. PICK v \in mine : n = Cardinality(Before(v))
  BY <1>2
<1>4. ASSUME NEW y \in mine \ {v}, <<v, y>> \notin idle PROVE FALSE
  <2>1. <<y, v>> \in idle
    BY <1>4 DEF IdleOrder
  <2>2. Before(y) \subseteq Before(v) /\ y \in Before(v) /\ y \notin Before(y)
    BY <2>1 DEF IdleOrder
  <2>3. Cardinality(Before(y)) \in Counts
    OBVIOUS
  <2> HIDE DEF Before, Counts
  <2>4. Cardinality(Before(y)) < Cardinality(Before(v))
    <3>1. Before(y) \in SUBSET Before(v) /\ Before(y) # Before(v)
      BY <2>2
    <3>2. /\ Cardinality(Before(y)) <= Cardinality(Before(v))
          /\ Cardinality(Before(v)) # Cardinality(Before(y))
      BY <1>1, <3>1, FS_Subset
    <3> QED
      BY <1>1, <3>2
  <2> QED
    BY <1>1, <1>2, <1>3, <2>3, <2>4
<1>5. ASSUME NEW x \in mine \ {v} PROVE x \notin Oldest(mine)
  BY <1>4 DEF Oldest, IdleOrder
<1> QED
  BY <1>4, <1>5 DEF Oldest

(* Taking sessions out of the order leaves an order; so does putting one   *)
(* at its end. *)
LEMMA AmongOrder ==
  ASSUME IdleOrder, Table' \subseteq Table, idle' = Among(Table')
  PROVE  IdleOrder'
BY DEF IdleOrder, Among

LEMMA LatestOrder ==
  ASSUME IdleOrder, NEW S, S \subseteq Table, NEW s, s \notin S,
         Table' = S \cup {s}, idle' = Latest(S, s)
  PROVE  IdleOrder'
<1>1. \A x, y : <<x, y>> \in idle' <=>
        \/ x \in S /\ y \in S /\ <<x, y>> \in idle
        \/ x \in S /\ y = s
  BY DEF Latest, Among
<1>2. idle' \subseteq Table' \X Table'
  BY DEF Latest, Among
<1> QED
  BY <1>1, <1>2 DEF IdleOrder

-----------------------------------------------------------------------------
(* The inductive invariant *)

TaskRecord ==
  [key : Key \cup {"none"}, peer : Addr \cup {"none"},
   state : {"none", "spawned", "running", "held"} \cup Exit]

Typed ==
  /\ TypeOK
  /\ task \in [Session -> TaskRecord]
  /\ chan \in [Session -> Seq(InChan)]
  /\ roams \in Seq(InRoams)

(* A datagram that decrypts was sent by its client, from where it says,    *)
(* wherever it waits; so was one that made a tunnel report a new address. *)
Authentic(sid, addr) == sid \in 1 .. created /\ addr \in from[sid]

Carried ==
  /\ \A s \in Session : \A i \in DOMAIN chan[s] :
       chan[s][i].sid = 0 \/ Authentic(chan[s][i].sid, chan[s][i].addr)
  /\ \A i \in DOMAIN roams : Authentic(roams[i].sid, roams[i].addr)

Capped ==
  MAX_PER_PEER > 0 =>
    \A k \in Key : Cardinality({s \in Table : sessions[s].key = k}) <= MAX_PER_PEER

ToldToLeave == running => \A s \in Session : Alive(s) /\ s \notin Table => s \in evict

DInv ==
  /\ Typed /\ Carried /\ AddrAgrees /\ RoamAuthentic /\ CacheExact /\ Capped /\ ToldToLeave

TaskStep(s) ==
  \/ TaskStart(s) \/ TaskFreed(s) \/ TaskRecv(s) \/ TaskEvicted(s) \/ TaskTimeout(s)
  \/ TaskStopped(s) \/ TaskOrphaned(s)

LEMMA TableFinite ==
  ASSUME TypeOK, NEW S, S \subseteq Table
  PROVE  IsFiniteSet(S) /\ Cardinality(S) \in Nat
<1>1. created \in Nat /\ S \subseteq 1 .. created
  BY ServerDispatchAssumption DEF TypeOK
<1>2. IsFiniteSet(1 .. created)
  BY <1>1, FS_Interval
<1> QED
  BY <1>1, <1>2, FS_Subset, FS_CardinalityType

LEMMA TableInit == Init => DInv
<1> SUFFICES ASSUME Init PROVE DInv
  OBVIOUS
<1>1. Table = {}
  BY DEF Init, Table
<1>0. running \in BOOLEAN /\ held \in BOOLEAN
  BY Zenon DEF Init
<1>2. Typed
  BY <1>0, <1>1, ServerDispatchAssumption
     DEF Init, Typed, TypeOK, IdleOrder, TaskRecord, NoTask, Session
<1>3. Carried
  BY DEF Init, Carried
<1>4. Capped
  <2>1. \A k : {s \in Table : sessions[s].key = k} = {}
    BY <1>1
  <2> QED
    BY <2>1, FS_EmptySet, ServerDispatchAssumption DEF Capped
<1>5. ToldToLeave
  BY DEF Init, ToldToLeave, Alive, NoTask
<1> QED
  BY <1>1, <1>2, <1>3, <1>4, <1>5 DEF Init, DInv, AddrAgrees, RoamAuthentic, CacheExact

-----------------------------------------------------------------------------
(* What the steps do *)

(* A tunnel task keeps its key and starts once; it takes datagrams from    *)
(* its channel, and moves only to the address of one that decrypts. *)
LEMMA TaskEffect ==
  ASSUME Typed, NEW s \in Session, TaskStep(s)
  PROVE  /\ UNCHANGED <<authVars, tableVars, from, running, held>>
         /\ Alive(s)
         /\ task' \in [Session -> TaskRecord]
         /\ \A x \in Session \ {s} : task'[x] = task[x]
         /\ task'[s].key = task[s].key
         /\ task'[s].state \in {"running", "held"} \cup Exit
         /\ \/ evict' = evict
            \/ evict' = evict \ {s} /\ task'[s].state \in Exit
<1>1. task \in [Session -> TaskRecord] /\ task[s] \in TaskRecord
  BY DEF Typed
<1>2. CASE TaskStart(s) \/ TaskFreed(s)
  BY <1>1, <1>2 DEF TaskStart, TaskFreed, Alive, TaskRecord
<1>3. CASE TaskRecv(s)
  <2> DEFINE d == Head(chan[s])
  <2>1. d \in InChan
    <3>1. chan[s] # <<>>
      BY <1>3, RecvShape
    <3> QED
      BY <3>1 DEF Typed
  <2>2. CASE d.sid = s /\ d.close
    <3> DEFINE r == [task[s] EXCEPT !.state = "PeerClosed", !.peer = d.addr]
    <3>1. task' = [task EXCEPT ![s] = r] /\ evict' = evict \ {s}
      BY <1>3, <2>2 DEF TaskRecv
    <3>2. r \in TaskRecord /\ r.key = task[s].key /\ r.state = "PeerClosed"
      BY <1>1, <2>1 DEF TaskRecord, InChan, Exit
    <3>3. Alive(s) /\ UNCHANGED <<authVars, tableVars, from, running, held>>
      BY <1>3 DEF TaskRecv, Alive
    <3> HIDE DEF r
    <3> QED
      BY <1>1, <3>1, <3>2, <3>3 DEF Exit
  <2>3. CASE ~(d.sid = s /\ d.close)
    <3>0. PICK st \in {"running", "held"} :
            task' = [task EXCEPT ![s] = Took(s, d, st)]
      BY <1>3, <2>3, RecvShape
    <3> DEFINE r == Took(s, d, st)
    <3>1. task' = [task EXCEPT ![s] = r] /\ evict' = evict
      BY <1>3, <2>3, <3>0 DEF TaskRecv
    <3>2. r \in TaskRecord /\ r.key = task[s].key /\ r.state = st
      BY <1>1, <2>1 DEF TaskRecord, InChan, Took
    <3>3. /\ Alive(s) /\ task[s].state = "running"
          /\ UNCHANGED <<authVars, tableVars, from, running, held>>
      BY <1>3 DEF TaskRecv, Alive
    <3> HIDE DEF r
    <3> QED
      BY <1>1, <3>1, <3>2, <3>3
  <2> QED
    BY <2>2, <2>3
<1>4. CASE TaskEvicted(s) \/ TaskTimeout(s) \/ TaskStopped(s) \/ TaskOrphaned(s)
  BY <1>1, <1>4 DEF TaskEvicted, TaskTimeout, TaskStopped, TaskOrphaned, TaskEnds,
                    TaskRecord, Exit, Alive
<1> QED
  BY <1>2, <1>3, <1>4 DEF TaskStep

(* What it takes from its channel, and the address it reports. *)
LEMMA TaskChannels ==
  ASSUME Typed, NEW s \in Session, TaskStep(s)
  PROVE  /\ chan' \in [Session -> Seq(InChan)]
         /\ \A x \in Session \ {s} : chan'[x] = chan[x]
         /\ \A i \in DOMAIN chan'[s] : \E j \in DOMAIN chan[s] : chan'[s][i] = chan[s][j]
         /\ \/ roams' = roams /\ task'[s].peer = task[s].peer
            \/ \E j \in DOMAIN chan[s] :
                 /\ chan[s][j].sid = s
                 /\ task'[s].peer = chan[s][j].addr
                 /\ roams' = Append(roams, [sid |-> s, addr |-> chan[s][j].addr])
<1>1. task \in [Session -> TaskRecord] /\ task[s] \in TaskRecord
  BY DEF Typed
<1>2. chan \in [Session -> Seq(InChan)] /\ chan[s] \in Seq(InChan)
  BY DEF Typed
<1>3. <<>> \in Seq(InChan) /\ DOMAIN <<>> = {}
  OBVIOUS
<1>4. CASE TaskStart(s) \/ TaskFreed(s)
  <2>1. chan' = chan /\ roams' = roams /\ task' = [task EXCEPT ![s].state = "running"]
    BY <1>4 DEF TaskStart, TaskFreed
  <2> QED
    BY <1>1, <1>2, <2>1 DEF TaskRecord
<1>5. CASE TaskRecv(s)
  <2> DEFINE d == Head(chan[s])
  <2>1. /\ d \in InChan /\ 1 \in DOMAIN chan[s] /\ d = chan[s][1]
        /\ Tail(chan[s]) \in Seq(InChan)
        /\ \A i \in DOMAIN Tail(chan[s]) :
             i + 1 \in DOMAIN chan[s] /\ Tail(chan[s])[i] = chan[s][i + 1]
    <3>1. chan[s] # <<>>
      BY <1>5, RecvShape
    <3> QED
      BY <1>2, <3>1
  <2>2. chan' = [chan EXCEPT ![s] = <<>>] \/ chan' = [chan EXCEPT ![s] = Tail(chan[s])]
    BY <1>5 DEF TaskRecv
  <2>3. /\ chan' \in [Session -> Seq(InChan)]
        /\ \A x \in Session \ {s} : chan'[x] = chan[x]
        /\ chan'[s] = <<>> \/ chan'[s] = Tail(chan[s])
    BY <1>2, <1>3, <2>1, <2>2, ZenonT(20)
  <2>4. \A i \in DOMAIN chan'[s] : \E j \in DOMAIN chan[s] : chan'[s][i] = chan[s][j]
    BY <1>3, <2>1, <2>3
  <2>5. task'[s].peer = IF d.sid = s THEN d.addr ELSE task[s].peer
    <3>1. CASE d.sid = s /\ d.close
      <4> DEFINE r == [task[s] EXCEPT !.state = "PeerClosed", !.peer = d.addr]
      <4>1. task' = [task EXCEPT ![s] = r]
        BY <1>5, <3>1 DEF TaskRecv
      <4>2. r.peer = d.addr
        BY <1>1 DEF TaskRecord
      <4> HIDE DEF r
      <4> QED
        BY <1>1, <3>1, <4>1, <4>2
    <3>2. CASE ~(d.sid = s /\ d.close)
      <4>0. PICK st \in {"running", "held"} :
              task' = [task EXCEPT ![s] = Took(s, d, st)]
        BY <1>5, <3>2, RecvShape
      <4> DEFINE r == Took(s, d, st)
      <4>1. task' = [task EXCEPT ![s] = r]
        BY <4>0
      <4>2. r.peer = IF d.sid = s THEN d.addr ELSE task[s].peer
        BY <1>1 DEF TaskRecord, Took
      <4> HIDE DEF r
      <4> QED
        BY <1>1, <4>1, <4>2
    <3> QED
      BY <3>1, <3>2
  <2>6. roams' = IF d.sid = s /\ d.addr # task[s].peer
                   THEN Append(roams, [sid |-> s, addr |-> d.addr]) ELSE roams
    BY <1>5 DEF TaskRecv
  <2> HIDE DEF d
  <2> QED
    BY <2>1, <2>3, <2>4, <2>5, <2>6
<1>6. CASE TaskEvicted(s) \/ TaskTimeout(s) \/ TaskStopped(s) \/ TaskOrphaned(s)
  <2>1. /\ \E how : task' = [task EXCEPT ![s].state = how]
        /\ chan' = [chan EXCEPT ![s] = <<>>]
        /\ roams' = roams
    BY <1>6 DEF TaskEvicted, TaskTimeout, TaskStopped, TaskOrphaned, TaskEnds
  <2>2. task'[s].peer = task[s].peer
    BY <1>1, <2>1 DEF TaskRecord
  <2>3. /\ chan' \in [Session -> Seq(InChan)]
        /\ \A x \in Session \ {s} : chan'[x] = chan[x]
        /\ chan'[s] = <<>>
    BY <1>2, <1>3, <2>1, ZenonT(20)
  <2> QED
    BY <1>3, <2>1, <2>2, <2>3
<1> QED
  BY <1>4, <1>5, <1>6 DEF TaskStep

(* A handshake takes its victims out of the table. *)
LEMMA HandshakeVictims ==
  ASSUME Typed, NEW k \in Key, NEW a \in Addr, NEW spawns, HandleHandshake(k, a, spawns)
  PROVE  /\ created \in Nat /\ created < MaxSessions
         /\ created + 1 \in Session \ Table /\ task[created + 1] = NoTask
         /\ Victims(k) \subseteq {s \in Table : sessions[s].key = k}
         /\ evict' = evict \cup {s \in Victims(k) : Alive(s)}
         /\ UNCHANGED <<authVars, chan, roams, running, held>> /\ running
<1>1. created < MaxSessions /\ created \in Nat
  BY ServerDispatchAssumption DEF HandleHandshake, Typed, TypeOK
<1>2. created + 1 \in Session \ Table /\ task[created + 1] = NoTask
  BY <1>1, ServerDispatchAssumption DEF Typed, TypeOK, Session
<1>3. Victims(k) \subseteq {x \in Table : sessions[x].key = k}
  BY DEF Victims, Oldest
<1>4. /\ evict' = evict \cup {x \in Victims(k) : Alive(x)}
      /\ UNCHANGED <<authVars, chan, roams, running, held>> /\ running
  BY DEF HandleHandshake, Signal, AtSelect
<1> QED
  BY <1>1, <1>2, <1>3, <1>4

(* One that spawns its session adds it, and it is new. *)
LEMMA HandshakeSpawns ==
  ASSUME Typed, NEW k \in Key, NEW a \in Addr, HandleHandshake(k, a, TRUE)
  PROVE  /\ created' = created + 1
         /\ Table' = (Table \ Victims(k)) \cup {created + 1}
         /\ \A x \in Table \ Victims(k) : sessions'[x] = sessions[x]
         /\ sessions'[created + 1] = [key |-> k, addr |-> a]
         /\ sessions' = [x \in Table' |-> sessions'[x]]
         /\ idle' = Latest(Table \ Victims(k), created + 1)
         /\ addr_index' = [addr_index EXCEPT ![a] = created + 1]
         /\ task' = [task EXCEPT ![created + 1] =
                        [key |-> k, peer |-> a, state |-> "spawned"]]
         /\ from' = [from EXCEPT ![created + 1] = {a}]
<1> DEFINE s == created + 1
           gone == Victims(k)
           left == [x \in Table \ gone |-> sessions[x]]
<1>1. s \notin Table
  BY HandshakeVictims
<1>2. DOMAIN left = Table \ gone /\ \A x \in Table \ gone : left[x] = sessions[x]
  OBVIOUS
<1>3. /\ sessions' = [x \in DOMAIN left \cup {s} |->
                        IF x = s THEN [key |-> k, addr |-> a] ELSE left[x]]
      /\ created' = s
      /\ idle' = Latest(Table \ gone, s)
      /\ addr_index' = [addr_index EXCEPT ![a] = s]
      /\ task' = [task EXCEPT ![s] = [key |-> k, peer |-> a, state |-> "spawned"]]
      /\ from' = [from EXCEPT ![s] = {a}]
  BY DEF HandleHandshake
<1> HIDE DEF left, gone, s
<1>4. Table' = (Table \ gone) \cup {s}
  BY <1>2, <1>3 DEF Table
<1>5. \A x \in Table \ gone : sessions'[x] = sessions[x]
  BY <1>1, <1>2, <1>3
<1>6. sessions'[s] = [key |-> k, addr |-> a] /\ sessions' = [x \in Table' |-> sessions'[x]]
  BY <1>3 DEF Table
<1> QED
  BY <1>3, <1>4, <1>5, <1>6 DEF s, gone

(* One that does not has only taken its victims. *)
LEMMA HandshakeFails ==
  ASSUME Typed, NEW k \in Key, NEW a \in Addr, HandleHandshake(k, a, FALSE)
  PROVE  /\ Table' = Table \ Victims(k)
         /\ \A x \in Table' : sessions'[x] = sessions[x]
         /\ sessions' = [x \in Table' |-> sessions'[x]]
         /\ idle' = Among(Table')
         /\ UNCHANGED <<created, addr_index, task, from>>
<1>1. /\ sessions' = [x \in Table \ Victims(k) |-> sessions[x]]
      /\ idle' = Among(Table \ Victims(k))
      /\ UNCHANGED <<created, addr_index, task, from>>
  BY DEF HandleHandshake
<1>2. Table' = Table \ Victims(k)
  BY <1>1 DEF Table
<1> QED
  BY <1>1, <1>2

(* A datagram is appended to the channel of one session of the table. *)
LEMMA DispatchEffect ==
  ASSUME Typed, NEW d \in Datagram, NEW to \in 0 .. created, DispatchDatagram(d, to)
  PROVE  /\ UNCHANGED <<authVars, sessions, addr_index, created, task, evict, roams, running, held>>
         /\ from' = [s \in Session |-> IF s = d.sid THEN from[s] \cup {d.addr} ELSE from[s]]
         /\ d \in InChan /\ d.sid \in 0 .. created
         /\ \E s \in Table : /\ chan' = [chan EXCEPT ![s] = Append(chan[s], d)]
                              /\ idle' = Latest(Table \ {s}, s)
<1>1. d \in InChan /\ d.sid \in 0 .. created
  BY DEF Datagram, InChan
<1> QED
  BY <1>1 DEF DispatchDatagram, Forward

-----------------------------------------------------------------------------
(* Typed *)

LEMMA TypedHandshake ==
  ASSUME Typed, NEW k \in Key, NEW a \in Addr, NEW spawns \in BOOLEAN,
         HandleHandshake(k, a, spawns)
  PROVE  Typed'
<1>1. /\ created \in Nat /\ created < MaxSessions
      /\ created + 1 \in Session \ Table
      /\ Victims(k) \subseteq Table
      /\ evict' = evict \cup {s \in Victims(k) : Alive(s)}
      /\ UNCHANGED <<authVars, chan, roams, running, held>>
  BY HandshakeVictims
<1>2. evict' \subseteq 1 .. created
  BY <1>1 DEF Typed, TypeOK
<1>3. CASE spawns = TRUE
  <2> DEFINE s == created + 1
  <2>1. /\ created' = s
        /\ Table' = (Table \ Victims(k)) \cup {s}
        /\ \A x \in Table \ Victims(k) : sessions'[x] = sessions[x]
        /\ sessions'[s] = [key |-> k, addr |-> a]
        /\ sessions' = [x \in Table' |-> sessions'[x]]
        /\ idle' = Latest(Table \ Victims(k), s)
        /\ addr_index' = [addr_index EXCEPT ![a] = s]
        /\ task' = [task EXCEPT ![s] = [key |-> k, peer |-> a, state |-> "spawned"]]
        /\ from' = [from EXCEPT ![s] = {a}]
    BY <1>3, HandshakeSpawns
  <2>2. IdleOrder'
    BY <1>1, <2>1, LatestOrder DEF Typed, TypeOK
  <2>3. created' \in 0 .. MaxSessions /\ Table' \subseteq 1 .. created'
    BY <1>1, <2>1, ServerDispatchAssumption DEF Typed, TypeOK
  <2>4. sessions' \in [Table' -> [key : Key, addr : Addr]]
    <3>1. \A x \in Table' : sessions'[x] \in [key : Key, addr : Addr]
      BY <2>1 DEF Typed, TypeOK
    <3> QED
      BY <2>1, <3>1
  <2>5. addr_index' \in [Addr -> 0 .. created'] /\ from' \in [Session -> SUBSET Addr]
    BY <1>1, <2>1 DEF Typed, TypeOK
  <2>6. /\ task' \in [Session -> TaskRecord]
        /\ task'[s] = [key |-> k, peer |-> a, state |-> "spawned"]
        /\ \A x \in Session \ {s} : task'[x] = task[x]
    BY <1>1, <2>1 DEF Typed, TaskRecord
  <2>7. \A x \in Session :
          IF x <= created'
            THEN task'[x] \in [key : Key, peer : Addr, state : {"spawned", "running", "held"} \cup Exit]
            ELSE task'[x] = NoTask
    BY <1>1, <2>1, <2>6 DEF Typed, TypeOK, Session
  <2>8. evict' \subseteq 1 .. created'
    BY <1>1, <1>2, <2>1
  <2> QED
    BY <1>1, <2>2, <2>3, <2>4, <2>5, <2>6, <2>7, <2>8 DEF Typed, TypeOK, authVars
<1>4. CASE spawns = FALSE
  <2>1. /\ Table' = Table \ Victims(k)
        /\ \A x \in Table' : sessions'[x] = sessions[x]
        /\ sessions' = [x \in Table' |-> sessions'[x]]
        /\ idle' = Among(Table')
        /\ UNCHANGED <<created, addr_index, task, from>>
    BY <1>4, HandshakeFails
  <2>2. IdleOrder'
    BY <2>1, AmongOrder DEF Typed, TypeOK
  <2>3. sessions' \in [Table' -> [key : Key, addr : Addr]]
    <3>1. \A x \in Table' : sessions'[x] \in [key : Key, addr : Addr]
      BY <2>1 DEF Typed, TypeOK
    <3> QED
      BY <2>1, <3>1
  <2> QED
    BY <1>1, <1>2, <2>1, <2>2, <2>3 DEF Typed, TypeOK, authVars
<1> QED
  BY <1>3, <1>4

LEMMA TypedTask ==
  ASSUME Typed, NEW s \in Session, TaskStep(s)
  PROVE  Typed'
<1>1. /\ UNCHANGED <<authVars, tableVars, from, running, held>> /\ Table' = Table
      /\ evict' \subseteq evict
      /\ task' \in [Session -> TaskRecord]
      /\ \A x \in Session \ {s} : task'[x] = task[x]
      /\ task'[s].key = task[s].key
      /\ task'[s].state \in {"running", "held"} \cup Exit
      /\ Alive(s)
  BY TaskEffect DEF tableVars, Table
<1>2. chan' \in [Session -> Seq(InChan)]
  BY TaskChannels
<1>3. s <= created /\ task[s] \in [key : Key, peer : Addr, state : {"spawned", "running", "held"} \cup Exit]
  BY <1>1 DEF Typed, TypeOK, Alive, NoTask
<1>4. task'[s].peer \in Addr /\ roams' \in Seq(InRoams)
  <2>1. CASE roams' = roams /\ task'[s].peer = task[s].peer
    BY <1>3, <2>1 DEF Typed
  <2>2. ASSUME NEW j \in DOMAIN chan[s],
               task'[s].peer = chan[s][j].addr,
               roams' = Append(roams, [sid |-> s, addr |-> chan[s][j].addr])
        PROVE  task'[s].peer \in Addr /\ roams' \in Seq(InRoams)
    <3>1. chan[s][j] \in InChan
      BY DEF Typed
    <3>2. [sid |-> s, addr |-> chan[s][j].addr] \in InRoams
      BY <3>1 DEF InChan, InRoams
    <3> QED
      BY <2>2, <3>1, <3>2 DEF Typed, InChan
  <2> QED
    BY <2>1, <2>2, TaskChannels
<1>5. task'[s] \in [key : Key, peer : Addr, state : {"spawned", "running", "held"} \cup Exit]
  BY <1>1, <1>3, <1>4 DEF TaskRecord
<1>6. IdleOrder'
  BY <1>1 DEF Typed, TypeOK, IdleOrder, tableVars
<1>7. \A x \in Session :
        IF x <= created'
          THEN task'[x] \in [key : Key, peer : Addr, state : {"spawned", "running", "held"} \cup Exit]
          ELSE task'[x] = NoTask
  BY <1>1, <1>3, <1>5 DEF Typed, TypeOK, tableVars
<1>8. TypeOK'
  BY <1>1, <1>6, <1>7 DEF Typed, TypeOK, authVars, tableVars
<1> QED
  BY <1>1, <1>2, <1>4, <1>8 DEF Typed

(* The operator's commands change no session, only who is told to leave. *)
LEMMA CommandEffect ==
  ASSUME Typed,
         \/ \E c \in AuthConfigs : Reload(c)
         \/ \E k \in Key : IpcRevoke(k) \/ HandleRevoke(k)
         \/ \E s \in Session : HandleDisconnect(s)
  PROVE  /\ auth' \in AuthConfigs
         /\ denylist' \subseteq Key /\ control' \subseteq Key /\ acked' \subseteq Key
         /\ evict \subseteq evict' /\ evict' \subseteq evict \cup Table
         /\ UNCHANGED <<tableVars, task, chan, roams, from, running, held>>
<1>1. /\ auth \in AuthConfigs /\ denylist \subseteq Key
      /\ control \subseteq Key /\ acked \subseteq Key
  BY DEF Typed, TypeOK
<1>2. ASSUME NEW c \in AuthConfigs, Reload(c)
      PROVE  /\ auth' \in AuthConfigs
             /\ UNCHANGED <<denylist, control, acked, evict>>
             /\ UNCHANGED <<tableVars, task, chan, roams, from, running, held>>
  BY <1>2 DEF Reload, taskVars
<1>3. ASSUME NEW k \in Key, IpcRevoke(k)
      PROVE  /\ denylist' \subseteq Key /\ control' \subseteq Key
             /\ UNCHANGED <<auth, acked, evict>>
             /\ UNCHANGED <<tableVars, task, chan, roams, from, running, held>>
  BY <1>1, <1>3 DEF IpcRevoke, taskVars
<1>4. ASSUME NEW k \in Key, HandleRevoke(k)
      PROVE  /\ control' \subseteq Key /\ acked' \subseteq Key
             /\ UNCHANGED <<auth, denylist>>
             /\ evict \subseteq evict' /\ evict' \subseteq evict \cup Table
             /\ UNCHANGED <<tableVars, task, chan, roams, from, running, held>>
  BY <1>1, <1>4 DEF HandleRevoke, Signal
<1>5. ASSUME NEW s \in Session, HandleDisconnect(s)
      PROVE  /\ UNCHANGED authVars
             /\ evict \subseteq evict' /\ evict' \subseteq evict \cup Table
             /\ UNCHANGED <<tableVars, task, chan, roams, from, running, held>>
  BY <1>5 DEF HandleDisconnect, Signal
<1> QED
  BY <1>1, <1>2, <1>3, <1>4, <1>5 DEF authVars

LEMMA TypedCommand ==
  ASSUME Typed,
         \/ \E c \in AuthConfigs : Reload(c)
         \/ \E k \in Key : IpcRevoke(k) \/ HandleRevoke(k)
         \/ \E s \in Session : HandleDisconnect(s)
  PROVE  Typed'
<1>1. /\ auth' \in AuthConfigs
      /\ denylist' \subseteq Key /\ control' \subseteq Key /\ acked' \subseteq Key
      /\ evict' \subseteq evict \cup Table
      /\ UNCHANGED <<tableVars, task, chan, roams, from, running, held>>
  BY CommandEffect
<1>2. Table' = Table /\ IdleOrder'
  BY <1>1 DEF Typed, TypeOK, IdleOrder, Table, tableVars
<1> QED
  BY <1>1, <1>2 DEF Typed, TypeOK, tableVars

LEMMA TypedDispatch ==
  ASSUME Typed, NEW d \in Datagram, NEW to \in 0 .. created, DispatchDatagram(d, to)
  PROVE  Typed'
<1>1. /\ UNCHANGED <<authVars, sessions, addr_index, created, task, evict, roams, running, held>>
      /\ from' = [s \in Session |-> IF s = d.sid THEN from[s] \cup {d.addr} ELSE from[s]]
      /\ d \in InChan
  BY DispatchEffect
<1>2. PICK s \in Table : /\ chan' = [chan EXCEPT ![s] = Append(chan[s], d)]
                         /\ idle' = Latest(Table \ {s}, s)
  BY DispatchEffect
<1>3. Table' = Table /\ Table = (Table \ {s}) \cup {s}
  BY <1>1 DEF Table
<1>4. IdleOrder'
  BY <1>2, <1>3, LatestOrder DEF Typed, TypeOK
<1>5. chan' \in [Session -> Seq(InChan)]
  <2>1. chan[s] \in Seq(InChan)
    BY ServerDispatchAssumption DEF Typed, TypeOK, Session
  <2>2. Append(chan[s], d) \in Seq(InChan)
    BY <1>1, <2>1
  <2> QED
    BY <1>2, <2>2 DEF Typed
<1>6. from' \in [Session -> SUBSET Addr]
  BY <1>1 DEF Typed, TypeOK, InChan
<1> QED
  BY <1>1, <1>3, <1>4, <1>5, <1>6 DEF Typed, TypeOK, authVars

(* An address change is taken off the channel, and the table and the cache *)
(* follow it if the session is still there. *)
LEMMA RoamEffect ==
  ASSUME Typed, ApplyRoam
  PROVE  /\ UNCHANGED <<authVars, idle, created, task, evict, chan, from, running, held>>
         /\ roams # <<>> /\ Head(roams) \in InRoams /\ roams' = Tail(roams)
         /\ Table' = Table
         /\ \A x \in Table \ {Head(roams).sid} : sessions'[x] = sessions[x]
         /\ \/ Head(roams).sid \notin Table
               /\ UNCHANGED <<sessions, addr_index>>
            \/ /\ Head(roams).sid \in Table
               /\ sessions[Head(roams).sid].addr = Head(roams).addr
               /\ UNCHANGED <<sessions, addr_index>>
            \/ /\ Head(roams).sid \in Table
               /\ sessions' \in [Table -> [key : Key, addr : Addr]]
               /\ sessions'[Head(roams).sid] =
                    [key |-> sessions[Head(roams).sid].key, addr |-> Head(roams).addr]
               /\ addr_index' = [x \in Addr |->
                    IF x = Head(roams).addr THEN Head(roams).sid
                    ELSE IF x = sessions[Head(roams).sid].addr
                              /\ addr_index[x] = Head(roams).sid THEN 0
                    ELSE addr_index[x]]
<1> DEFINE s == Head(roams).sid
           a == Head(roams).addr
<1>1. /\ UNCHANGED <<authVars, idle, created, task, evict, chan, from, running, held>>
      /\ roams # <<>> /\ roams' = Tail(roams)
  BY DEF ApplyRoam
<1>2. Head(roams) \in InRoams
  BY <1>1 DEF Typed
<1>3. CASE s \in Table /\ sessions[s].addr # a
  <2>1. /\ sessions' = [sessions EXCEPT ![s].addr = a]
        /\ addr_index' = [x \in Addr |-> IF x = a THEN s
                    ELSE IF x = sessions[s].addr /\ addr_index[x] = s THEN 0
                    ELSE addr_index[x]]
    BY <1>3 DEF ApplyRoam
  <2>2. a \in Addr /\ sessions \in [Table -> [key : Key, addr : Addr]]
    BY <1>2 DEF InRoams, Typed, TypeOK
  <2> HIDE DEF s, a
  <2>3. /\ sessions' \in [Table -> [key : Key, addr : Addr]]
        /\ sessions'[s] = [key |-> sessions[s].key, addr |-> a]
        /\ \A x \in Table \ {s} : sessions'[x] = sessions[x]
    BY <1>3, <2>1, <2>2
  <2>4. Table' = Table
    BY <2>3 DEF Table
  <2> QED
    BY <1>1, <1>2, <1>3, <2>1, <2>3, <2>4 DEF s, a
<1>4. CASE ~(s \in Table /\ sessions[s].addr # a)
  <2>1. UNCHANGED <<sessions, addr_index>>
    BY <1>4 DEF ApplyRoam
  <2>2. Table' = Table
    BY <2>1 DEF Table
  <2> QED
    BY <1>1, <1>2, <1>4, <2>1, <2>2
<1> QED
  BY <1>3, <1>4

LEMMA TypedRoam ==
  ASSUME Typed, ApplyRoam
  PROVE  Typed'
<1>1. /\ UNCHANGED <<authVars, idle, created, task, evict, chan, from, running, held>>
      /\ roams # <<>> /\ roams' = Tail(roams) /\ Table' = Table
  BY RoamEffect
<1>2. sessions' \in [Table -> [key : Key, addr : Addr]] /\ addr_index' \in [Addr -> 0 .. created]
  <2>1. sessions \in [Table -> [key : Key, addr : Addr]] /\ addr_index \in [Addr -> 0 .. created]
    BY DEF Typed, TypeOK
  <2>2. Table \subseteq 0 .. created /\ 0 \in 0 .. created
    BY ServerDispatchAssumption DEF Typed, TypeOK
  <2>3. CASE UNCHANGED <<sessions, addr_index>>
    BY <2>1, <2>3
  <2>4. CASE ~(UNCHANGED <<sessions, addr_index>>)
    <3> DEFINE s == Head(roams).sid
               a == Head(roams).addr
    <3>1. /\ s \in Table
          /\ sessions' \in [Table -> [key : Key, addr : Addr]]
          /\ addr_index' = [x \in Addr |->
                    IF x = a THEN s
                    ELSE IF x = sessions[s].addr /\ addr_index[x] = s THEN 0
                    ELSE addr_index[x]]
      BY <2>4, RoamEffect
    <3> HIDE DEF s, a
    <3> QED
      BY <2>1, <2>2, <3>1
  <2> QED
    BY <2>3, <2>4
<1>3. IdleOrder'
  BY <1>1 DEF Typed, TypeOK, IdleOrder
<1>4. roams' \in Seq(InRoams)
  BY <1>1 DEF Typed
<1> QED
  BY <1>1, <1>2, <1>3, <1>4 DEF Typed, TypeOK, authVars

(* The sweep and the stop only take sessions out. *)
LEMMA SweepEffect ==
  ASSUME Typed, Sweep
  PROVE  /\ UNCHANGED <<authVars, created, task, evict, chan, roams, from, running, held>> /\ running
         /\ Table' = {s \in Table : Alive(s)}
         /\ \A s \in Table' : sessions'[s] = sessions[s]
         /\ sessions' \in [Table' -> [key : Key, addr : Addr]]
         /\ idle' = Among(Table')
         /\ addr_index' = [a \in Addr |-> IF addr_index[a] \in Table' THEN addr_index[a] ELSE 0]
<1> DEFINE left == {s \in Table : ~Closed(s)}
<1>1. /\ UNCHANGED <<authVars, created, task, evict, chan, roams, from, running, held>> /\ running
      /\ sessions' = [s \in left |-> sessions[s]]
      /\ idle' = Among(left)
      /\ addr_index' = [a \in Addr |-> IF addr_index[a] \in left THEN addr_index[a] ELSE 0]
  BY DEF Sweep, taskVars, AtSelect
<1>2. Table' = left /\ left = {s \in Table : Alive(s)}
  BY <1>1 DEF Table, Closed
<1>3. \A s \in left : sessions[s] \in [key : Key, addr : Addr]
  BY DEF Typed, TypeOK
<1> HIDE DEF left
<1> QED
  BY <1>1, <1>2, <1>3

LEMMA TypedSweep ==
  ASSUME Typed, Sweep
  PROVE  Typed'
<1>1. /\ UNCHANGED <<authVars, created, task, evict, chan, roams, from, running, held>>
      /\ Table' \subseteq Table
      /\ sessions' \in [Table' -> [key : Key, addr : Addr]]
      /\ idle' = Among(Table')
      /\ addr_index' = [a \in Addr |-> IF addr_index[a] \in Table' THEN addr_index[a] ELSE 0]
  BY SweepEffect
<1>2. IdleOrder'
  BY <1>1, AmongOrder DEF Typed, TypeOK
<1>3. addr_index' \in [Addr -> 0 .. created]
  BY <1>1, ServerDispatchAssumption DEF Typed, TypeOK
<1> QED
  BY <1>1, <1>2, <1>3 DEF Typed, TypeOK, authVars

LEMMA StopEffect ==
  ASSUME Typed, Stop
  PROVE  /\ UNCHANGED <<auth, denylist, acked, created, task, evict, chan, roams, from, held>>
         /\ control' = {} /\ running' = FALSE
         /\ Table' = {} /\ sessions' = <<>> /\ idle' = {}
         /\ addr_index' = [a \in Addr |-> 0]
BY DEF Stop, Table, taskVars

LEMMA TypedStop ==
  ASSUME Typed, Stop
  PROVE  Typed'
<1>1. IdleOrder'
  BY StopEffect DEF IdleOrder
<1>2. sessions' \in [Table' -> [key : Key, addr : Addr]]
  BY StopEffect
<1>3. addr_index' \in [Addr -> 0 .. created]
  <2>1. 0 \in 0 .. created
    BY ServerDispatchAssumption DEF Typed, TypeOK
  <2> QED
    BY <2>1, StopEffect
<1> QED
  BY <1>1, <1>2, <1>3, StopEffect DEF Typed, TypeOK

-----------------------------------------------------------------------------
(* The steps keep the invariant *)

LEMMA CommandKeeps ==
  ASSUME DInv,
         \/ \E c \in AuthConfigs : Reload(c)
         \/ \E k \in Key : IpcRevoke(k) \/ HandleRevoke(k)
         \/ \E s \in Session : HandleDisconnect(s)
  PROVE  DInv'
<1>1. Typed'
  BY TypedCommand DEF DInv
<1>2. evict \subseteq evict' /\ UNCHANGED <<tableVars, task, chan, roams, from, running, held>>
  BY CommandEffect DEF DInv
<1>3. Table' = Table
  BY <1>2 DEF Table, tableVars
<1>4. Carried' /\ AddrAgrees' /\ RoamAuthentic' /\ CacheExact' /\ Capped'
  BY <1>2, <1>3 DEF DInv, Carried, Authentic, AddrAgrees, RoamAuthentic, CacheExact, Capped,
                    tableVars
<1>5. ToldToLeave'
  BY <1>2, <1>3 DEF DInv, ToldToLeave, Alive
<1> QED
  BY <1>1, <1>4, <1>5 DEF DInv

LEMMA TaskKeeps ==
  ASSUME DInv, NEW s \in Session, TaskStep(s)
  PROVE  DInv'
<1> USE DEF DInv
<1>1. Typed'
  BY TypedTask
<1>2. /\ UNCHANGED <<authVars, tableVars, from, running, held>> /\ Table' = Table
      /\ Alive(s)
      /\ \A x \in Session \ {s} : task'[x] = task[x]
      /\ \/ evict' = evict
         \/ evict' = evict \ {s} /\ task'[s].state \in Exit
  BY TaskEffect DEF tableVars, Table
<1>3. s # 0 /\ roams \in Seq(InRoams) /\ chan[s] \in Seq(InChan)
  BY DEF Session, Typed
<1>4. /\ \A x \in Session \ {s} : chan'[x] = chan[x]
      /\ \A i \in DOMAIN chan'[s] : \E j \in DOMAIN chan[s] : chan'[s][i] = chan[s][j]
  BY TaskChannels
<1>5. \A x \in Session : \A i \in DOMAIN chan'[x] :
        chan'[x][i].sid = 0 \/ Authentic(chan'[x][i].sid, chan'[x][i].addr)
  BY <1>4 DEF Carried
<1>6. RoamAuthentic' /\ CacheExact' /\ Capped'
  BY <1>2 DEF RoamAuthentic, CacheExact, Capped, tableVars
<1>7. ToldToLeave'
  <2>1. \A x \in Session : Alive(x)' => Alive(x) /\ (x \in evict => x \in evict')
    BY <1>2 DEF Alive, Exit
  <2> QED
    BY <1>2, <2>1 DEF ToldToLeave
<1>8. CASE roams' = roams /\ task'[s].peer = task[s].peer
  <2>1. \A x \in Session : task'[x].peer = task[x].peer
    BY <1>2, <1>8
  <2>2. AddrAgrees'
    <3>1. Table \subseteq Session
      BY ServerDispatchAssumption DEF Typed, TypeOK, Session
    <3> QED
      BY <1>2, <1>8, <2>1, <3>1 DEF AddrAgrees, tableVars
  <2>3. Carried'
    BY <1>2, <1>5, <1>8 DEF Carried, Authentic, tableVars
  <2> QED
    BY <1>1, <1>6, <1>7, <2>2, <2>3
<1>9. ASSUME NEW j \in DOMAIN chan[s], chan[s][j].sid = s,
             task'[s].peer = chan[s][j].addr,
             roams' = Append(roams, [sid |-> s, addr |-> chan[s][j].addr])
      PROVE  DInv'
  <2> DEFINE n == Len(roams) + 1
             a == chan[s][j].addr
  <2>1. /\ DOMAIN roams' = DOMAIN roams \cup {n} /\ n \notin DOMAIN roams
        /\ \A i \in DOMAIN roams : roams'[i] = roams[i] /\ i < n
        /\ roams'[n] = [sid |-> s, addr |-> a] /\ n \in Nat
        /\ DOMAIN roams \subseteq Nat
    BY <1>3, <1>9
  <2>2. Authentic(s, a)
    BY <1>3, <1>9 DEF Carried
  <2>3. \A i \in DOMAIN roams' : Authentic(roams'[i].sid, roams'[i].addr)
    BY <2>1, <2>2 DEF Carried
  <2>4. Carried'
    BY <1>2, <1>5, <2>3 DEF Carried, Authentic, tableVars
  <2>5. AddrAgrees'
    <3> SUFFICES ASSUME NEW x \in Table
                 PROVE  LET mine == {i \in DOMAIN roams' : roams'[i].sid = x}
                        IN  /\ mine = {} => task'[x].peer = sessions'[x].addr
                            /\ \A i \in mine : (\A l \in mine : l <= i)
                                                 => task'[x].peer = roams'[i].addr
      BY <1>2 DEF AddrAgrees
    <3> DEFINE mine == {i \in DOMAIN roams' : roams'[i].sid = x}
               was  == {i \in DOMAIN roams : roams[i].sid = x}
    <3>1. CASE x = s
      <4>1. n \in mine /\ \A i \in mine : i = n \/ i < n
        BY <2>1, <3>1
      <4>2. \A i \in mine : (\A l \in mine : l <= i) => i = n
        <5> SUFFICES ASSUME NEW i \in mine, \A l \in mine : l <= i, i # n PROVE FALSE
          OBVIOUS
        <5>1. n <= i /\ i < n /\ i \in Nat
          BY <2>1, <4>1
        <5> QED
          BY <2>1, <5>1
      <4> QED
        BY <1>9, <2>1, <3>1, <4>1, <4>2
    <3>2. CASE x # s
      <4>1. mine = was /\ \A i \in was : roams'[i] = roams[i]
        BY <2>1, <3>2
      <4>2. task'[x] = task[x] /\ sessions'[x] = sessions[x]
        <5>1. task \in [Session -> TaskRecord] /\ x \in Session
          BY <1>2, ServerDispatchAssumption DEF Typed, TypeOK, Session
        <5> QED
          BY <1>2, <3>2, <5>1 DEF tableVars
      <4>3. /\ was = {} => task[x].peer = sessions[x].addr
            /\ \A i \in was : (\A l \in was : l <= i) => task[x].peer = roams[i].addr
        BY DEF AddrAgrees
      <4> HIDE DEF was
      <4> QED
        BY <4>1, <4>2, <4>3
    <3> QED
      BY <3>1, <3>2
  <2> QED
    BY <1>1, <1>6, <1>7, <2>4, <2>5
<1> QED
  BY <1>8, <1>9, TaskChannels

LEMMA DispatchKeeps ==
  ASSUME DInv, NEW d \in Datagram, NEW to \in 0 .. created, DispatchDatagram(d, to)
  PROVE  DInv'
<1> USE DEF DInv
<1>1. Typed'
  BY TypedDispatch
<1>2. /\ UNCHANGED <<authVars, sessions, addr_index, created, task, evict, roams, running, held>>
      /\ from' = [s \in Session |-> IF s = d.sid THEN from[s] \cup {d.addr} ELSE from[s]]
      /\ d \in InChan /\ d.sid \in 0 .. created
  BY DispatchEffect
<1>3. PICK s \in Table : chan' = [chan EXCEPT ![s] = Append(chan[s], d)]
  BY DispatchEffect
<1>4. /\ Table' = Table /\ Table \subseteq Session /\ s \in Session
      /\ created \in Nat /\ 1 .. created \subseteq Session
  BY <1>2, ServerDispatchAssumption DEF Typed, TypeOK, Session, Table
<1>5. \A x \in Session : from[x] \subseteq from'[x]
  BY <1>2
<1>6. AddrAgrees' /\ CacheExact' /\ Capped' /\ ToldToLeave'
  BY <1>2, <1>4 DEF AddrAgrees, CacheExact, Capped, ToldToLeave, Alive
<1>7. RoamAuthentic'
  BY <1>2, <1>4, <1>5 DEF RoamAuthentic
<1> DEFINE Later(i, a) == i \in 1 .. created' /\ a \in from'[i]
<1>8. \A i, a : Authentic(i, a) => Later(i, a)
  BY <1>2, <1>4, <1>5 DEF Authentic
<1>9. d.sid # 0 => Later(d.sid, d.addr)
  <2> SUFFICES ASSUME d.sid # 0 PROVE d.sid \in 1 .. created /\ d.addr \in from'[d.sid]
    BY <1>2 DEF Authentic
  <2>1. d.sid \in 1 .. created
    BY <1>2, <1>4
  <2> QED
    BY <1>2, <1>4, <2>1
<1> HIDE DEF Later
<1>10. Carried'
  <2>1. \A i \in DOMAIN roams' : Later(roams'[i].sid, roams'[i].addr)
    BY <1>2, <1>8 DEF Carried
  <2>2. ASSUME NEW x \in Session, NEW i \in DOMAIN chan'[x]
        PROVE  chan'[x][i].sid = 0 \/ Later(chan'[x][i].sid, chan'[x][i].addr)
    <3>1. chan[x] \in Seq(InChan) /\ chan[s] \in Seq(InChan)
      BY <1>4 DEF Typed
    <3>2. chan'[x] = chan[x] \/ chan'[x] = Append(chan[x], d)
      BY <1>3, <1>4 DEF Typed
    <3>3. chan'[x][i] = d \/ (i \in DOMAIN chan[x] /\ chan'[x][i] = chan[x][i])
      <4> DEFINE t == chan[x]
      <4>1. t \in Seq(InChan) /\ (chan'[x] = t \/ chan'[x] = Append(t, d))
        BY <3>1, <3>2
      <4> HIDE DEF t
      <4>2. CASE chan'[x] = Append(t, d)
        <5>1. i \in 1 .. Len(t) + 1 /\ DOMAIN t = 1 .. Len(t) /\ Len(t) \in Nat
          BY <2>2, <4>1, <4>2
        <5>2. i \in DOMAIN t => Append(t, d)[i] = t[i]
          BY <4>1, <5>1
        <5>3. Append(t, d)[Len(t) + 1] = d /\ (i \in DOMAIN t \/ i = Len(t) + 1)
          BY <4>1, <5>1
        <5> QED
          BY <4>2, <5>2, <5>3 DEF t
      <4> QED
        BY <2>2, <4>1, <4>2 DEF t
    <3> QED
      BY <1>8, <1>9, <3>3 DEF Carried
  <2> QED
    BY <2>1, <2>2 DEF Carried, Authentic, Later
<1> QED
  BY <1>1, <1>6, <1>7, <1>10

(* Taking the oldest first keeps a peer within its cap. *)
LEMMA HandshakeCap ==
  ASSUME Typed, Capped, NEW k \in Key, NEW a \in Addr, HandleHandshake(k, a, TRUE)
  PROVE  Capped'
<1> DEFINE s == created + 1
           Of(x) == {t \in Table : sessions[t].key = x}
           OfNext(x) == {t \in Table' : sessions'[t].key = x}
<1>1. /\ s \notin Table /\ Victims(k) \subseteq Of(k)
      /\ Table' = (Table \ Victims(k)) \cup {s}
      /\ \A x \in Table \ Victims(k) : sessions'[x] = sessions[x]
      /\ sessions'[s].key = k
  <2>1. s \notin Table /\ Victims(k) \subseteq Of(k)
    BY HandshakeVictims
  <2>2. /\ Table' = (Table \ Victims(k)) \cup {s}
        /\ \A x \in Table \ Victims(k) : sessions'[x] = sessions[x]
        /\ sessions'[s] = [key |-> k, addr |-> a]
    BY HandshakeSpawns
  <2> QED
    BY <2>1, <2>2
<1>2. \A x : IsFiniteSet(Of(x)) /\ Cardinality(Of(x)) \in Nat
  BY TableFinite DEF Typed
<1> SUFFICES ASSUME MAX_PER_PEER > 0, NEW x \in Key
             PROVE  Cardinality(OfNext(x)) <= MAX_PER_PEER
  BY DEF Capped
<1>3. Cardinality(Of(x)) <= MAX_PER_PEER /\ Cardinality(Of(k)) <= MAX_PER_PEER
  BY DEF Capped
<1>4. CASE x # k
  <2>1. OfNext(x) = Of(x)
    BY <1>1, <1>4
  <2> QED
    BY <1>3, <2>1
<1>5. CASE x = k
  <2>1. OfNext(k) = (Of(k) \ Victims(k)) \cup {s} /\ s \notin Of(k)
    BY <1>1
  <2>2. CASE Cardinality(Of(k)) < MAX_PER_PEER
    <3>1. Victims(k) = {}
      BY <2>2 DEF Victims
    <3>2. OfNext(k) = Of(k) \cup {s}
      BY <2>1, <3>1
    <3> HIDE DEF OfNext, Of, s
    <3>3. Cardinality(OfNext(k)) = Cardinality(Of(k)) + 1
      BY <1>2, <2>1, <3>2, FS_AddElement
    <3> QED
      BY <1>2, <1>5, <2>2, <3>3, ServerDispatchAssumption
  <2>3. CASE ~(Cardinality(Of(k)) < MAX_PER_PEER)
    <3>1. Victims(k) = Oldest(Of(k))
      BY <2>3, ServerDispatchAssumption DEF Victims
    <3>2. Of(k) # {} /\ Of(k) \subseteq Table
      BY <1>2, <2>3, FS_EmptySet, ServerDispatchAssumption
    <3>3. PICK v \in Of(k) : Oldest(Of(k)) = {v}
      <4> HIDE DEF Of
      <4> QED
        BY <1>2, <3>2, OldestIsOne DEF Typed, TypeOK
    <3>4. OfNext(k) = (Of(k) \ {v}) \cup {s}
      BY <2>1, <3>1, <3>3
    <3> HIDE DEF OfNext, Of, s
    <3>5. IsFiniteSet(Of(k) \ {v}) /\ Cardinality(Of(k) \ {v}) = Cardinality(Of(k)) - 1
      BY <1>2, <3>3, FS_RemoveElement
    <3>6. Cardinality(OfNext(k)) = Cardinality(Of(k) \ {v}) + 1
      BY <2>1, <3>4, <3>5, FS_AddElement
    <3> QED
      BY <1>2, <1>3, <1>5, <3>5, <3>6, ServerDispatchAssumption
  <2> QED
    BY <2>2, <2>3
<1> QED
  BY <1>4, <1>5

LEMMA SpawnKeeps ==
  ASSUME DInv, NEW k \in Key, NEW a \in Addr, HandleHandshake(k, a, TRUE)
  PROVE  DInv'
<1> USE DEF DInv
<1> DEFINE s == created + 1
<1>1. Typed'
  BY TypedHandshake
<1>2. /\ created \in Nat /\ s \in Session \ Table
      /\ Victims(k) \subseteq Table
      /\ evict' = evict \cup {x \in Victims(k) : Alive(x)}
      /\ UNCHANGED <<chan, roams>> /\ running
  BY HandshakeVictims
<1>3. /\ created' = s
      /\ Table' = (Table \ Victims(k)) \cup {s}
      /\ \A x \in Table \ Victims(k) : sessions'[x] = sessions[x]
      /\ sessions'[s] = [key |-> k, addr |-> a]
      /\ addr_index' = [addr_index EXCEPT ![a] = s]
      /\ task' = [task EXCEPT ![s] = [key |-> k, peer |-> a, state |-> "spawned"]]
      /\ from' = [from EXCEPT ![s] = {a}]
  BY HandshakeSpawns
<1>4. /\ task \in [Session -> TaskRecord] /\ from \in [Session -> SUBSET Addr]
      /\ Table \subseteq Session /\ 1 .. created \subseteq Session
      /\ addr_index \in [Addr -> 0 .. created]
      /\ s \notin 1 .. created /\ Table \subseteq 1 .. created
  <2>1. /\ task \in [Session -> TaskRecord] /\ from \in [Session -> SUBSET Addr]
        /\ addr_index \in [Addr -> 0 .. created] /\ Table \subseteq 1 .. created
        /\ created \in 0 .. MaxSessions
    BY DEF Typed, TypeOK
  <2>2. s \notin 1 .. created /\ 1 .. created \subseteq Session
    BY <1>2, <2>1, ServerDispatchAssumption DEF Session
  <2> QED
    BY <2>1, <2>2
<1>5. /\ task'[s].peer = a /\ \A x \in Session \ {s} : task'[x] = task[x]
      /\ from'[s] = {a} /\ \A x \in Session \ {s} : from'[x] = from[x]
  BY <1>2, <1>3, <1>4
<1>6. Carried'
  <2>1. \A i, b : Authentic(i, b) => i \in 1 .. created' /\ b \in from'[i]
    BY <1>2, <1>3, <1>4, <1>5 DEF Authentic
  <2> QED
    BY <1>2, <2>1 DEF Carried, Authentic
<1>7. AddrAgrees'
  <2> SUFFICES ASSUME NEW x \in Table'
               PROVE  LET mine == {i \in DOMAIN roams : roams[i].sid = x}
                      IN  /\ mine = {} => task'[x].peer = sessions'[x].addr
                          /\ \A i \in mine : (\A l \in mine : l <= i)
                                               => task'[x].peer = roams[i].addr
    BY <1>2 DEF AddrAgrees
  <2>1. CASE x = s
    <3>1. {i \in DOMAIN roams : roams[i].sid = x} = {}
      BY <1>4, <2>1 DEF Carried, Authentic
    <3> QED
      BY <1>3, <1>5, <2>1, <3>1
  <2>2. CASE x # s
    <3>1. x \in Table /\ sessions'[x] = sessions[x] /\ task'[x] = task[x]
      BY <1>3, <1>4, <1>5, <2>2
    <3> QED
      BY <3>1 DEF AddrAgrees
  <2> QED
    BY <2>1, <2>2
<1>8. RoamAuthentic'
  BY <1>2, <1>3, <1>4, <1>5 DEF RoamAuthentic
<1>9. CacheExact'
  <2> SUFFICES ASSUME NEW b \in Addr, addr_index'[b] \in Table'
               PROVE  sessions'[addr_index'[b]].addr = b
    BY DEF CacheExact
  <2>1. CASE b = a
    BY <1>3, <1>4, <2>1
  <2>2. CASE b # a
    <3>1. addr_index'[b] = addr_index[b] /\ addr_index[b] # s
      BY <1>2, <1>3, <1>4, <2>2
    <3> QED
      BY <1>3, <3>1 DEF CacheExact
  <2> QED
    BY <2>1, <2>2
<1>10. Capped'
  BY HandshakeCap
<1>11. ToldToLeave'
  <2>1. \A x \in Session \ {s} : Alive(x)' <=> Alive(x)
    BY <1>5 DEF Alive
  <2> QED
    BY <1>2, <1>3, <2>1 DEF ToldToLeave
<1> QED
  BY <1>1, <1>6, <1>7, <1>8, <1>9, <1>10, <1>11

(* Fewer sessions in the table, each with the address it had. *)
LEMMA FewerKeep ==
  ASSUME DInv, Table' \subseteq Table, \A x \in Table' : sessions'[x] = sessions[x],
         UNCHANGED <<created, task, chan, roams, from>>
  PROVE  Carried' /\ AddrAgrees' /\ RoamAuthentic' /\ Capped'
<1> USE DEF DInv
<1>1. Carried' /\ AddrAgrees' /\ RoamAuthentic'
  BY DEF Carried, Authentic, AddrAgrees, RoamAuthentic
<1>2. Capped'
  <2> DEFINE Of(x) == {t \in Table : sessions[t].key = x}
             OfNext(x) == {t \in Table' : sessions'[t].key = x}
  <2> SUFFICES ASSUME MAX_PER_PEER > 0, NEW x \in Key
               PROVE  Cardinality(OfNext(x)) <= MAX_PER_PEER
    BY DEF Capped
  <2>1. Cardinality(Of(x)) <= MAX_PER_PEER
    BY DEF Capped
  <2>2. IsFiniteSet(Of(x)) /\ Cardinality(Of(x)) \in Nat
    BY TableFinite DEF Typed
  <2>3. OfNext(x) \in SUBSET Of(x)
    OBVIOUS
  <2> HIDE DEF Of, OfNext
  <2>4. IsFiniteSet(OfNext(x)) /\ Cardinality(OfNext(x)) <= Cardinality(Of(x))
    BY <2>2, <2>3, FS_Subset
  <2>5. Cardinality(OfNext(x)) \in Nat
    BY <2>4, FS_CardinalityType
  <2> QED
    BY <2>1, <2>2, <2>4, <2>5, ServerDispatchAssumption
<1> QED
  BY <1>1, <1>2

LEMMA HandshakeKeeps ==
  ASSUME DInv, NEW k \in Key, NEW a \in Addr, NEW spawns \in BOOLEAN,
         HandleHandshake(k, a, spawns)
  PROVE  DInv'
<1> USE DEF DInv
<1>1. CASE spawns = TRUE
  BY <1>1, SpawnKeeps
<1>2. CASE spawns = FALSE
  <2>1. Typed'
    BY TypedHandshake
  <2>2. /\ evict' = evict \cup {x \in Victims(k) : Alive(x)}
        /\ UNCHANGED <<chan, roams, running, held>>
    BY HandshakeVictims
  <2>3. /\ Table' = Table \ Victims(k)
        /\ \A x \in Table' : sessions'[x] = sessions[x]
        /\ UNCHANGED <<created, addr_index, task, from>>
    BY <1>2, HandshakeFails
  <2>4. Carried' /\ AddrAgrees' /\ RoamAuthentic' /\ Capped'
    BY <2>2, <2>3, FewerKeep
  <2>5. CacheExact' /\ ToldToLeave'
    BY <2>2, <2>3 DEF CacheExact, ToldToLeave, Alive
  <2> QED
    BY <2>1, <2>4, <2>5
<1> QED
  BY <1>1, <1>2

LEMMA SweepKeeps ==
  ASSUME DInv, Sweep
  PROVE  DInv'
<1> USE DEF DInv
<1>1. Typed'
  BY TypedSweep
<1>2. /\ UNCHANGED <<created, task, evict, chan, roams, from, running, held>>
      /\ Table' = {s \in Table : Alive(s)}
      /\ \A s \in Table' : sessions'[s] = sessions[s]
      /\ addr_index' = [a \in Addr |-> IF addr_index[a] \in Table' THEN addr_index[a] ELSE 0]
  BY SweepEffect
<1>3. Carried' /\ AddrAgrees' /\ RoamAuthentic' /\ Capped'
  BY <1>2, FewerKeep
<1>4. ToldToLeave'
  BY <1>2 DEF ToldToLeave, Alive
<1>5. CacheExact'
  <2>1. 0 \notin Table
    BY DEF Typed, TypeOK
  <2> QED
    BY <1>2, <2>1 DEF CacheExact
<1> QED
  BY <1>1, <1>3, <1>4, <1>5

LEMMA StopKeeps ==
  ASSUME DInv, Stop
  PROVE  DInv'
<1> USE DEF DInv
<1>1. Typed'
  BY TypedStop
<1>2. Carried' /\ AddrAgrees' /\ RoamAuthentic' /\ Capped'
  BY StopEffect, FewerKeep
<1>3. CacheExact' /\ ToldToLeave'
  BY StopEffect DEF CacheExact, ToldToLeave
<1> QED
  BY <1>1, <1>2, <1>3

LEMMA RoamKeeps ==
  ASSUME DInv, ApplyRoam
  PROVE  DInv'
<1> USE DEF DInv
<1> DEFINE s == Head(roams).sid
           a == Head(roams).addr
<1>1. Typed'
  BY TypedRoam
<1>2. /\ UNCHANGED <<created, task, evict, chan, from, running, held>>
      /\ roams # <<>> /\ roams' = Tail(roams) /\ Table' = Table
      /\ \A x \in Table \ {s} : sessions'[x] = sessions[x]
  BY RoamEffect
<1>3. s \in Table => sessions'[s].addr = a /\ sessions'[s].key = sessions[s].key
  BY RoamEffect
<1>4. \/ UNCHANGED <<sessions, addr_index>>
      \/ /\ s \in Table
         /\ addr_index' = [x \in Addr |-> IF x = a THEN s
                    ELSE IF x = sessions[s].addr /\ addr_index[x] = s THEN 0
                    ELSE addr_index[x]]
  BY RoamEffect
<1>5. /\ 1 \in DOMAIN roams /\ roams[1].sid = s /\ roams[1].addr = a
      /\ \A i \in DOMAIN roams' : i + 1 \in DOMAIN roams /\ roams'[i] = roams[i + 1]
      /\ \A i \in DOMAIN roams \ {1} : i - 1 \in DOMAIN roams'
      /\ DOMAIN roams \subseteq Nat /\ DOMAIN roams' \subseteq Nat
  BY <1>2 DEF Typed
<1>6. Authentic(s, a)
  BY <1>5 DEF Carried
<1>7. Carried'
  BY <1>2, <1>5 DEF Carried, Authentic
<1> HIDE DEF s, a
<1>8. RoamAuthentic'
  BY <1>2, <1>3, <1>6 DEF RoamAuthentic, Authentic
<1>9. Capped'
  <2>1. \A x \in Table : sessions'[x].key = sessions[x].key
    BY <1>2, <1>3
  <2>2. \A k : {t \in Table' : sessions'[t].key = k} = {t \in Table : sessions[t].key = k}
    BY <1>2, <2>1
  <2> QED
    BY <2>2 DEF Capped
<1>10. ToldToLeave'
  BY <1>2 DEF ToldToLeave, Alive
<1>11. CacheExact'
  <2>1. CASE UNCHANGED <<sessions, addr_index>>
    BY <1>2, <2>1 DEF CacheExact
  <2>2. CASE ~UNCHANGED <<sessions, addr_index>>
    <3> SUFFICES ASSUME NEW b \in Addr, addr_index'[b] \in Table
                 PROVE  sessions'[addr_index'[b]].addr = b
      BY <1>2 DEF CacheExact
    <3>1. 0 \notin Table
      BY DEF Typed, TypeOK
    <3>2. CASE b = a
      BY <1>3, <1>4, <2>2, <3>2
    <3>3. CASE b # a
      <4>1. addr_index'[b] = addr_index[b] /\ ~(b = sessions[s].addr /\ addr_index[b] = s)
        BY <1>4, <2>2, <3>1, <3>3
      <4>2. sessions[addr_index[b]].addr = b
        BY <4>1 DEF CacheExact
      <4> QED
        BY <1>2, <4>1, <4>2
    <3> QED
      BY <3>2, <3>3
  <2> QED
    BY <2>1, <2>2
<1>12. AddrAgrees'
  <2> SUFFICES ASSUME NEW x \in Table
               PROVE  LET mine == {i \in DOMAIN roams' : roams'[i].sid = x}
                      IN  /\ mine = {} => task[x].peer = sessions'[x].addr
                          /\ \A i \in mine : (\A l \in mine : l <= i)
                                               => task[x].peer = roams'[i].addr
    BY <1>2 DEF AddrAgrees
  <2> DEFINE mine == {i \in DOMAIN roams' : roams'[i].sid = x}
             was  == {i \in DOMAIN roams : roams[i].sid = x}
  <2>1. /\ was = {} => task[x].peer = sessions[x].addr
        /\ \A i \in was : (\A l \in was : l <= i) => task[x].peer = roams[i].addr
    BY DEF AddrAgrees
  <2>2. \A i \in mine : i + 1 \in was /\ roams'[i] = roams[i + 1] /\ i \in Nat
    BY <1>5
  <2>3. \A i \in was : i = 1 \/ (i - 1 \in mine /\ i \in Nat)
    BY <1>5
  <2>4. 1 \in was <=> x = s
    BY <1>5
  <2>5. ASSUME mine = {} PROVE task[x].peer = sessions'[x].addr
    <3>1. CASE x = s
      <4>1. \A l \in was : l <= 1
        BY <2>3, <2>5
      <4> QED
        BY <1>3, <1>5, <2>1, <2>4, <3>1, <4>1
    <3>2. CASE x # s
      <4>1. was = {}
        BY <2>3, <2>4, <2>5, <3>2
      <4> QED
        BY <1>2, <2>1, <3>2, <4>1
    <3> QED
      BY <3>1, <3>2
  <2>6. ASSUME NEW i \in mine, \A l \in mine : l <= i PROVE task[x].peer = roams'[i].addr
    <3>1. i \in Nat /\ i + 1 \in was
      BY <2>2
    <3>2. ASSUME NEW l \in was PROVE l <= i + 1
      <4>1. CASE l = 1
        BY <3>1, <4>1
      <4>2. CASE l # 1
        <5>1. l - 1 \in mine /\ l \in Nat
          BY <2>3, <4>2
        <5>2. l - 1 <= i
          BY <2>6, <5>1
        <5> QED
          BY <3>1, <5>1, <5>2
      <4> QED
        BY <4>1, <4>2
    <3> QED
      BY <2>1, <2>2, <3>1, <3>2
  <2> QED
    BY <2>5, <2>6
<1> QED
  BY <1>1, <1>7, <1>8, <1>9, <1>10, <1>11, <1>12

-----------------------------------------------------------------------------
(* The theorems *)

LEMMA TableInductive == DInv /\ [Next]_vars => DInv'
<1> SUFFICES ASSUME DInv, [Next]_vars PROVE DInv'
  OBVIOUS
<1>1. CASE \/ \E c \in AuthConfigs : Reload(c)
           \/ \E k \in Key : IpcRevoke(k) \/ HandleRevoke(k)
           \/ \E s \in Session : HandleDisconnect(s)
  BY <1>1, CommandKeeps
<1>2. CASE \E k \in Key : \E a \in Addr : \E spawns \in BOOLEAN : HandleHandshake(k, a, spawns)
  BY <1>2, HandshakeKeeps
<1>3. CASE \E d \in Datagram : \E to \in 0 .. created : DispatchDatagram(d, to)
  BY <1>3, DispatchKeeps
<1>4. CASE ApplyRoam
  BY <1>4, RoamKeeps
<1>5. CASE Sweep
  BY <1>5, SweepKeeps
<1>6. CASE Stop
  BY <1>6, StopKeeps
<1>7. CASE \E s \in Session : TaskStep(s)
  BY <1>7, TaskKeeps
<1>8. CASE UNCHANGED vars \/ DispatcherHeld \/ DispatcherFreed
  <2>0. UNCHANGED <<authVars, tableVars, taskVars, running>> /\ held' \in BOOLEAN
    BY <1>8 DEF vars, DispatcherHeld, DispatcherFreed, DInv, Typed, TypeOK
  <2>1. UNCHANGED <<created, task, evict, chan, roams, from, running, sessions, addr_index>>
    BY <2>0 DEF tableVars, taskVars
  <2>2. Table' = Table
    BY <2>1 DEF Table
  <2>3. Typed'
    BY <2>0, <2>2 DEF DInv, Typed, TypeOK, IdleOrder, authVars, tableVars, taskVars
  <2>4. Carried' /\ AddrAgrees' /\ RoamAuthentic' /\ Capped'
    BY <2>1, <2>2, FewerKeep
  <2>5. CacheExact' /\ ToldToLeave'
    BY <2>1, <2>2 DEF DInv, CacheExact, ToldToLeave, Alive
  <2> QED
    BY <2>3, <2>4, <2>5 DEF DInv
<1> QED
  BY <1>1, <1>2, <1>3, <1>4, <1>5, <1>6, <1>7, <1>8 DEF Next, TaskStep

LEMMA TableInvariant == Spec => []DInv
<1> QED
  BY TableInit, TableInductive, PTL DEF Spec

(* The address a tunnel answers to and the one the table has for it agree  *)
(* but for the changes still in the channel, however many are on their way *)
(* (handle_udp_datagram, the address-change branch of run_server). *)
THEOREM AddressesAgree == Spec => []AddrAgrees
<1>1. DInv => AddrAgrees
  BY DEF DInv
<1> QED
  BY <1>1, TableInvariant, PTL

(* No byte that does not decrypt moves a session, whatever its header or   *)
(* its source address says (the AEAD gate of handle_udp_datagram). *)
THEOREM RoamingIsAuthentic == Spec => []RoamAuthentic
<1>1. DInv => RoamAuthentic
  BY DEF DInv
<1> QED
  BY <1>1, TableInvariant, PTL

(* The cache never points an address at a session that is in the table     *)
(* under another one (run_server, handle_handshake, the sweep). *)
THEOREM CacheIsExact == Spec => []CacheExact
<1>1. DInv => CacheExact
  BY DEF DInv
<1> QED
  BY <1>1, TableInvariant, PTL

(* A peer never has more sessions in the table than its cap, and a tunnel  *)
(* that left the table alive has been told to close, for every cap         *)
(* (evict_oldest_peer_session). *)
THEOREM CapIsRespected == Spec => []CapRespected
<1>1. DInv => CapRespected
  BY DEF DInv, Typed, Capped, ToldToLeave, CapRespected
<1> QED
  BY <1>1, TableInvariant, PTL

=============================================================================
