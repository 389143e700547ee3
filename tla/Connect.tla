------------------------------ MODULE Connect ------------------------------
(***************************************************************************)
(* How a client gets and keeps a session: its configuration, the           *)
(* reconnection loop of run_client (daemon/mod.rs) with its stop signal    *)
(* and backoff, the handshake driver (tunnel/handshake.rs) over Noise and  *)
(* Profile, a network, and a responder that answers each message 1.        *)
(*                                                                         *)
(* The stop signal is a tokio watch channel: a value and a version; a      *)
(* receiver's changed() fires when the version is newer than the one it    *)
(* has seen, and a new receiver has seen the current one.  The tunnel that *)
(* runs on an established session is TunnelLink; here it only ends.        *)
(***************************************************************************)
EXTENDS Config, Profile, Noise

CONSTANTS
  Scenarios,    \* the ends' files and command lines; whether the network is timely
  HANDSHAKE_MAX_ATTEMPTS,
  RECONNECT_INITIAL_BACKOFF, RECONNECT_MAX_BACKOFF,
  MaxCarriers,  \* bound: connections opened
  MaxAnswers,   \* bound: messages 2 sent
  MaxStops      \* bound: stop requests

ASSUME ConnectAssumption ==
  /\ HANDSHAKE_MAX_ATTEMPTS \in Nat \ {0}
  /\ RECONNECT_INITIAL_BACKOFF \in Nat \ {0}
  /\ RECONNECT_MAX_BACKOFF \in Nat
  /\ RECONNECT_INITIAL_BACKOFF <= RECONNECT_MAX_BACKOFF
  /\ {MaxCarriers, MaxAnswers, MaxStops} \subseteq Nat

VARIABLES
  cc, sc,     \* the ends' configurations
  timely,     \* the network loses few messages and answers within HANDSHAKE_RTO
  pc,         \* where run_client is
  exit,       \* how run_client returned
  stop,       \* the watch channel: value and version
  seen,       \* the version stop_rx has seen
  tseen,      \* the version the tunnel's receiver has seen
  armed,      \* spawn_ctrl_c's task still waits for its signal
  late,       \* ghost: the last stop came between the handshake and the tunnel
  carrier,    \* number of the current carrier
  attempt, hs, \* the handshake attempt and its Noise state
  backoff, failures,  \* the next delay; ghost: failures since the last session
  est,        \* the session the client established
  counters,   \* what `rustnies status` reports
  c2s, s2c,   \* messages 1 and 2 on the network
  losses,     \* messages a timely network lost on this carrier
  sessions    \* the sessions the responder has made on this carrier

confVars == <<cc, sc, timely>>
stopVars == <<stop, armed, late>>
netVars  == <<c2s, s2c, losses, sessions>>
hsVars   == <<carrier, attempt, hs>>
vars == <<confVars, stopVars, netVars, hsVars, pc, exit, seen, tseen, backoff,
          failures, est, counters>>

(* connect_carrier and bind_carrier_listener know these. *)
Carriers == {"udp", "tcp"}

NoSession == [hash |-> <<>>]

Static(who) == <<"static", who>>

Idle == [reconnecting |-> FALSE, attempts |-> 0, error |-> "None"]

(* What the client's end makes of its file and command line. *)
ClientEnd(c) ==
  LET conf == MergeClientConfig(IF c.source.exists THEN c.file ELSE <<>>, c.cli)
      end  == FromRoleConfig(conf)
  IN  [kind |-> c.kind, loads |-> Loads(c.source),
       key |-> conf.key_path # "", server |-> conf.server, server_pub |-> conf.server_key,
       reconnect |-> conf.reconnect, carrier |-> conf.carrier.name,
       obfuscation |-> conf.obfuscation, kex |-> end.kex, propose |-> end.propose,
       envelope |-> end.envelope, tag |-> end.tag, congestion |-> end.congestion,
       names |-> end.names]

(* The server, with the peers it allows: `up` when run_server gets to its  *)
(* loop. *)
ServerEnd(c) ==
  LET conf == MergeServerConfig(c.file, c.cli)
      end  == FromRoleConfig(conf)
  IN  [kind |-> c.kind, allows |-> c.allows, carrier |-> conf.carrier.name,
       obfuscation |-> conf.obfuscation, kex |-> end.kex, propose |-> end.propose,
       envelope |-> end.envelope, tag |-> end.tag, congestion |-> end.congestion,
       names |-> end.names,
       up |-> conf.key_path # "" /\ conf.carrier.name \in Carriers /\ ValidConfig(end)]

Init ==
  /\ \E n \in Scenarios :
       cc = ClientEnd(n.client) /\ sc = ServerEnd(n.server) /\ timely = n.timely
  /\ pc = "Start" /\ exit = "None"
  /\ stop = [value |-> FALSE, version |-> 0] /\ seen = 0 /\ tseen = 0
  /\ armed = TRUE /\ late = FALSE
  /\ carrier = 0 /\ attempt = 0 /\ hs = Failed
  /\ backoff = RECONNECT_INITIAL_BACKOFF /\ failures = 0
  /\ est = NoSession /\ counters = Idle
  /\ c2s = {} /\ s2c = {} /\ losses = 0 /\ sessions = {}

-----------------------------------------------------------------------------
(* The stop signal *)

Send(st) == [value |-> TRUE, version |-> st.version + 1]

(* Request::Stop of the IPC socket, and Ctrl+C, whose task ends with it. *)
IpcStop ==
  /\ pc \notin {"Start", "Exited"} /\ stop.version < MaxStops
  /\ stop' = Send(stop)
  /\ late' = (pc = "Established")
  /\ UNCHANGED <<confVars, armed, netVars, hsVars, pc, exit, seen, tseen, backoff,
                 failures, est, counters>>

CtrlC ==
  /\ pc \notin {"Start", "Exited"} /\ stop.version < MaxStops /\ armed
  /\ stop' = Send(stop) /\ armed' = FALSE
  /\ late' = (pc = "Established")
  /\ UNCHANGED <<confVars, netVars, hsVars, pc, exit, seen, tseen, backoff,
                 failures, est, counters>>

(* stop_rx.changed() is ready. *)
Changed == seen # stop.version

(* The tests of *stop_rx.borrow() in the loop and in sleep_or_stop. *)
Stopped == stop.value

-----------------------------------------------------------------------------
(* run_client: the loop *)

(* Up to the loop: a configuration that does not load or resolve ends it.  *)
(* The name of the carrier is not looked at here. *)
Start ==
  /\ pc = "Start"
  /\ IF /\ cc.loads /\ cc.server_pub \notin {"", "unreadable"}
        /\ cc.key /\ ValidConfig(cc)
       THEN pc' = "Top" /\ UNCHANGED exit
       ELSE pc' = "Exited" /\ exit' = "Err"
  /\ UNCHANGED <<confVars, stopVars, netVars, hsVars, seen, tseen, backoff,
                 failures, est, counters>>

Leave(how) == pc' = "Exited" /\ exit' = how

StopAtTop ==
  /\ pc = "Top" /\ Stopped
  /\ Leave("Ok")
  /\ UNCHANGED <<confVars, stopVars, netVars, hsVars, seen, tseen, backoff,
                 failures, est, counters>>

(* What a failure of the carrier or of the handshake does. *)
Disconnected(why) ==
  /\ counters' = [reconnecting |-> TRUE, attempts |-> counters.attempts + 1, error |-> why]
  /\ failures' = failures + 1
  /\ IF cc.reconnect THEN pc' = "Sleep" /\ UNCHANGED exit ELSE Leave("Err")

(* connect_carrier: a new port, or a new connection.  What is under way on *)
(* the old one cannot reach the client any more. *)
OpenCarrier ==
  /\ pc = "Top" /\ ~Stopped /\ carrier < MaxCarriers /\ cc.carrier \in Carriers
  /\ pc' = "Handshake"
  /\ carrier' = carrier + 1 /\ attempt' = 0 /\ hs' = Failed
  /\ c2s' = {} /\ s2c' = {} /\ losses' = 0 /\ sessions' = {}
  /\ UNCHANGED <<confVars, stopVars, exit, seen, tseen, backoff, failures, est, counters>>

CarrierFails ==
  /\ pc = "Top" /\ ~Stopped /\ carrier < MaxCarriers
  /\ ~timely \/ cc.carrier \notin Carriers
  /\ carrier' = carrier + 1
  /\ Disconnected("bind failed")
  /\ UNCHANGED <<confVars, stopVars, netVars, attempt, hs, seen, tseen, backoff, est>>

(* A bug: the stop is taken off the channel and the handshake goes on. *)
StopInHandshakeSwallowed ==
  /\ pc = "Handshake" /\ Changed
  /\ seen' = stop.version
  /\ UNCHANGED <<confVars, stopVars, netVars, hsVars, pc, exit, tseen, backoff, failures,
                 est, counters>>

(* The select around the handshake is biased: a stop is seen first. *)
StopInHandshake ==
  /\ pc = "Handshake" /\ Changed
  /\ seen' = stop.version
  /\ counters' = [counters EXCEPT !.reconnecting = FALSE]
  /\ Leave("Ok")
  /\ UNCHANGED <<confVars, stopVars, netVars, hsVars, tseen, backoff, failures, est>>

InHandshake == pc = "Handshake" /\ ~Changed

HandshakeFails(why) ==
  /\ Disconnected(why)
  /\ UNCHANGED <<attempt, hs>>

(* A bug: the delay is not limited. *)
DoubledUnbounded(d) == d * 2

Doubled(d) == Min({d * 2, RECONNECT_MAX_BACKOFF})

(* sleep_or_stop after a failure, and after a session, which does not      *)
(* change the backoff. *)
SleepEnds ==
  /\ pc \in {"Sleep", "Pause"} /\ ~Stopped
  /\ pc' = "Top"
  /\ backoff' = IF pc = "Sleep" THEN Doubled(backoff) ELSE backoff
  /\ UNCHANGED <<confVars, stopVars, netVars, hsVars, exit, seen, tseen, failures,
                 est, counters>>

StopInSleep ==
  /\ pc \in {"Sleep", "Pause"} /\ Stopped
  /\ Leave("Ok")
  /\ seen' \in {seen, stop.version}
  /\ UNCHANGED <<confVars, stopVars, netVars, hsVars, tseen, backoff, failures, est,
                 counters>>

-----------------------------------------------------------------------------
(* handshake::client *)

Ephemeral == <<"client", carrier, attempt + 1>>

(* The offer: nothing without `propose`.  An older client's ends before    *)
(* the codecs, a newer one's has a version this build does not know. *)
OfferBytes ==
  LET o == EncodeOffer(OfferOf(cc.names))
  IN  CASE ~cc.propose -> <<>>
        [] cc.propose /\ cc.kind = "this"  -> o
        [] cc.propose /\ cc.kind = "older" -> SubSeq(o, 1, Len(o) - Len(EncodeList(OfferOf(cc.names).frame)))
        [] cc.propose /\ cc.kind = "newer" -> [o EXCEPT ![1] = 2]

(* What the envelope and the obfuscation stack do to a handshake message:  *)
(* they come off at an end that has the same. *)
Wrapping(c) == <<HandshakeEnvelope(c), c.obfuscation>>

(* One attempt begins: a new Noise state, and message 1. *)
SendMessage1 ==
  /\ InHandshake /\ hs = Failed /\ attempt < HANDSHAKE_MAX_ATTEMPTS
  /\ LET w == WriteMessage1(NewState(Static("client"), Static(cc.server_pub)),
                            Ephemeral, OfferBytes)
     IN  /\ hs' = w.state
         /\ c2s' = c2s \cup {[attempt |-> attempt + 1, wrapping |-> Wrapping(cc),
                              msg |-> w.msg]}
  /\ attempt' = attempt + 1
  /\ UNCHANGED <<confVars, stopVars, s2c, losses, sessions, carrier, pc, exit, seen, tseen,
                 backoff, failures, est, counters>>

(* carrier.send fails: the driver returns at once. *)
SendFails ==
  /\ InHandshake /\ hs = Failed /\ attempt < HANDSHAKE_MAX_ATTEMPTS /\ ~timely
  /\ HandshakeFails("io")
  /\ UNCHANGED <<confVars, stopVars, netVars, carrier, seen, tseen, backoff, est>>

GiveUp ==
  /\ InHandshake /\ hs = Failed /\ attempt = HANDSHAKE_MAX_ATTEMPTS
  /\ HandshakeFails("timeout")
  /\ UNCHANGED <<confVars, stopVars, netVars, carrier, seen, tseen, backoff, est>>

Awaiting == InHandshake /\ hs # Failed

(* A bug: the handshake is not tried again. *)
AttemptLostGivesUp ==
  /\ Awaiting
  /\ timely => \A w \in c2s \cup s2c : w.attempt # attempt
  /\ HandshakeFails("timeout")
  /\ UNCHANGED <<confVars, stopVars, netVars, carrier, seen, tseen, backoff, est>>

(* Nothing within HANDSHAKE_RTO; or what came is from another address, not *)
(* in the envelope, too short, or a receive error. *)
AttemptLost ==
  /\ Awaiting
  /\ timely => \A w \in c2s \cup s2c : w.attempt # attempt
  /\ hs' = Failed
  /\ UNCHANGED <<confVars, stopVars, netVars, carrier, attempt, pc, exit, seen, tseen,
                 backoff, failures, est, counters>>

(* suite_schedule: the default for a cipher this build does not know. *)
Schedule(sel) ==
  IF sel # Malformed /\ Buildable("cipher", sel.cipher) THEN sel.cipher ELSE Defaults.cipher

(* An older client does not look past the bytes it knows. *)
ReadSelection(b) ==
  DecodeSelection(IF cc.kind = "older" THEN SubSeq(b, 1, SELECTION_LEGACY_LEN) ELSE b)

(* The session an end makes of the keys and the selection. *)
SessionOf(end, sel, hash, send, recv) ==
  [hash |-> hash, send |-> send, recv |-> recv, profile |-> Resolved(sel, end),
   selection |-> sel]

ClientSession(sel, keys) == SessionOf(cc, sel, keys.hash, keys.i2r, keys.r2i)

(* client_finalize: the session, or Failed.  A selection that this build   *)
(* cannot run is refused. *)
Checked(sel, state) ==
  IF Check(sel) THEN ClientSession(sel, Split(state, Schedule(sel))) ELSE Failed

Finalize(r) == IF r = Failed THEN Failed ELSE Checked(ReadSelection(r.payload), r.state)

(* An answer arrives, of this attempt or an earlier one.  One that does    *)
(* not finalize uses the attempt up; a selection this build cannot run is  *)
(* among those. *)
Answer(w) ==
  /\ Awaiting
  /\ s2c' \in {s2c \ {w}} \cup (IF timely THEN {} ELSE {s2c})
  /\ LET e == IF w.wrapping = Wrapping(cc) THEN Finalize(ReadMessage2(hs, w.msg)) ELSE Failed
     IN  IF e = Failed
           THEN /\ hs' = Failed
                /\ UNCHANGED <<pc, est, backoff, failures, counters>>
           ELSE /\ pc' = "Established" /\ est' = e /\ hs' = Failed
                /\ backoff' = RECONNECT_INITIAL_BACKOFF /\ failures' = 0
                /\ counters' = Idle
  /\ UNCHANGED <<confVars, stopVars, c2s, losses, sessions, carrier, attempt, exit, seen, tseen>>

-----------------------------------------------------------------------------
(* respond_message_1 and the session handle_handshake makes of it.  A      *)
(* responder of another build is given by its payload. *)

Payload(sel) ==
  CASE sc.kind = "this"   -> EncodeSelection(sel)
    [] sc.kind = "older"  -> SubSeq(EncodeSelection(sel), 1, SELECTION_LEGACY_LEN)
    [] sc.kind = "phase1" -> <<>>
    [] sc.kind = "newer"  -> EncodeSelection(sel)
    [] sc.kind = "next"   -> [EncodeSelection(sel) EXCEPT ![1] = 2]

OfBuild(n) ==
  CASE sc.kind = "this"   -> n
    [] sc.kind = "older"  -> [n EXCEPT !.frame = FRAME_V1_FIXED]
    [] sc.kind = "phase1" -> Defaults
    [] sc.kind = "newer"  -> [n EXCEPT !.frame = 9]
    [] sc.kind = "next"   -> n

Selects(offer) == OfBuild(Negotiate(sc, offer))

(* Somebody listens where, and on what, the client sends. *)
Reached == sc.up /\ cc.server = "server" /\ cc.carrier = sc.carrier

(* Message 2 and the responder's session, its keys crossed over. *)
Answered(sel, msg, keys) ==
  [msg |-> msg, session |-> SessionOf(sc, sel, keys.hash, keys.r2i, keys.i2r)]

Sealed2(sel, out) == Answered(sel, out.msg, Split(out.state, Schedule(sel)))

Message2(r, sel) ==
  IF sel = Malformed THEN Failed
  ELSE Sealed2(sel, WriteMessage2(r.state, <<"server", Cardinality(sessions) + 1>>, Payload(sel)))

(* Authorization comes before the offer is read. *)
Authorized(r) ==
  IF r = Failed THEN Failed
  ELSE IF ~sc.allows THEN Failed
  ELSE Message2(r, Selects(r.offer))

(* A build that predates the offer takes all that follows the ephemeral    *)
(* for the sealed static key, which then does not open. *)
TooLong(msg) == sc.kind = "phase1" /\ msg.offer # <<>>

(* What message 1 yields: message 2 and a session, or Failed. *)
Respond(w) ==
  IF ~Reached \/ w.wrapping # Wrapping(sc) \/ TooLong(w.msg) THEN Failed
  ELSE Authorized(ReadMessage1(NewState(Static("server"), <<>>), w.msg))

(* A message 1 may be answered again while copies of it are about. *)
RespondMessage1(w) ==
  /\ Cardinality(sessions) < MaxAnswers
  /\ c2s' \in {c2s \ {w}} \cup (IF timely THEN {} ELSE {c2s})
  /\ LET r == Respond(w)
     IN  IF r = Failed
           THEN c2s' # c2s /\ UNCHANGED <<s2c, sessions>>
           ELSE /\ s2c' = s2c \cup {[attempt |-> w.attempt, wrapping |-> Wrapping(sc), msg |-> r.msg]}
                /\ sessions' = sessions \cup {r.session}
  /\ UNCHANGED <<confVars, stopVars, hsVars, losses, pc, exit, seen, tseen, backoff, failures,
                 est, counters>>

(* A timely network, too, loses messages, but not one of every attempt.    *)
(* One that is not may leave a message about for ever. *)
Lose ==
  /\ timely /\ losses < HANDSHAKE_MAX_ATTEMPTS - 1
  /\ \E w \in c2s \cup s2c : c2s' = c2s \ {w} /\ s2c' = s2c \ {w}
  /\ losses' = losses + 1
  /\ UNCHANGED <<confVars, stopVars, hsVars, sessions, pc, exit, seen, tseen, backoff,
                 failures, est, counters>>

-----------------------------------------------------------------------------
(* The session runs *)

(* Tunnel::from_handshake, the reader task, and the tunnel's own receiver  *)
(* of the stop signal.  The profile always resolves here: the selection    *)
(* was checked. *)
StartTunnel ==
  /\ pc = "Established"
  /\ pc' = "Running"
  /\ tseen' = stop.version
  /\ UNCHANGED <<confVars, stopVars, netVars, hsVars, exit, seen, backoff, failures,
                 est, counters>>

(* After tunnel.run: publish, and leave, or sleep and try again. *)
Ended(why) ==
  /\ counters' = IF why = "Stopped" \/ Stopped
                   THEN [counters EXCEPT !.reconnecting = FALSE, !.error = "None"]
                   ELSE [reconnecting |-> TRUE, attempts |-> counters.attempts + 1, error |-> why]
  /\ IF Stopped \/ ~cc.reconnect THEN Leave("Ok") ELSE pc' = "Pause" /\ UNCHANGED exit
  /\ est' = NoSession

TunnelStops ==
  /\ pc = "Running" /\ tseen # stop.version
  /\ tseen' = stop.version
  /\ Ended("Stopped")
  /\ UNCHANGED <<confVars, stopVars, netVars, hsVars, seen, backoff, failures>>

(* The session timeout, a Close of the peer, a dead TUN device. *)
TunnelEnds ==
  /\ pc = "Running"
  /\ Ended("session over")
  /\ UNCHANGED <<confVars, stopVars, netVars, hsVars, seen, tseen, backoff, failures>>

-----------------------------------------------------------------------------

Client ==
  \/ Start
  \/ StopAtTop \/ OpenCarrier
  \/ StopInHandshake \/ SendMessage1 \/ GiveUp
  \/ \E w \in s2c : Answer(w)
  \/ AttemptLost
  \/ SleepEnds \/ StopInSleep
  \/ StartTunnel \/ TunnelStops

Faults == CarrierFails \/ SendFails \/ TunnelEnds \/ Lose

Next ==
  \/ Client
  \/ Faults
  \/ \E w \in c2s : RespondMessage1(w)
  \/ IpcStop \/ CtrlC

Spec == Init /\ [][Next]_vars

(* A step of the client is enabled. *)
Ready ==
  \/ pc \in {"Start", "Established", "Sleep", "Pause"}
  \/ pc = "Top" /\ (Stopped \/ (carrier < MaxCarriers /\ cc.carrier \in Carriers))
  \/ pc = "Handshake" /\ (\/ Changed \/ hs = Failed \/ ~timely
                          \/ s2c # {} \/ \A w \in c2s : w.attempt # attempt)
  \/ pc = "Running" /\ tseen # stop.version

(* A step of the responder is. *)
Deliverable == timely /\ c2s # {} /\ Cardinality(sessions) < MaxAnswers

(* The runtime polls the daemon's task when something is ready, a timer    *)
(* included; a timely network delivers what it does not lose.  Both are    *)
(* weak fairness, written out.  Whether a stop is ever asked for, a        *)
(* carrier fails, a message is lost or a session ends is left open. *)
FairSpec ==
  /\ Spec
  /\ []<>~Ready \/ []<><<Client>>_vars
  /\ []<>~Deliverable \/ []<><<\E w \in c2s : RespondMessage1(w)>>_vars

-----------------------------------------------------------------------------

TypeOK ==
  /\ pc \in {"Start", "Top", "Handshake", "Established", "Running", "Sleep", "Pause",
             "Exited"}
  /\ exit \in {"None", "Ok", "Err"} /\ (pc = "Exited" <=> exit # "None")
  /\ stop \in [value : BOOLEAN, version : 0 .. MaxStops]
  /\ seen \in 0 .. stop.version /\ tseen \in 0 .. stop.version
  /\ carrier \in 0 .. MaxCarriers /\ attempt \in 0 .. HANDSHAKE_MAX_ATTEMPTS
  /\ backoff \in Nat /\ losses \in 0 .. HANDSHAKE_MAX_ATTEMPTS - 1
  /\ pc \in {"Established", "Running"} <=> est # NoSession

(* The client's session is one the responder has: the same transcript, the *)
(* same keys crossed over, and the same cipher, envelope, erasure code and *)
(* codec, whichever attempt the answer was for and although one of the     *)
(* ends may be of another build ("the two ends agree and can build         *)
(* identical profiles", run_client).  Not among them: an older client that *)
(* does not propose, at a server that lists v2-tlv first, which            *)
(* doc/profiles.md leaves to the operator. *)
EndsAgree ==
  /\ TypeOK
  /\ est # NoSession =>
       \E s \in sessions :
         /\ s.hash = est.hash
         /\ s.send = est.recv /\ s.recv = est.send
         /\ s.profile = est.profile

(* The operator's order decides: of the parts both ends configured the     *)
(* session runs the one the server lists first (negotiate), whatever the   *)
(* client's order and through both encodings. *)
ServerOrderDecides ==
  est # NoSession /\ cc.kind = "this" /\ sc.kind = "this" /\ cc.propose =>
    \A p \in Part :
      LET mine   == CandidateIds(sc.names, p)
          common == {i \in DOMAIN mine : mine[i] \in Range(CandidateIds(cc.names, p))}
      IN  common # {} => est.selection[p] = mine[Min(common)]

(* A stop request ends the daemon, wherever the loop is, unless it came    *)
(* after the handshake and before the tunnel asked for its own receiver:   *)
(* "a stop request takes effect promptly" (run_client). *)
StopHonoured == (stop.value /\ ~late) ~> (pc = "Exited")

(* A running tunnel has yet to see any stop there was: the same sentence   *)
(* of run_client, without the exception. *)
StopNotMissed == pc = "Running" /\ stop.value => tseen # stop.version

(* A client whose keys, envelope and profile fit gets its session, unless  *)
(* it is stopped first, although all its attempts but one go unanswered    *)
(* (client, respond_message_1); the answers that come are in time.  A      *)
(* client that proposes does not fit a server that predates the offer:     *)
(* there "the whole message fails" (doc/profiles.md). *)
CanConnect ==
  /\ timely /\ Reached /\ sc.allows /\ cc.server_pub = "server"
  /\ Wrapping(cc) = Wrapping(sc)
  /\ sc.kind \in {"this", "older"} \/ (sc.kind = "phase1" /\ ~cc.propose)

Connects == (pc = "Handshake" /\ CanConnect) ~> (pc \in {"Established", "Exited"})

PowerOfTwo[n \in Nat] == IF n = 0 THEN 1 ELSE 2 * PowerOfTwo[n - 1]

(* The delay before the n-th try after n failures in a row is the initial  *)
(* one doubled that often, up to the limit; a session resets it            *)
(* (run_client). *)
BackoffLaw ==
  pc = "Sleep" =>
    backoff = Min({RECONNECT_INITIAL_BACKOFF * PowerOfTwo[failures - 1],
                   RECONNECT_MAX_BACKOFF})

(* An incompatible server "fails the handshake with a readable error"      *)
(* (tunnel/handshake.rs): a client that read a selection it cannot run     *)
(* does not report a timeout. *)
IncompatibleReported ==
  [][counters'.error = "timeout" /\ counters.error # "timeout" => sc.kind \notin {"newer", "next"}]_vars

=============================================================================
