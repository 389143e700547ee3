# A TLA+ model of rustnies

rustnies is a VPN over UDP (or TCP): a client and a multi-client server, joined
by tunnels that encrypt, pace, acknowledge and protect IP packets with forward
error correction. This directory holds TLA+ modules translated from its source,
TLC configurations that check them on small instances, and proofs that TLAPS
checks. `PROJECT.json` lists components, runs, mutants, the source lines behind
each definition, findings, hazards and theorems.

    tlc -config Tunnel.cfg MCTunnelLink   # any run: cfg and module of PROJECT.json
    tlapm SessionRxProofs.tla             # any proof module

## The system

| Component | State it keeps | Operations | Correct when | Modules |
|---|---|---|---|---|
| session bookkeeping (`protocol/session.rs`) | next sequence number, replay window, ack tracker, peer's last advertisement | `alloc_seq`, `check_and_record`, `record`, `observe_acks`, `peer_acked` | control acts once; advertisements are exact; acks believed are true | Session, SessionRx |
| congestion control (`congestion/tcp.rs`) | cwnd, ssthresh, bytes in flight, pacer deadline | reserve, refund, ack, release, loss | bytes in flight are those of undecided packets | Congestion, TunnelLink |
| tunnel engine (`tunnel/mod.rs`) | the above, sent packets, outstanding control, parked packet, FEC groups | one select loop: TUN, datagrams, six timers, stop, evict | every packet's fate is decided; exits are honest | TunnelLink, FecLink, Wire |
| FEC (`fec/`) | TX group, RX groups by u16 id, adaptive parity count | group, encode, record, recover, suppress, evict; observe | each packet once; recovery genuine, and total for any k symbols of one length | ReedSolomon, AdaptiveFec, FecLink |
| frame codecs (`protocol/frame.rs`, `header.rs`) | none | encode, parse, peek | what was sealed is what is opened | Wire |
| obfuscation, envelope (`obfuscation/`, `transport/`) | the layer stack, a keystream per session | apply, reverse, wrap, unwrap | inverse of each other | Wire |
| carriers (`carrier/mod.rs`) | bytes read and not yet used | send, receive, accept | a stream hands on whole messages in order | Wire, Channels |
| profile negotiation (`protocol/profile.rs`) | configured names | offer, negotiate, check, resolve | both ends build one profile; the server's order decides | Profile, Connect |
| handshake (`tunnel/handshake.rs`, `crypto/noise.rs`) | one attempt's Noise state | attempt, timeout, respond, finalize | both ends have the same keys; a fitting client connects | Noise, Connect |
| client daemon (`daemon/mod.rs`) | stop watch, backoff, current session, host guards | connect, reconnect, stop | a stop is never lost; guards are all held while running | Connect, HostGuards |
| server dispatcher (`tunnel/server.rs`) | session table, address cache, channels, learned tunnel addresses, probe limiter | route, handshake, roam, control, sweep, stop | a session follows its own client; the cap holds; evicted sessions go; no wait is for ever | ServerDispatch, Channels |
| peer authorization (`tunnel/peers.rs`), operator interface (`ipc/`) | listed keys, open flag, denylist | check, revoke, disconnect, reload, stop | a revoked key is out; what is acknowledged has happened | ServerDispatch |
| host guards (`platform/linux.rs`) | routes, bypass table, firewall chains, NAT rules and `resolv.conf` of the host | install, undo, drop, each command by command | fail closed; nothing lost or left behind over crashes | HostGuards |
| configuration (`config.rs`, `cli.rs`) | none | load, merge | the command line wins over the file over the defaults | Config |

Interactions. On the client, the daemon runs the handshake and then one tunnel
over its carrier. On the server, one dispatcher task owns the table; each
session is a tunnel task that gets datagrams (bounded channel), TUN packets
(bounded channel) and an eviction signal (unbounded), and posts TUN packets
(shared bounded channel) and address changes (unbounded) back. The IPC task
edits `PeerAuth` under a mutex and sends commands to the dispatcher; SIGHUP
replaces the peer list under the same mutex. A tunnel's select is unbiased, so
any ready branch may win.

What is hard here: the network loses, repeats and reorders; u32 and u16 counters
wrap; the parity count moves while groups are open; sends fail after the window
was reserved; a late original races its own recovery; revocation, reload,
handshake, eviction, roaming and shutdown interleave between three kinds of
tasks, which wait for each other through bounded channels; teardown is a signal,
a dropped handle and a later sweep, in a race; an answer may be to an earlier
attempt; builds of different age negotiate; streams are read in pieces; and the
client changes its host by dozens of commands, between any two of which it may
die.

## Modules

`Session`, `Congestion`, `ReedSolomon`, `AdaptiveFec`, `Config`, `Profile` and
`Noise` are operators only; the others have state. Recursion is written as
recursive functions and folds throughout, so that every module can be proved
about.

**Session** translates `protocol/session.rs`. Bitmaps are sets of bit numbers.
The modulus, window and bitmap widths are constants (2^32, 64, 32 in the code).
The replay window compares without wrap, the ack tracker with, as in the source.

**SessionRx** is one direction of a session: `PeerSend` numbers a packet,
`Receive(p)` takes any packet ever sent, again and again, in any order. Ghost
packet numbers that never wrap let the properties speak of packets. One
assumption on the network, `WithinLifetime`: no packet is overtaken by half the
sequence space (2^31 packets) before it arrives.

**Congestion** is the byte window of `congestion/tcp.rs`.

**TunnelLink** is two `Tunnel`s and a network. An action is one branch of the
select loop with all it calls; only the parity loop of `flush_fec_group` is cut
into steps, and it excludes the end's other branches. `held` is "the pacer's
deadline lies ahead". Expiry is by age, so a reconciliation sees some prefix
(`cut`) of what is in flight, in sending order, as expired. The sealed packets
of each end are bounded by `MaxPkts`; a handler that must seal beyond the bound
does not run. Datagrams that fail to decrypt change nothing and are left out.
A best-effort send that the carrier refuses equals a lost datagram. An end leaves
by its peer's Close or by one of its `Arms`: stop, timeout, eviction, a lost
device or datagram source. `exit` is the arm; `TunnelExit` what it reports.

**ReedSolomon** is `fec/gf256.rs` and `fec/reed_solomon.rs` on real bytes: the
tables of powers and logarithms, elimination with its pivot search, the
systematic generator from a Vandermonde matrix, `encode` and `decode` with their
refusals. **AdaptiveFec** is the controller of the parity count; its loss ratios
are in thousandths, rounded down.

**DatagramService** is the abstract promise: what is written at the far TUN
device was offered, and what was sent with parity is written at most once.
**FecLink** is grouping, parity, recovery and suppression end to end. The erasure
code is its parameter (the constants `Encode` and `DecodeSymbols`, the trait
`FecScheme`): `MCFecLink` supplies ReedSolomon's `Parity` and `Decode`;
AdaptiveFec gives its parity count. It implements the service by `INSTANCE DatagramService WITH offered <- Offered` (the other
variables keep their names). Packets have distinct bytes, so a wrong recovery
shows as bytes that nobody sent. Eviction of a group assumes that its datagrams
have left the network by then (5 s after its last packet).

**ServerDispatch** is the dispatcher with its table, address cache and channels,
the tunnel tasks as the dispatcher sees them, `PeerAuth`, and the operator. Idle
order, a set of pairs of sessions, replaces `last_forwarded` timestamps. Sessions are numbered in the order
of their handshakes. A datagram may decrypt for a session or for none, and what
`peek_routed_session` reads from it is a free choice, so that misrouted and
made-up bytes reach the tasks. Where an arm awaits room in a channel, or message 1
of a stream connection, the dispatcher is `held`, and a task may be so after each
packet it took; nothing says that a wait ends. `spawns` is whether profile and tunnel can be built after
message 2 went out: eviction for the cap happens first, as in the code.

**Channels** is the same dispatcher seen from its queues: where it waits (`disp`),
the two channels of each session, the shared aggregator, learned tunnel
addresses and return routing, the probe limiter with a clock, and stream
connections. `ServerDispatch` says who may have a session and where it is;
`Channels` who waits for whom. A scene picks what may happen in a behaviour, so
that one run covers traffic, reconnects, the limiter and a stream server without
their product. The ghost `ideal` is a token bucket in ticks of the clock.

**Config** is the merge of defaults, file and command line for the settings that
other modules read; `HostGuards` and `Connect` start from what it yields.
**Profile** is `protocol/profile.rs`: names and ids, preferences, both encodings
as numbers, negotiation and the resolved profile. **Noise** is the IK exchange
with symbolic cryptography: a hash is what went into it, a Diffie-Hellman result
the pair of keys, and a ciphertext opens under exactly its key, nonce and
associated data. **Connect** composes the three with the client's loop, its watch
channel (a value and a version; a new receiver has seen the current one), the
handshake driver, a network and a responder. Builds of other age are modelled by
the payloads they send and read; a server that predates the offer cannot read a
message 1 that carries one (`TooLong`). A `timely` network delivers each message
once and in time, except that it may lose (`Lose`) one message less than a
handshake has attempts; any other loses, repeats and delays.

**Wire** is the way of a packet to bytes and back: both codecs, the layer stack,
envelopes, carriers, the dispatcher's peek, and what a tunnel opens. A byte is a
value and the set of keystream bytes laid over it, so XOR cancels exactly and a
byte under a foreign keystream has no value; that a wrong keystream makes a
valid header by chance (1/255, as `doc/architecture.md` says) is left out. The
profile is the one `Profile` negotiates for the scenario. What is longer than a
carrier takes (`STREAM_MAX_MESSAGE`) is not sent. A datagram is handed to any
session or to none: which one is a matter of the peek, about which `PeekRight`
speaks, and of the addresses, which are `ServerDispatch`'s.

**HostGuards** is what the client does to its host. The host's state outlives
the process; `Start`, `Crash`, `Stop`, `SessionEnds` (reconnection is off) and
`Fail` are the process's life, and `stages` the guards that are left to install or
to drop, taken in the `Order` of `run_client`: `InstallOrder`, after its loop
`StopOrder` (as written), otherwise `UnwindOrder` (the reverse of declaration). A
guard is a program, a sequence of operations, run one command at a time: a chain
operation on `"both"` families is iptables and then, if that worked, ip6tables.
A failing command is either impossible in the kernel's state (a chain exists, a
jump is missing, "File exists") or a fault, of which there are at most
`MaxFaults`. What a guard tolerates, undoes or gives up on is as in the source.
The rules of a chain are counted, the last one being its REJECT; a file write is
a truncation and then the content, and a read of `resolv.conf` that fails counts
as an empty file (`ReadFails`).

The **MC** modules give the instances their constants: shapes of FEC groups,
scenes, configuration files and command lines, layer stacks. The theorems are in
**SessionRxProofs**, **TunnelLinkProofs**, **FecLinkProofs**,
**ServerDispatchProofs**, **ChannelsProofs**, **ConnectProofs**, **WireProofs** and
**HostGuardsProofs**. Operators introduced by "A bug:"
comments are mutants: wrong versions of the definition after them, used to
confirm that each property notices. A module's `TypeOK` is a conjunct of one of
its checked invariants where it is not checked by itself.

## Runs

| Run | Shows | Bounds |
|---|---|---|
| SessionWrap | control at most once, exact advertisement, across a wrap; no new control packet refused before it | 12 packets, sequence numbers modulo 9, window and bitmap of 3 |
| Tunnel | bytes in flight match the ledger; acks are true; PeerClosed means an eviction or a peer that closed; packets are resolved, the parked packet leaves | groups of two with one parity, an oversized packet, pings, stop, eviction and a failing device; window of 4 bytes, minimum 2; 3 packets one way, 1 the other |
| Fec | any K symbols of one length suffice; nothing made up; only duplicates withheld; refines the datagram service | K = 1 with the adaptive count moving in 0 .. 2 (3 packets), K = 2 with two parities (4 packets of one length, 3 of two lengths), scheme off, invalid settings, initial above maximal parity |
| DispatchRevoke | a revoked key's sessions are told to go, no new one comes, and if waits end they are gone | one key, all reloads in restricted mode, 2 sessions, every arm may wait |
| DispatchRoam | table and cache follow authentic datagrams; the cap holds | two keys, two addresses, cap 1, 2 sessions, shutdown; keys and addresses symmetric |
| Channels | the limiter keeps its rate; return traffic is complete, in order and the owner's; backpressure and a stop end | channels of one, 2 sessions, 4 packets; three sources, burst 2, cap 2 |
| Connect | both ends agree; the server's order decides; backoff law; stops are honoured; fitting clients connect although attempts are lost | 16 clients and 10 servers (files, flags, builds), three connections of two attempts, two answers, two stops, one loss of a timely network |
| Wire | packets open as sealed and only in their session; the peek is never wrong, and right where it can look; streams are in order and delivered to the client | 5 stacks, 6 servers, both codecs and carriers; two sessions, two packets, two lengths around the padding buckets, reads of 7 or 50 bytes |
| HostGuards | guards held block in both families; no doubled jumps; refused starts clean up; `resolv.conf` is kept; no routing loop; leaving the loop restores the host | three starts of three configurations, crashes anywhere, one fault of a command, a write or a read, two rules per chain and family |

The bounds are chosen so that the rare case happens: the sequence numbers wrap,
windows slide past a hole, the congestion window fills, shrinks under what is in
flight and drops parity, a group is partly received, recovered and then
completed, a session is evicted while its task is starting, while datagrams are
in its channel, and while its address change is queued; both channels of the
circular wait are full at once; a message of a stream lies across two reads; an
answer arrives in the attempt after its own, and an attempt after a lost one
succeeds; the client fails, has a session and fails again; a bucket is empty, refilled, purged
and locked out by the global cap; a start finds what a crashed removal and a
crashed install left, one after the other. Deadlock is not checked
(`CHECK_DEADLOCK FALSE`): a bounded run ends when all packets are sealed, all
sessions have ended or the daemon has exited; where a wait could be for ever, a
liveness property speaks of it.

Fairness. Each is weak fairness of a step the runtime owes, or, where TLC would
spend its time on `ENABLED`, the same with the condition written out.

- `TunnelLink`: timers come round (`PacerCredit`, `CheckRetransmits` once
  something can have expired), a parity burst goes on and a due retry is polled.
  tokio's intervals and the unbiased select justify it; the network and the
  traffic get none.
- `ServerDispatch`: a spawned task is started (weak); the dispatcher's control and
  sweep arms and a task's eviction and stop arms have strong fairness, for waits
  inside other arms come and go and the select is unbiased. No wait is assumed to
  end: `RevokedGone` has that as its hypothesis, and `Channels` shows the waits
  that do not.
- `Channels`: a task that can go on does, and an awaited send with room
  completes. The dispatcher's stop branch has strong fairness: the select is
  unbiased ("no biased here on purpose"), so a branch that is ready at every
  round is taken although others are too. Nobody owes the server a packet, a
  message or a timeout.
- `Connect`: the daemon's task is polled when something, a timer included, is
  ready (`Ready`); a timely network delivers what it does not lose
  (`Deliverable`). Stops, failures, losses and the ends of sessions are free.
- `Wire`: the reader of a connection is polled when bytes are there. That is the
  reader a client spawns; a server spawns none (StreamServer).

### Disagreements with the documentation

Runs that expect a violation; `PROJECT.json` quotes the line each contradicts.

| Run | What the code does |
|---|---|
| FecMidGroupBounds | parity count raised inside a group: index out of bounds at the receiver |
| OpenRevoke | in open mode a revoked key reconnects |
| StreamServer | on a stream carrier nothing reads a connection after message 1 |

Met while modelling. Where a property of a passing run touches one of these it
claims no more than the code does, and its comment says what the documentation
has beyond that:

- A tunnel that was evicted reports `PeerClosed` (`tunnel/mod.rs:652`), which
  `TunnelExit` defines as "The peer sent an authenticated `Close` message"
  (line 76). `CloseHonest` names eviction as the other possibility.
- `park_if_paced` (`tunnel/mod.rs:689`) also parks a packet that a full window
  refused, if the pacer is in debt; the comment at line 549 says it does not.
- Every `send_control` is followed by the end of the loop, so a Close is
  registered for retransmission (`tunnel/mod.rs:1057`) and never sent again.
- After 2^32 packets of one direction sequence numbers, and with them nonces
  under one key, repeat (`protocol/session.rs:202`); `doc/crypto.md:135` says each
  pair is used once. `TunnelLink!NonceOnce` states it; TLC violates it with
  `SEQ_MOD = 4`. Until then it holds: theorem `NoncesUnique`.
- Packets of different lengths in a group defeat recovery although k symbols are
  present: parities are as long as the longest, and `decode` refuses unequal
  lengths (`fec/reed_solomon.rs:149`); `doc/fec.md:99` promises recovery from any
  k. `AnyKSuffice` therefore speaks of symbols of one length (`Alike`), in groups
  of any mix; without that conjunct the run `Fec` violates it.
- The "increase" loop of `AdaptiveFec::observe` takes the highest band crossed
  even when that is less than now: with two parities, one sample of total loss
  leaves one (`fec/adaptive.rs:120`; line 8 says more loss means more parity).
- `configure_fec` says that k + m > 255 falls back to the defaults
  (`tunnel/mod.rs:378`); `params` has shrunk k by then, so only k = 0 or
  initial_m = 255 does. Nothing orders min_m, initial_m and max_m.
- Parity switched on inside a group recovers, and writes again, a packet that
  was delivered while parity was off (`tunnel/mod.rs:1528`). The shapes of
  `Fec` with groups of two fix the parity count for this reason.
- With K = 1, 65536 packets within 5 s reuse a group id that the receiver still
  keeps, and a new packet is suppressed (`tunnel/mod.rs:1381`). `Fec` sends
  fewer packets than there are group ids.
- `recover_group` writes the padded symbol; `doc/fec.md:78` says it is trimmed.
- `evict_oldest_peer_session` (`tunnel/server.rs:1087`) signals a task and drops
  its handle at once: the task may see the closed channel first and end without
  the Close that `doc/session-lifecycle.md:321` promises. On shutdown dropped
  handles race the stop watch in the same way (comment at `tunnel/server.rs:794`).
- Any tunnel that ends clears the shared `counters.connected`
  (`tunnel/mod.rs:659`); `doc/session-lifecycle.md:214` clears it with the last.

Of the handshake and the client's loop (`Connect`):

- A stop between the end of the handshake and the tunnel's `subscribe`
  (`daemon/mod.rs:492`) is lost: the new receiver counts it as seen. The property
  `StopHonoured` excludes it; `StopNotMissed`, which does not, is violated.
- A selection this build cannot run is caught as a bad message 2 and retried, so
  the client reports a timeout; `tunnel/handshake.rs:30` promises a readable
  error. `IncompatibleReported` states it and is violated.
- With a round trip longer than `HANDSHAKE_RTO` every attempt receives the answer
  to the one before and none succeeds (`tunnel/handshake.rs:91`); `Connects`
  lets attempts go unanswered but assumes that answers are in time.
- An older client that proposes nothing, at a server that lists `v2-tlv` first,
  would be told `v2-tlv` and ignore it; `doc/profiles.md:226` makes that a matter
  of deployment. `EndsAgree` and its theorem leave this pair out.
- `config.rs:143` says the client advertises its carrier and a mismatch is
  reported; the offer has no such field, and a mismatch is a timeout. An unknown
  carrier, "a hard error" at line 149, is retried for ever by the client.
- A server that lists `same-as-handshake` and then `tagged` runs `tagged` with a
  client that offers nothing: the marker has no id and is skipped.
- An address on the command line that does not parse is ignored silently.
- The socket reader of an ended session ends only with the next message it
  receives, though `daemon/mod.rs:486` says it terminates at session end.

Of the wire (`Wire`):

- The peek takes off the handshake's envelope, not the session's, and no padding,
  so a client that moves is not found under those (`tunnel/server.rs:1328`; the
  dispatch order at line 416 and `doc/architecture.md:196` promise roaming).
  `Peekable` in `PeekRight` is where it must be found.
- There it may also name a session that is not the packet's: the length prefix of
  a padded frame of 257 to 265 bytes reads as version and type of a v1 header, and
  a tag may begin like a header (the default one begins with the magic of v2-tlv).
  `PeekRight` excludes these configurations (`Mistakable`), whatever the lengths;
  a datagram that is misrouted so is opened by nobody (`RoundTrip`).
- Flags and TLV tags of later builds parse and are then refused, because the
  header is encoded anew as associated data. `doc/profiles.md:308`,
  `protocol/header.rs:71`, `protocol/frame.rs:630` and line 834 call them
  compatible. `RoundTrip` asks only that such a packet is opened as it was sealed
  or not at all; `Openable`, in `StreamInOrder`, is what the code opens.
- A stream message of length 0 is never taken and blocks what follows
  (`carrier/mod.rs:393`); the tunnel sends none.
- A full v2-tlv header is 49 bytes; `doc/profiles.md:308` says 46.
- The timing layer's schedule and decoys are called by nothing.

Of the queues (`Channels`):

- `CircularWait`: the dispatcher awaits room in a client's TUN channel
  (`tunnel/server.rs:639`) while that client's task awaits room in the
  aggregator, which the dispatcher empties. Then all sessions stand still and no
  stop is heard. `BackpressureEnds` and `StopEnds` show that it is the only such
  wait, beside a stream connection that never sends its message 1. While it lasts
  no revocation is carried out, either (`RevokedGone`).
- `ProbeBucket::take` restarts the refill at every take, granted or refused: a
  source that keeps asking faster than the interval is never refilled, where the
  comment at `tunnel/server.rs:170` promises one token per interval. A datagram
  of a session whose channel is full burns such a token too.

`HostGuards` names its exceptions in the properties; TLC violates each property
without them. They are ways of the code that its documentation denies:

- The kill switch is lifted not by a graceful shutdown alone: `run_client` also
  drops it when a session ends and reconnection is off (`daemon/mod.rs:519`), and
  when it returns an error, at line 330 (a bad profile), lines 368 and 411 (no
  carrier or no handshake, reconnection off) and line 458 (a profile that cannot be
  built). `doc/platform.md:278` says "Only a graceful shutdown (Ctrl+C or the IPC
  `Stop` command) drops the guard"; so do `daemon/mod.rs:239`, `config.rs:475` and
  `doc/cli.md:92`. `SessionEnds` and `Fail` model these ends; `FailClosed` holds
  until the guard is dropped, for whatever reason that is.
- A crash between the iptables and the ip6tables half of an Unjump or a Delete
  (`split`): every later cleanup fails in IPv4 and skips IPv6, so the chain stays
  in IPv6, `-N` fails, and no start with a kill switch succeeds again.
  `doc/platform.md:296` calls re-installing idempotent after a crash, and
  `platform/linux.rs:1856` says no half-installed chain is left behind; what is
  left has no rules (`ChainsWhole`).
- A command of a removal that fails for no reason (`botched`), in the cleanup of a
  refused start as well, is ignored, and what it should have removed stays.
- The original `resolv.conf` is lost in two ways (`torn`), though
  `doc/platform.md:226` says it never is: if it exists and cannot be read, an empty
  backup is made of it and it is overwritten (`platform/linux.rs:2209`); and a crash
  or a failed write between creation and filling of the backup (line 2210) leaves
  an empty file that the next start keeps as the original.
- Each crash leaves a copy of the IPv6 NAT rules, appended without a delete
  (`platform/linux.rs:302`); a stop removes two (`starts <= 2`). The comment at
  `platform/linux.rs:258` says install is idempotent.
- `NoLoop` and `StopRestores` speak of lives without failing commands
  (`faults = 0`); how a rollback fares after one is not checked.

And beside the properties:

- `install_bypass_plan` (`platform/linux.rs:974`) compares the word after the
  verb, a subnet or `from`, with "rule" and "route": nothing is recorded, and a
  stop leaves the bypass subnets and `from` rules behind (`Recorded`), although
  `platform/linux.rs:524` says the guard removes all four.
- A route of the route file replaces an existing one (`NLM_F_REPLACE`), and its
  removal does not bring that back (read in the source, not modelled).
- A crash leaves the server's host route; the next start's `ip route add` then
  fails with "File exists" and the daemon runs on without route-all.
- After a crash a restart lifts the kill switch's chain before it builds it
  anew, so the host is open for that moment, and for good if the start is
  refused.
- The firewall backend calls ip6tables on hosts without IPv6 as well, where
  every install fails; `platform/linux.rs:393` says such calls must be skipped.

That the replay window refuses all control after a wrap is stated by the
repository's own test `replay_window_does_not_wrap_around_u32_max`; here it is
the condition in `FreshNotRefused`.

## Proofs

`SessionRxProofs`, for all `SEQ_MOD`, `WINDOW`, `ACK_BITS` with
`2 * ACK_BITS < SEQ_MOD` and all `MaxSent`, `Control`:

- `TypeCorrect`, `ControlAtMostOnce`, `AdvertisementExact`, and
  `FreshAcceptedBeforeWrap` (the property speaks of the time before the wrap).
- The invariants are not inductive alone. For the sequence numbers: the log is
  the packets 1 to `last.n`, and consecutive numbers carry consecutive wire
  numbers. For control: whatever was delivered is, by its wire number, either
  marked in the window or below it, so it can never be fresh again, wrap or no
  wrap. For acks: the wire distance of two packets within the environment's
  lifetime is the distance of their numbers, so the sign test of `record`
  decides which is newer, and the shifted bitmap is re-indexed from the new top.

`ServerDispatchProofs`, for any keys, addresses, bounds and cap, if no
configuration is open:

- `RevocationEffective`. The inductive invariant adds
  that the configuration stays restricted, that table entries belong to their
  tasks and to sessions already created, that signals and channels exist for
  created sessions only, and that a key is denied before its command is queued
  or carried out. That order is what closes the race with a handshake.

The same module, for any keys, addresses, bounds, cap, channel size and
authorization, open mode included:

- `AddressesAgree`, `RoamingIsAuthentic`, `CacheIsExact`, `CapIsRespected`. Their
  conjunction `DInv` is inductive with two additions: whatever is in a channel
  and decrypts for a session, and every queued address change, was sent by that
  session's client (`Carried`), and the types, which hold that idle order is a
  strict order of the table. From that order, `OldestIsOne`: among sessions of a
  finite non-empty set exactly one was idle the longest, so the cap's eviction
  makes room for exactly the new one. `AddrAgrees` needs the position of the last
  queued change of each session, which taking the first one off and adding one
  at the end move.

`TunnelLinkProofs`, for every modulus, bitmap width, size and number of packets:

- `AcksAreSound` and `ClosesAreHonest`. The invariant follows a claim along its
  way: the tracker of an end (`AckTruthful`), the copy on each datagram, however
  old (`NetTruthful`), and the peer's view of it (`AdvTruthful`) acknowledge only
  numbers that end has received. That holds because receipts are never undone,
  and because `record` adds the one number it is given (`AckRecordSound`, by
  shifting forward, setting a bit or ignoring). After a wrap the claim is about
  the number, which several packets have borne. `CloseHonest` needs that a Close
  on the wire came from an end that left by itself, evicted ends included.
- `NoncesUnique`: before the wrap the numbers used are 1 to `sealed`, one per
  packet sealed; failed sends and refunds do not give a number back.
- `FlightIsExact`: until an end has used all its numbers (`BeforeWrap`), bytes in
  flight are the bytes of the undecided records. After that a new packet's record
  can stand beside an old one with the same number and size, and the set holds
  one of them. `FInv` adds the types, that a waiting parity has bytes, that the
  records are finitely many and that their numbers were used, so a new record is
  none of the old. The sum is a fold over the set; what it yields for a set with
  one record more or less, and for the records reconciliation takes away, is
  derived from the fold's own recursive function by the smallest counterexample
  (`LeastNat`), as in the other modules with folds.

`FecLinkProofs`, for every erasure code that keeps `CodeAssumption` (k symbols of
a group give back its padded sources, or, only if their lengths differ, nothing),
any lengths, mixed in any way, and settings that are `Steady`:

- `FecGenuine`, `FecSuppressHonest`, `FecInBounds`, `FecAnyKSuffice` and
  `FecImplementsService` (the refinement).
- `Steady` is: groups of one packet with any adaptive parity count (the default
  configuration) or larger groups with a fixed one, and no group id used twice.
  Without it the theorems are false, see the disagreements above about parity
  that grows inside a group, parity switched on inside a group and reused ids.
  TLC evaluates `CodeAssumption` for the Reed-Solomon code of the runs.
- `IInv` relates the two ends through the network: a data packet has one datagram,
  a slot of a group one symbol, a group one parity count (`NetOK`); all symbols of
  a group, whenever sent, are of one list of sources (`Coded`), of which the
  sender's open group holds the beginning (`Open`); a group of the receiver holds
  such symbols only and counts as delivered what it has (`RxOK`); and a protected
  packet has been written once if its slot counts as delivered and not at all
  otherwise (`Written`). The last is what the refinement rests on.

`ConnectProofs`, for any files and command lines, numbers of attempts,
connections, answers and stops:

- `BackoffIsExponential`: with `TypeOK`, the delay is that of the count of failures;
  the power of two is a recursive function.
- `EndsAlwaysAgree` and `ServerOrderWins`. The invariant holds that what is under
  way is the client's own offer and answers to it (`Exchange`), each with a session
  the responder made from it, and that the established session is one of those
  (`Agreed`). The rest is about pure operators: Noise keys come out crossed,
  what an end encodes the other decodes, and `pick` yields the first name of the
  server's list the client has.
- `Matching`: one end is this build, the other this, an older or a newer one, and
  an older client is one that proposes a profile. An older client that proposes
  nothing would be told `v2-tlv` by a server that prefers it and would ignore
  that. `Short`, for the second: the client lists no more alternatives than
  `MAX_OFFER_ALTERNATIVES`; `encode` cuts longer lists off.

`WireProofs`, for any sessions, lengths, read sizes and numbers of packets,
any stack of layers in any order, any buckets, tags and profiles:

- `RoundTripHolds`. The layers are undone one at a time: each is the inverse of
  itself for the session that applied it, and for any other session the bytes
  come out with their lengths and values but some under a keystream, or not at
  all (`FrameUndone`). For the codecs, the fields are laid end to end (`Parts`,
  `Rests`), the fixed header is read at its offsets, and the scan of the TLV list
  is unrolled over the eleven items, an unknown one included. A header read back
  and encoded anew is the sealed one exactly if this build wrote it, and numbers
  are unique, so a session opens its own packet and no other.
- `StreamInOrderHolds`. The invariant `SInv` keeps the tape: the messages sent, for
  each the bytes of all that follow it, and the bytes a break has lost. What is
  kept, what is under way and what is lost, in this order, is the tape from the
  next message on, so two bytes of it are the length of that message.
- The assumptions say that session and sequence numbers and the fields of a packet
  fit their widths (`HeaderAssumption`) and that the handshake succeeded
  (`ScenarioAssumption`). That a datagram is at most 65535 bytes long is used: the
  padding's length prefix and the stream's have two bytes.

`ChannelsProofs`, for any clients, scenes, channel sizes, burst, interval,
lifetime and cap, if a token's lifetime is at least burst times interval (5 s
against 0.8 s in the code; without it the purge would hand out a full bucket
early):

- `ProbesAreRateBounded`. The invariant is that a bucket's tokens and the age of
  its last take never exceed the ideal credit, or that the ideal bucket is full,
  and that a source without a bucket has full credit: that is where the lifetime
  is needed.
- `ReturnTrafficInOrder`, `ReturnTrafficToOwner`. The invariant places the
  dispatcher and its queues, and traces an address from a client's datagram
  through the task and the shared queue to the table (`Traced`).

`HostGuardsProofs`, for any number of starts, crashes and faults, any
configuration and any number of rules per chain:

- `GuardsFailClosed`, `NoHalfChains`, `OriginalIsKept`, `TunnelNeverLoops`,
  `StopRestoresHost`. None is inductive: each depends on how far the program of a
  guard has come. `HInv` therefore says, for every place in each program (`Rest`;
  `Half` between the two families of one operation), what the host is like
  there; what it is like between programs, for guards that are held and for
  guards that are not; and what control may be doing. Each command then has a
  lemma from one place to the next, each failure one to where the guard gives up
  to, and a crash may come at any place, so the condition between programs has to
  follow from every one of them: that is where `split` and `torn` are
  indispensable. A removal is followed in two strengths: unless `botched` it takes
  the rules of a chain (`Flushed`), and unless `split` as well the chain itself
  (`Cleaned`); the second is known after a stop and the first after a refusal.
  TLC checked `HInv` with up to three starts before the proof.

The assumptions are those named in the modules (`SessionAssumption`,
`TunnelLinkAssumption`, `FecLinkAssumption`, `CodeAssumption`,
`ServerDispatchAssumption`, `ChannelsAssumption`, `ProfileAssumption`,
`ConnectAssumption`, `WireAssumption`, `HeaderAssumption`, `ScenarioAssumption`,
`HostGuardsAssumption`, `SettingsAssumption`), which TLC evaluates in the runs.

Only model-checked:

- the liveness properties (`SentResolved`, `ParkedLeaves`, `RevokedGone`,
  `BackpressureEnds`, `StopEnds`, `StopHonoured`, `Connects`, `StreamDelivers`):
  temporal reasoning with fairness is beyond this prover;
- `PeekRight`: a scan of both codecs over foreign bytes;
- that the Reed-Solomon code of `ReedSolomon` keeps `CodeAssumption`: it needs
  induction over the rows of a matrix. TLC evaluates it for the shapes of the runs.

## Not modelled

Cryptographic primitives (a ciphertext is one its peer sealed), the TUN device,
sockets and their options, TOML syntax, key files, the IPv6 half of route-all and
the route file, evaluation of packets by rules, statistics (the `connected` flag
among them) and logging: system calls, parsing of foreign text and counters.
RTT estimation and pacing rates are real-valued time and enter as
nondeterminism (`held`, `cut`).

## Plan

1. Session, congestion, tunnel, FEC, dispatcher, host guards, and proofs of
   session and revocation: done.
2. Dispatcher queues, handshake driver and client daemon, negotiation, key
   exchange, codecs, obfuscation, envelopes, streams, configuration, field
   arithmetic and adaptive FEC: done.
3. Proofs of acks and nonces, of the session table, the queues, the limiter and
   the host guards: done.
4. Proofs of bytes in flight, of FEC and its refinement, of negotiation and key
   exchange, of the wire format and streams: done. What is left is listed
   under "Only model-checked".
