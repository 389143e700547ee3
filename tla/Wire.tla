-------------------------------- MODULE Wire --------------------------------
(***************************************************************************)
(* How a packet becomes bytes and a packet again: the frame codecs         *)
(* (protocol/frame.rs, header.rs), the obfuscation stack, the transport    *)
(* envelope, the carriers, and the dispatcher's look at the session id     *)
(* (peek_routed_session in tunnel/server.rs), under a profile that         *)
(* Profile!Negotiate yields.                                               *)
(*                                                                         *)
(* A byte is a value and the set of keystream bytes laid over it; XOR adds *)
(* or cancels one.  A byte under a keystream reads as GARBLED, which is no *)
(* valid value: that a wrong keystream makes one by chance is left out.    *)
(* A ciphertext opens for the session, sequence number and associated      *)
(* data it was sealed with.                                                *)
(***************************************************************************)
EXTENDS Profile

CONSTANTS
  Scenarios,      \* configurations: server, client, layers, buckets, carrier
  Sessions,       \* ids of two live sessions of this server
  Templates,      \* headers to send, without session id and sequence number
  Lengths,        \* lengths of ciphertexts
  ReadSizes,      \* how much one read of a stream may return
  HEADER_LEN, PATH_MTU, OUTER_OVERHEAD,
  MaxSent         \* bound

ASSUME WireAssumption ==
  /\ Sessions \subseteq Nat \ {0} /\ Sessions # {}
  /\ Lengths \subseteq Nat /\ MaxSent \in Nat
  /\ HEADER_LEN = 24 /\ PATH_MTU \in Nat /\ OUTER_OVERHEAD \in Nat
  /\ ReadSizes \subseteq Nat \ {0}

VARIABLES
  sc, profile,    \* the scenario, and the profile it negotiates
  sent,           \* packets sealed, in order
  net,            \* datagrams on the network
  got,            \* packets opened: of each session, in order
  pipe, leftover, \* a stream: bytes under way, bytes read and not yet used
  taken,          \* messages taken off the stream
  broken          \* the connection has failed

vars == <<sc, profile, sent, net, got, pipe, leftover, taken, broken>>

-----------------------------------------------------------------------------
(* Bytes *)

Byte(v) == [v |-> v, w |-> {}]

GARBLED == -1

Values(buf) == [i \in DOMAIN buf |-> IF buf[i].w = {} THEN buf[i].v ELSE GARBLED]

Bytes(values) == [i \in DOMAIN values |-> Byte(values[i])]

Place == <<1, 256, 65536, 16777216>>

LE(n, width) == [i \in 1 .. width |-> (n \div Place[i]) % 256]

BE2(n) == <<(n \div 256) % 256, n % 256>>

FromLE(b) ==
  LET Digit(i) == IF i <= Len(b) THEN b[i] * Place[i] ELSE 0
  IN  Digit(1) + Digit(2) + Digit(3) + Digit(4)

FromBE2(b) == b[1] * 256 + b[2]

-----------------------------------------------------------------------------
(* The header (PacketHeader) and its two encodings.  The tag of a field in *)
(* v2-tlv is its place here. *)

Fields == <<"version", "packet_type", "session_id", "seq", "ack_seq", "ack_bitmap",
            "fec_group", "fec_index", "fec_k", "fec_m", "flags">>

Width == [f \in Range(Fields) |->
            CASE f \in {"session_id", "seq", "ack_seq", "ack_bitmap"} -> 4
              [] f = "fec_group" -> 2
              [] OTHER -> 1]

(* Where a field starts in v1-fixed. *)
Offset == <<0, 1, 2, 6, 10, 14, 18, 20, 21, 22, 23>>

(* The numbers a field of this width holds. *)
Numbers(width) == {n \in Nat : n \div Place[width] < 256}

PROTOCOL_VERSION == 1

PacketTypes == 1 .. 9

V2_TLV_MAGIC == 82

V2_TLV_PREAMBLE == 3

(* The fields are unsigned integers of their widths. *)
ASSUME HeaderAssumption ==
  /\ Sessions \cup {255 + MaxSent} \subseteq Numbers(4)
  /\ \A t \in Templates :
       /\ t.packet_type \in PacketTypes
       /\ \A f \in Range(Fields) \ {"version", "session_id", "seq", "flags"} :
            t[f] \in Numbers(Width[f])

(* HeaderFlags::from_bits_truncate: no flag is assigned. *)
Truncated(h) == [h EXCEPT !.flags = 0]

BadHeader == [malformed |-> TRUE]

WriteV1(h) == FlattenSeq([i \in DOMAIN Fields |-> LE(h[Fields[i]], Width[Fields[i]])])

ReadV1(b) ==
  LET At(f) == LET i == CHOOSE i \in DOMAIN Fields : Fields[i] = f
               IN  FromLE(SubSeq(b, Offset[i] + 1, Offset[i] + Width[f]))
  IN  IF Len(b) < HEADER_LEN \/ b[1] # PROTOCOL_VERSION \/ b[2] \notin PacketTypes
        THEN BadHeader
        ELSE Truncated([f \in Range(Fields) |-> At(f)])

Tlv(tag, value) == <<tag, Len(value)>> \o value

(* Type, session and number always; the rest unless zero. *)
WriteV2(h) ==
  LET body == FlattenSeq([i \in DOMAIN Fields |->
                IF i <= 4 \/ h[Fields[i]] # 0
                  THEN Tlv(i, LE(h[Fields[i]], Width[Fields[i]])) ELSE <<>>])
  IN  <<V2_TLV_MAGIC>> \o BE2(Len(body)) \o body

(* The bytes a scan of a TLV list has left, and the header so far. *)
Scans == Seq(Nat) \X [Range(Fields) -> Nat]

(* The fields of a TLV list, into a header; a tag not known is skipped. *)
TakeTlvs[st \in Scans] ==
  LET b     == st[1]
      h     == st[2]
      value == SubSeq(b, 3, 2 + b[2])
      rest  == SubSeq(b, 3 + b[2], Len(b))
      f     == Fields[b[1]]
  IN  IF b = <<>> THEN h
      ELSE IF Len(b) < 2 \/ b[2] > Len(b) - 2 THEN BadHeader
      ELSE IF b[1] \notin DOMAIN Fields THEN TakeTlvs[<<rest, h>>]
      ELSE IF \/ Width[f] > 1 /\ Len(value) # Width[f]
              \/ value = <<>>
              \/ f = "packet_type" /\ value[1] \notin PacketTypes
        THEN BadHeader
        ELSE TakeTlvs[<<rest, [h EXCEPT ![f] = FromLE(SubSeq(value, 1, Width[f]))]>>]

ReadV2(b) ==
  LET end == V2_TLV_PREAMBLE + FromBE2(Tail(b))
      h   == TakeTlvs[<<SubSeq(b, V2_TLV_PREAMBLE + 1, end),
                        [f \in Range(Fields) |-> IF f = "version" THEN PROTOCOL_VERSION ELSE 0]>>]
  IN  IF Len(b) < V2_TLV_PREAMBLE \/ b[1] # V2_TLV_MAGIC \/ end > Len(b) THEN BadHeader
      ELSE IF h = BadHeader \/ h.packet_type = 0 THEN BadHeader
      ELSE Truncated(h)

V1 == FRAME_V1_FIXED

WriteHeader(codec, h) == IF codec = V1 THEN WriteV1(h) ELSE WriteV2(h)

ReadHeader(codec, b) == IF codec = V1 THEN ReadV1(b) ELSE ReadV2(b)

BodyOffset(codec, b) ==
  IF codec = V1 THEN Min({HEADER_LEN, Len(b)})
  ELSE IF Len(b) < V2_TLV_PREAMBLE \/ b[1] # V2_TLV_MAGIC THEN 0
  ELSE Min({V2_TLV_PREAMBLE + FromBE2(Tail(b)), Len(b)})

MaxHeaderLen(codec) ==
  IF codec = V1 THEN HEADER_LEN
  ELSE V2_TLV_PREAMBLE + FoldFunction(+, 0, [i \in DOMAIN Fields |-> 2 + Width[Fields[i]]])

(* What a later version might send: a flag this build does not know, and   *)
(* in v2-tlv a tag it does not know. *)
Newer(codec, h) ==
  LET marked == [h EXCEPT !.flags = 128]
      b      == WriteV2(h)
  IN  IF codec = V1 THEN WriteV1(marked)
      ELSE <<V2_TLV_MAGIC>> \o BE2(FromBE2(Tail(b)) + 3)
             \o SubSeq(b, V2_TLV_PREAMBLE + 1, Len(b)) \o Tlv(12, <<1>>)

-----------------------------------------------------------------------------
(* The obfuscation stack *)

NoFrame == <<>>

LEN_PREFIX == 2

(* The smallest bucket that fits. *)
Padded(n) ==
  LET need == n + LEN_PREFIX
      fits == {b \in sc.buckets : b >= need /\ b >= LEN_PREFIX}
  IN  IF need > sc.padding_max \/ fits = {} THEN need ELSE Min(fits)

Pad(frame) ==
  LET out == Bytes(BE2(Len(frame))) \o frame
  IN  out \o [i \in 1 .. Padded(Len(frame)) - Len(out) |-> Byte(0)]

Unpad(buf) ==
  LET v == Values(buf)
  IN  IF Len(buf) < LEN_PREFIX THEN NoFrame
      ELSE IF GARBLED \in {v[1], v[2]} THEN NoFrame
      ELSE IF Len(buf) < LEN_PREFIX + FromBE2(v) THEN NoFrame
      ELSE SubSeq(buf, LEN_PREFIX + 1, LEN_PREFIX + FromBE2(v))

(* XOR of the first n bytes with the session's keystream. *)
Xor(buf, s, n) ==
  [i \in DOMAIN buf |-> IF i <= n THEN [buf[i] EXCEPT !.w = SymDiff(@, {<<s, i>>})] ELSE buf[i]]

XorHeader(buf, s) == IF Len(buf) < HEADER_LEN THEN buf ELSE Xor(buf, s, HEADER_LEN)

ApplyLayer(layer, buf, s) ==
  CASE layer = "padding"    -> Pad(buf)
    [] layer = "header_xor" -> XorHeader(buf, s)
    [] OTHER                -> buf

ReverseLayer(layer, buf, s) ==
  CASE buf = NoFrame        -> NoFrame
    [] layer = "padding" /\ buf # NoFrame    -> Unpad(buf)
    [] layer = "header_xor" /\ buf # NoFrame -> XorHeader(buf, s)
    [] OTHER                -> buf

(* build_stack.  A name nobody knows is skipped: a layer that, like the    *)
(* timing layer, changes no bytes. *)
Stack == sc.layers

Apply(frame, s) == FoldLeft(LAMBDA buf, l : ApplyLayer(l, buf, s), frame, Stack)

(* A bug: the layers come off in the order they went on. *)
UnapplyForward(buf, s) == FoldLeft(LAMBDA b, l : ReverseLayer(l, b, s), buf, Stack)

Unapply(buf, s) == FoldLeft(LAMBDA b, l : ReverseLayer(l, b, s), buf, Reverse(Stack))

-----------------------------------------------------------------------------
(* The envelope *)

Wrap(env, buf) == Bytes(env.tag) \o buf

Unwrap(env, buf) ==
  IF Len(buf) < Len(env.tag) THEN NoFrame
  ELSE IF Values(SubSeq(buf, 1, Len(env.tag))) # env.tag THEN NoFrame
  ELSE SubSeq(buf, Len(env.tag) + 1, Len(buf))

(* Tunnel::wrap_frame and unwrap_frame. *)
WrapFrame(frame, s) == Wrap(profile.transport, Apply(frame, s))

UnwrapFrame(buf, s) == Unapply(Unwrap(profile.transport, buf), s)

(* The bytes of a ciphertext, each known by its place. *)
Ciphertext(n) == [i \in 1 .. n |-> (100 + i) % 256]

NoPacket == [of |-> 0]

(* is_decoy_frame: cover traffic of the timing layer. *)
IsDecoyFrame(v) == v # <<>> /\ v[1] = 127

(* handle_udp_datagram of session s up to decryption: the associated data  *)
(* is the header encoded anew. *)
Open(buf, s) ==
  LET v == Values(UnwrapFrame(buf, s))
      h == ReadHeader(profile.codec, v)
      body == SubSeq(v, BodyOffset(profile.codec, v) + 1, Len(v))
      opens == {p \in Range(sent) :
                  /\ p.of = s /\ p.header.seq = h.seq
                  /\ p.aad = WriteHeader(profile.codec, h)
                  /\ body = Ciphertext(p.len)}
  IN  IF v = NoFrame \/ GARBLED \in Range(v) THEN NoPacket
      ELSE IF IsDecoyFrame(v) \/ h = BadHeader \/ opens = {} THEN NoPacket
      ELSE CHOOSE p \in opens : TRUE

-----------------------------------------------------------------------------
(* The dispatcher's peek; no session is 0. *)

PeekV1(v) ==
  IF Len(v) < 6 THEN 0
  ELSE IF v[1] # PROTOCOL_VERSION \/ v[2] \notin PacketTypes THEN 0
  ELSE IF GARBLED \in Range(SubSeq(v, 3, 6)) THEN 0
  ELSE FromLE(SubSeq(v, 3, 6))

ScanSession[b \in Seq(Int)] ==
  IF Len(b) < 2 THEN 0
  ELSE IF GARBLED \in {b[1], b[2]} \/ b[2] > Len(b) - 2 THEN 0
  ELSE LET value == SubSeq(b, 3, 2 + b[2])
       IN  IF b[1] # 3 \/ b[2] # 4 THEN ScanSession[SubSeq(b, 3 + b[2], Len(b))]
           ELSE IF GARBLED \in Range(value) THEN 0
           ELSE FromLE(value)

PeekV2(v) ==
  IF Len(v) < V2_TLV_PREAMBLE THEN 0
  ELSE IF v[1] # V2_TLV_MAGIC \/ GARBLED \in {v[2], v[3]} THEN 0
  ELSE IF V2_TLV_PREAMBLE + FromBE2(Tail(v)) > Len(v) THEN 0
  ELSE ScanSession[SubSeq(v, V2_TLV_PREAMBLE + 1, V2_TLV_PREAMBLE + FromBE2(Tail(v)))]

(* peek_any_session_id tries every codec; peek_live wants a live session. *)
PeekLive(buf) ==
  LET v  == Values(buf)
      id == IF PeekV1(v) # 0 THEN PeekV1(v) ELSE PeekV2(v)
  IN  IF id \in Sessions THEN id ELSE 0

(* A bug: the keystream covers less than the header up to the session id. *)
RouteKeystreamShort(codec) == V2_TLV_PREAMBLE + 2

(* extract_header_xor_keystream: as long as the codec's longest header. *)
RouteKeystream(codec) == MaxHeaderLen(codec)

Whitened == "header_xor" \in Range(Stack)

(* peek_routed_session: the raw bytes, then without the envelope of the    *)
(* handshake, then under each live session's keystream. *)
PeekRouted(buf) ==
  LET inner == Unwrap(HandshakeEnvelope(sc.server), buf)
      under == {s \in Sessions : PeekLive(Xor(inner, s, RouteKeystream(profile.codec))) # 0}
  IN  IF PeekLive(buf) # 0 THEN PeekLive(buf)
      ELSE IF inner = NoFrame THEN 0
      ELSE IF PeekLive(inner) # 0 THEN PeekLive(inner)
      ELSE IF Whitened /\ under # {} THEN CHOOSE s \in under : TRUE
      ELSE 0

-----------------------------------------------------------------------------

(* What config.rs loads, and a handshake that has succeeded. *)
ASSUME ScenarioAssumption ==
  \A c \in Scenarios :
    /\ c.layers \in Seq(STRING) /\ c.buckets \subseteq Nat /\ c.padding_max \in Nat
    /\ c.server.tag \in Seq(0 .. 255)
    /\ Negotiate(c.server, EncodeOffer(OfferOf(c.client))) # Malformed

Client == Min(Sessions)

Init ==
  /\ sc \in Scenarios
  /\ profile = Resolved(Negotiate(sc.server, EncodeOffer(OfferOf(sc.client))), sc.server)
  /\ sent = <<>> /\ net = {}
  /\ got = [s \in Sessions |-> <<>>]
  /\ pipe = <<>> /\ leftover = <<>> /\ taken = 0 /\ broken = FALSE

Stream == sc.carrier = "tcp"

(* A packet of a template, numbered so that numbers take two bytes. *)
Header(s, t) ==
  [f \in Range(Fields) |->
     CASE f = "version" -> PROTOCOL_VERSION
       [] f = "session_id" -> s
       [] f = "seq" -> 255 + Len(sent)
       [] f = "flags" -> 0
       [] OTHER -> t[f]]

(* Data and parity are dropped when the datagram would be too long. *)
Fits(buf, t) == t.packet_type \in {3, 5} => Len(buf) + OUTER_OVERHEAD <= PATH_MTU

(* What a carrier takes at most; UDP takes no more either. *)
STREAM_MAX_MESSAGE == 65535

(* TcpCarrier::send puts the length in front. *)
Framed(buf) == Bytes(BE2(Len(buf))) \o buf

(* A tunnel seals a packet and sends it. *)
Send(s, t, n, newer) ==
  /\ Len(sent) < MaxSent /\ ~broken
  /\ LET h    == Header(s, t)
         aad  == IF newer THEN Newer(profile.codec, h) ELSE WriteHeader(profile.codec, h)
         wire == WrapFrame(Bytes(aad \o Ciphertext(n)), s)
     IN  /\ Fits(wire, t) /\ Len(wire) <= STREAM_MAX_MESSAGE
         /\ sent' = Append(sent, [of |-> s, header |-> h, aad |-> aad, len |-> n, newer |-> newer])
         /\ IF Stream THEN pipe' = pipe \o Framed(wire) /\ UNCHANGED net
            ELSE net' = net \cup {[bytes |-> wire, of |-> s, n |-> Len(sent) + 1]}
                 /\ UNCHANGED pipe
  /\ UNCHANGED <<sc, profile, got, leftover, taken, broken>>

(* What the tunnel of s does with the bytes it is given. *)
Receive(s, buf) ==
  got' = IF Open(buf, s) = NoPacket THEN got
         ELSE [got EXCEPT ![s] = Append(got[s], Open(buf, s))]

(* dispatch_datagram, for bytes that are no handshake: to the session the  *)
(* peek names, or, where there is none or its channel is full, to the one  *)
(* addr_index has for the source, which may be any (0: none).  The address *)
(* itself is ServerDispatch's. *)
Deliver(d) ==
  /\ net' = net \ {d}
  /\ \E s \in Sessions \cup {0} : IF s = 0 THEN UNCHANGED got ELSE Receive(s, d.bytes)
  /\ UNCHANGED <<sc, profile, sent, pipe, leftover, taken, broken>>

(* A bug: bytes are kept only until the next read. *)
ReadForgets(n) ==
  /\ Stream /\ pipe # <<>>
  /\ LET k == Min({n, Len(pipe)})
     IN  leftover' = SubSeq(pipe, 1, k) /\ pipe' = SubSeq(pipe, k + 1, Len(pipe))
  /\ UNCHANGED <<sc, profile, sent, net, got, taken, broken>>

(* A read of the socket returns some bytes. *)
Read(n) ==
  /\ Stream /\ pipe # <<>>
  /\ LET k == Min({n, Len(pipe)})
     IN  leftover' = leftover \o SubSeq(pipe, 1, k) /\ pipe' = SubSeq(pipe, k + 1, Len(pipe))
  /\ UNCHANGED <<sc, profile, sent, net, got, taken, broken>>

(* A bug: a message counts as whole only when more follows. *)
WholeAndMore(buf) ==
  IF Len(buf) < 2 THEN 0
  ELSE LET n == FromBE2(Values(buf)) IN IF Len(buf) <= 2 + n THEN 0 ELSE n

(* take_message: the length of the message at the front, if it is whole. *)
Whole(buf) ==
  IF Len(buf) < 2 THEN 0
  ELSE LET n == FromBE2(Values(buf)) IN IF Len(buf) < 2 + n THEN 0 ELSE n

Takeable == Stream /\ Whole(leftover) > 0

TakeMessage ==
  /\ Takeable
  /\ LET n == Whole(leftover)
     IN  /\ Receive(Client, SubSeq(leftover, 3, 2 + n))
         /\ leftover' = SubSeq(leftover, 3 + n, Len(leftover))
  /\ taken' = taken + 1
  /\ UNCHANGED <<sc, profile, sent, net, pipe, broken>>

(* The connection fails and loses what it likes of the bytes under way. *)
Break ==
  /\ Stream /\ ~broken /\ broken' = TRUE
  /\ \E k \in ReadSizes \cup {0} : k <= Len(pipe) /\ pipe' = SubSeq(pipe, 1, k)
  /\ UNCHANGED <<sc, profile, sent, net, got, leftover, taken>>

Reads == \E n \in ReadSizes : Read(n)

Next ==
  \/ \E s \in IF Stream THEN {Client} ELSE Sessions, t \in Templates, n \in Lengths, newer \in BOOLEAN :
       Send(s, t, n, newer)
  \/ \E d \in net : Deliver(d)
  \/ Reads
  \/ TakeMessage
  \/ Break

Spec == Init /\ [][Next]_vars

(* The reader task is polled when bytes are there, and loops while a whole *)
(* message is: weak fairness of both, the latter written out. *)
FairSpec ==
  /\ Spec
  /\ WF_vars(Reads)
  /\ []<>~Takeable \/ []<><<TakeMessage>>_vars

-----------------------------------------------------------------------------

TypeOK ==
  /\ Len(sent) <= MaxSent
  /\ \A buf \in {pipe, leftover} \cup {d.bytes : d \in net} :
       \A i \in DOMAIN buf : buf[i].v \in 0 .. 255

(* Through codec, layers, envelope and back a packet of this build is      *)
(* opened by its own session exactly as it was sealed, whatever the order  *)
(* of the layers and wherever its length falls between the buckets; and    *)
(* what a session opens is what was sealed for it, newer builds' packets   *)
(* included (wrap_frame, unwrap_frame, handle_udp_datagram).  Whether a    *)
(* packet with a flag or a tag this build does not know opens is not said: *)
(* doc/profiles.md has it ignored, while the code, which encodes the       *)
(* header anew for the associated data, never opens it. *)
RoundTrip ==
  TypeOK /\ \A d \in net : \A s \in Sessions :
    /\ s = d.of /\ ~sent[d.n].newer => Open(d.bytes, s) = sent[d.n]
    /\ Open(d.bytes, s) \in {NoPacket} \cup (IF s = d.of THEN {sent[d.n]} ELSE {})

(* What the dispatcher can look through.  It takes off the envelope of the *)
(* handshake, which need not be the session's, and a header keystream, but *)
(* no padding. *)
Peekable ==
  /\ "padding" \notin Range(Stack)
  /\ \/ profile.transport = HandshakeEnvelope(sc.server)
     \/ profile.transport.kind = "plain" /\ ~Whitened

(* Bytes in front of the header may read as the start of one: the length   *)
(* of a padded frame (257 to 265 for v1-fixed), or a tag. *)
Mistakable ==
  LET tag == sc.server.tag
  IN  \/ "padding" \in Range(Stack)
      \/ tag[1] = PROTOCOL_VERSION /\ tag[2] \in PacketTypes
      \/ tag[1] = V2_TLV_MAGIC /\ tag[2] * 256 < PATH_MTU

(* The peek names the right session wherever it is Peekable, under both    *)
(* codecs and whitened or not, and never a wrong one, unless the bytes are *)
(* Mistakable (peek_routed_session).  The comment on dispatch_datagram     *)
(* promises a look through the shared stack; it does not look through      *)
(* padding or a session's own envelope, and there it may name none. *)
PeekRight ==
  ~Mistakable =>
    \A d \in net : LET s == PeekRouted(d.bytes)
                   IN  s \in {0, d.of} /\ (Peekable => s = d.of)

(* Of the first i packets sent, those this build opens. *)
Openable[i \in 0 .. Len(sent)] ==
  IF i = 0 THEN <<>>
  ELSE IF sent[i].newer THEN Openable[i - 1]
  ELSE Append(Openable[i - 1], sent[i])

(* A stream hands on the messages that were sent, whole, in order and each *)
(* once, however the bytes are split over reads and wherever the           *)
(* connection breaks (read_message, take_message). *)
StreamInOrder ==
  Stream => taken <= Len(sent) /\ got[Client] = Openable[taken]

(* Every message sent to a client on a connection that holds is taken off  *)
(* it there, by the reader the client spawns (read_message). *)
StreamDelivers ==
  \A i \in 1 .. MaxSent : (Stream /\ Len(sent) >= i) ~> (taken >= i \/ broken)

=============================================================================
