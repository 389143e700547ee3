------------------------------ MODULE Profile ------------------------------
(***************************************************************************)
(* Protocol profiles (protocol/profile.rs): the parts a session is made    *)
(* of, the client's offer, the server's selection, their encodings, and    *)
(* the profile an end builds from a selection.                             *)
(*                                                                         *)
(* A configured name stands for its trimmed string.  Ids and encoded bytes *)
(* are numbers; an end that fails to decode gets Malformed.                *)
(***************************************************************************)
EXTENDS Integers, Sequences, FiniteSets, SequencesExt, FiniteSetsExt, Functions

CONSTANT MAX_OFFER_ALTERNATIVES

ASSUME ProfileAssumption == MAX_OFFER_ALTERNATIVES \in Nat \ {0}

NEGOTIATION_VERSION == 1

Part == {"cipher", "transport", "fec", "frame"}

SAME == "same-as-handshake"

SAME_ID == 0

(* The registries: the names this build knows, with their ids. *)
CipherIds == [n \in {"", "chacha20poly1305"} |-> 1]

TransportIds == [n \in {"", "plain", "tagged"} |-> IF n = "tagged" THEN 2 ELSE 1]

FecIds ==
  [n \in {"", "reed-solomon", "none", "off", "disabled"} |->
     IF n \in {"", "reed-solomon"} THEN 1 ELSE 2]

(* build_frame_codec takes no empty name. *)
FrameIds == [n \in {"v1-fixed", "v2-tlv"} |-> IF n = "v1-fixed" THEN 1 ELSE 2]

KexNames == {"", "noise-ik", "rustnies"}

CongestionNames == {"", "tcp-reno", "tcp", "none", "off", "disabled"}

Registry ==
  [cipher |-> CipherIds, transport |-> TransportIds, fec |-> FecIds, frame |-> FrameIds]

Buildable(p, id) == id \in Range(Registry[p])

FRAME_V1_FIXED == 1

DEFAULT_TAG == <<82, 78>>

Defaults ==
  [cipher |-> 1, transport |-> SAME_ID, fec |-> 1, frame |-> FRAME_V1_FIXED,
   tag |-> DEFAULT_TAG]

-----------------------------------------------------------------------------
(* Configuration *)

DefaultName ==
  [cipher |-> "chacha20poly1305", transport |-> SAME, fec |-> "reed-solomon",
   frame |-> "v1-fixed"]

KnownName(p, n) == n \in DOMAIN Registry[p] \/ (p = "transport" /\ n = SAME)

(* ProfilePrefs::resolve: an empty list is the default. *)
Prefs(names) ==
  [p \in Part |-> IF names[p] = <<>> THEN <<DefaultName[p]>> ELSE names[p]]

(* parse_tag: the digits of tag_hex; 16 is one that is not hexadecimal.    *)
(* A tag that does not parse is left empty. *)
ParseTag(tag_hex) ==
  LET digits == IF tag_hex = {} THEN <<>> ELSE CHOOSE d \in tag_hex : TRUE
  IN  IF digits = <<>> THEN DEFAULT_TAG
      ELSE IF Len(digits) # 4 \/ 16 \in Range(digits) THEN <<>>
      ELSE <<16 * digits[1] + digits[2], 16 * digits[3] + digits[4]>>

(* from_role_config *)
FromRoleConfig(c) ==
  [kex |-> c.handshake.kex, propose |-> c.handshake.propose,
   envelope |-> c.transport.handshake, tag |-> ParseTag(c.transport.tag_hex),
   congestion |-> c.congestion.algorithm,
   names |-> [cipher |-> c.crypto.aead, transport |-> c.transport.data,
              fec |-> c.fec.scheme, frame |-> c.frame.codec]]

(* from_config accepts this configuration. *)
ValidConfig(c) ==
  /\ c.kex \in KexNames
  /\ c.envelope \in DOMAIN TransportIds
  /\ \A p \in Part : \A n \in Range(Prefs(c.names)[p]) : KnownName(p, n)
  /\ c.congestion \in CongestionNames
  /\ c.tag # <<>>

(* The names in l without the marker. *)
Real(l) ==
  LET real[i \in 0 .. Len(l)] ==
        IF i = 0 THEN <<>>
        ELSE IF l[i] = SAME THEN real[i - 1] ELSE Append(real[i - 1], l[i])
  IN  real[Len(l)]

(* The ids of the candidates, in order; the marker has none. *)
CandidateIds(names, p) ==
  LET real == Real(Prefs(names)[p])
  IN  [i \in DOMAIN real |-> Registry[p][real[i]]]

-----------------------------------------------------------------------------
(* The offer *)

Malformed == [malformed |-> TRUE]

NoOffer == [p \in Part |-> <<>>]

(* LocalProfile::offer. *)
OfferOf(names) == [p \in Part |-> CandidateIds(names, p)]

EncodeList(l) ==
  LET n == Min({Len(l), MAX_OFFER_ALTERNATIVES}) IN <<n>> \o SubSeq(l, 1, n)

EncodeOffer(o) ==
  <<NEGOTIATION_VERSION>> \o EncodeList(o.cipher) \o EncodeList(o.transport)
    \o EncodeList(o.fec) \o EncodeList(o.frame)

(* Cursor::take_list: the list at position pos, and the position after it. *)
TakeList(b, pos) ==
  IF \/ pos > Len(b)
     \/ b[pos] > MAX_OFFER_ALTERNATIVES
     \/ pos + b[pos] > Len(b)
    THEN Malformed
    ELSE [list |-> SubSeq(b, pos + 1, pos + b[pos]), next |-> pos + b[pos] + 1]

(* One list more, after the ones read so far. *)
TakeNext(b, read) ==
  LET taken == TakeList(b, read.next)
  IN  IF read = Malformed \/ taken = Malformed THEN Malformed
      ELSE [lists |-> Append(read.lists, taken.list), next |-> taken.next]

(* A bug: an offer without codecs is taken to list none. *)
TakeCodecsNone(b, read) ==
  IF read # Malformed /\ read.next > Len(b)
    THEN [lists |-> Append(read.lists, <<>>), next |-> read.next]
    ELSE TakeNext(b, read)

(* A peer that lists no codecs has only the first. *)
TakeCodecs(b, read) ==
  IF read # Malformed /\ read.next > Len(b)
    THEN [lists |-> Append(read.lists, <<FRAME_V1_FIXED>>), next |-> read.next]
    ELSE TakeNext(b, read)

ToOffer(read) ==
  IF read = Malformed THEN Malformed
  ELSE [cipher |-> read.lists[1], transport |-> read.lists[2], fec |-> read.lists[3],
        frame |-> read.lists[4]]

(* ClientOffer::decode *)
DecodeOffer(b) ==
  IF b = <<>> THEN NoOffer
  ELSE IF b[1] # NEGOTIATION_VERSION THEN Malformed
  ELSE ToOffer(TakeCodecs(b, TakeNext(b, TakeNext(b, TakeNext(b, [lists |-> <<>>, next |-> 2])))))

-----------------------------------------------------------------------------
(* The selection *)

EncodeSelection(s) ==
  <<NEGOTIATION_VERSION, s.cipher, s.transport, s.fec>> \o s.tag \o <<s.frame>>

SELECTION_LEGACY_LEN == 6

(* Selection::decode. *)
DecodeSelection(b) ==
  IF b = <<>> THEN Defaults
  ELSE IF b[1] # NEGOTIATION_VERSION \/ Len(b) < SELECTION_LEGACY_LEN THEN Malformed
  ELSE [cipher |-> b[2], transport |-> b[3], fec |-> b[4], tag |-> <<b[5], b[6]>>,
        frame |-> IF Len(b) > SELECTION_LEGACY_LEN THEN b[7] ELSE FRAME_V1_FIXED]

(* Selection::check. *)
Check(s) ==
  /\ s # Malformed
  /\ \A p \in Part : Buildable(p, s[p]) \/ (p = "transport" /\ s[p] = SAME_ID)

NoCommonPart == -1

(* The first of the list l that is in S. *)
First(l, S) == l[Min({i \in DOMAIN l : l[i] \in S})]

(* A bug: the client's order decides. *)
PickClientFirst(p, mine, theirs) ==
  LET common == Range(mine) \cap Range(theirs)
      built  == {id \in Range(theirs) : Buildable(p, id)}
  IN  IF theirs = <<>> THEN (IF mine = <<>> THEN Defaults[p] ELSE Head(mine))
      ELSE IF common # {} THEN First(theirs, common)
      ELSE IF built # {} THEN First(theirs, built)
      ELSE NoCommonPart

(* pick: the server's order among what the client lists, then the client's *)
(* order among what this build has. *)
Pick(p, mine, theirs) ==
  LET common == Range(mine) \cap Range(theirs)
      built  == {id \in Range(theirs) : Buildable(p, id)}
  IN  IF theirs = <<>> THEN (IF mine = <<>> THEN Defaults[p] ELSE Head(mine))
      ELSE IF common # {} THEN First(mine, common)
      ELSE IF built # {} THEN First(theirs, built)
      ELSE NoCommonPart

Selection(id, tag) ==
  [cipher |-> id.cipher, transport |-> id.transport, fec |-> id.fec, frame |-> id.frame,
   tag |-> tag]

(* A part in common for each, and a selection that passes the check. *)
Selected(s) ==
  IF (\E p \in Part : s[p] = NoCommonPart) \/ ~Check(s) THEN Malformed ELSE s

(* negotiate *)
NegotiateOffer(c, offer) ==
  Selected(Selection([p \in Part |-> Pick(p, CandidateIds(c.names, p), offer[p])], c.tag))

(* respond_message_1 takes an offer it cannot decode for none. *)
Negotiate(c, payload) ==
  NegotiateOffer(c, IF DecodeOffer(payload) = Malformed THEN NoOffer ELSE DecodeOffer(payload))

-----------------------------------------------------------------------------
(* The profile an end runs *)

(* build_transport and build_transport_id: a tagged envelope has a tag. *)
Envelope(id, tag) == IF id = 2 THEN [kind |-> "tagged", tag |-> tag] ELSE [kind |-> "plain", tag |-> <<>>]

(* The envelope of the handshake always uses the compiled-in tag. *)
HandshakeEnvelope(c) == Envelope(Registry.transport[c.envelope], DEFAULT_TAG)

(* ResolvedProfile::with_handshake_transport and from_selection. *)
Resolved(s, c) ==
  [cipher |-> s.cipher, fec |-> s.fec, codec |-> s.frame,
   transport |-> IF s.transport = SAME_ID THEN HandshakeEnvelope(c)
                 ELSE Envelope(s.transport, s.tag)]

=============================================================================
