------------------------ MODULE StreamSlotForwarder ------------------------
(***************************************************************************)
(* MeshForwarder's byte lane (av-contrib.rs): a stream slot becomes one    *)
(* RaptorQ block of packets.  The ids it has on the wire are reserved      *)
(* before it is encoded, from two shared counters that wrap, so that slots *)
(* are encoded and sent by several tasks at once.  The callers are raw     *)
(* ingest requests, which forward each chunk of their body as a slot,      *)
(* authorised requests with a limit on the datagram, and opaque audio      *)
(* parts, which are numbered first and may go to the relay session         *)
(* afterwards or instead.  Media access units go to a socket of their own, *)
(* with the ids of an encoder that they share.                             *)
(*                                                                         *)
(* External: the RaptorQ encoder, the sockets and the relay session, all   *)
(* of which may fail.  Abstracted: bytes and durations.                    *)
(***************************************************************************)
EXTENDS Integers, FiniteSets

CONSTANTS
  Caller,        \* the tasks that forward
  Sizes,         \* the payload sizes of slots
  Limits,        \* datagram limits of leases
  NoLimit,
  SymbolSize,    \* args.symbol_size
  Overhead,      \* of a datagram around its symbol
  RepairSymbols, \* per legacy block, args.repair_symbols
  LegacySymbols, \* DEFAULT_SOURCE_SYMBOLS
  MaxPayload,    \* MAX_STREAM_FEC_OBJECT_BYTES
  MaxSource,     \* MAX_SOURCE_SYMBOLS_PER_BLOCK
  MaxSymbol,     \* u16::MAX, of the type of a symbol's size
  MaxDatagrams,  \* MAX_STREAM_FEC_DATAGRAMS
  IdSpace,       \* 2^32
  MaxForwarded,  \* bound: slots
  NoPart         \* a slot that is not an opaque part

ASSUME ForwarderAssumption ==
  /\ Sizes \subseteq Nat /\ Limits \subseteq Nat
  /\ {SymbolSize, LegacySymbols, IdSpace} \subseteq Nat \ {0}
  /\ {Overhead, RepairSymbols, MaxPayload, MaxSource, MaxSymbol, MaxDatagrams,
      MaxForwarded} \subseteq Nat

VARIABLES
  nextBlock, nextPacket,   \* next_byte_block_id, next_byte_packet_sequence
  exclusive, relay,        \* relay_exclusive, and whether there is a relay
  nextNumber,              \* canonical_sequences of the one stream
  nextFrame,               \* the frames the media encoder has encoded
  slot,                    \* the slot each caller is at
  slots,                   \* slots begun so far
  forwarded, errors,       \* the payloads and errors of mesh_stream and mesh_media
  wire,                    \* history: the packets sent
  post,                    \* the raw request each caller serves
  acknowledged             \* history: the raw requests acknowledged

forwarderVars == <<nextBlock, nextPacket, exclusive, relay, nextNumber, nextFrame,
                   slot, slots, forwarded, errors, wire, post, acknowledged>>
others == <<exclusive, relay, acknowledged>>
results == <<forwarded, errors>>

Idle == [at |-> "idle", id |-> 0, size |-> 0, symbol |-> 0, limit |-> NoLimit,
         block |-> 0, first |-> 0, sent |-> 0, part |-> NoPart, frame |-> FALSE]
\* The chunks of the body that were slots, and the datagrams they became.
NoPost == [chunks |-> {}, datagrams |-> 0]

\* The counters start at zero and wrap: a process that has run for long may
\* stand anywhere.
ForwarderInit ==
  /\ nextBlock \in {0, IdSpace - 1}
  /\ nextPacket \in {0, IdSpace - 1}
  /\ relay \in BOOLEAN
  /\ exclusive \in BOOLEAN /\ (exclusive => relay)
  /\ nextNumber = 0 /\ nextFrame = 0
  /\ slot = [c \in Caller |-> Idle]
  /\ slots = 0
  /\ forwarded = 0 /\ errors = 0
  /\ wire = {}
  /\ post = [c \in Caller |-> NoPost] /\ acknowledged = {}

-----------------------------------------------------------------------------
\* stream_fec_geometry.

CeilDiv(a, b) == (a + b - 1) \div b

BlockRepair(size, symbol) == RepairSymbols * CeilDiv(size, LegacySymbols * symbol)
PacketCount(size, symbol) == CeilDiv(size, symbol) + BlockRepair(size, symbol)

\* What the encoder makes of the slot.
Encoded(size, symbol) == CeilDiv(size, symbol) + BlockRepair(size, symbol)

FitsGeometry(size, symbol) ==
  /\ size <= MaxPayload /\ size <= MaxSource * symbol
  /\ PacketCount(size, symbol) <= MaxDatagrams

-----------------------------------------------------------------------------
\* A limit shortens the symbols; one that leaves no room for any, or more than the
\* type of their size can hold, is refused.
Accepted(limit) == limit # NoLimit => limit - Overhead \in 1 .. MaxSymbol
SymbolFor(limit) ==
  IF limit = NoLimit \/ limit - Overhead > SymbolSize THEN SymbolSize
  ELSE limit - Overhead

Ends(c) == slot' = [slot EXCEPT ![c] = Idle]
Fails(c) ==
  /\ Ends(c)
  /\ errors' = errors + 1
  /\ post' = [post EXCEPT ![c] = NoPost]
  /\ UNCHANGED forwarded

\* forward_stream_slot_with_limit up to the geometry; an empty slot and a limit
\* that is refused return at once.
Begin(c, size, limit) ==
  LET symbol == SymbolFor(limit)
  IN  /\ slot[c].at = "idle" /\ slots < MaxForwarded
      /\ size > 0 /\ Accepted(limit)
      /\ limit # NoLimit => post[c] = NoPost
      /\ slots' = slots + 1
      /\ IF FitsGeometry(size, symbol)
         THEN /\ slot' = [slot EXCEPT ![c] =
                            [Idle EXCEPT !.at = "block", !.id = slots + 1, !.size = size,
                                         !.symbol = symbol, !.limit = limit]]
              /\ post' = IF limit = NoLimit
                         THEN [post EXCEPT ![c].chunks = @ \cup {slots + 1}] ELSE post
              /\ UNCHANGED results
         ELSE Fails(c)
      /\ UNCHANGED <<nextBlock, nextPacket, nextFrame, others, nextNumber, wire>>

\* TelemetryFmp4Publisher and MeshForwarder::publish_opaque_part: the part takes
\* its number; then its object may not build, or be too large for the byte lane.
BeginPart(c, size, builds) ==
  /\ slot[c].at = "idle" /\ slots < MaxForwarded
  /\ size > 0
  /\ post[c] = NoPost
  /\ slots' = slots + 1
  /\ nextNumber' = nextNumber + 1
  /\ IF builds /\ ~exclusive /\ ~FitsGeometry(size, SymbolSize)
     THEN Fails(c)
     ELSE /\ slot' = [slot EXCEPT ![c] =
               IF ~builds THEN Idle
               ELSE [Idle EXCEPT !.at = IF exclusive THEN "relay" ELSE "block",
                                 !.id = slots + 1, !.size = size,
                                 !.symbol = SymbolSize, !.part = nextNumber]]
          /\ UNCHANGED <<results, post>>
  /\ UNCHANGED <<nextBlock, nextPacket, nextFrame, others, wire>>

\* forward_media_access_unit: the frame is encoded, under the lock of the encoder,
\* which numbers it.  No caller gives it a limit.
BeginFrame(c, size) ==
  /\ slot[c].at = "idle" /\ slots < MaxForwarded
  /\ post[c] = NoPost
  /\ slots' = slots + 1
  /\ slot' = [slot EXCEPT ![c] = [Idle EXCEPT !.at = "frame", !.id = slots + 1, !.size = size,
                                            !.symbol = SymbolSize, !.frame = TRUE]]
  /\ UNCHANGED <<nextBlock, nextPacket, nextFrame, others, nextNumber, results, wire, post>>

EncodeFrame(c, ok) ==
  /\ slot[c].at = "frame"
  /\ IF ok THEN /\ slot' = [slot EXCEPT ![c].at = "send", ![c].block = nextFrame]
                /\ nextFrame' = nextFrame + 1
                /\ UNCHANGED <<results, post>>
     ELSE Fails(c) /\ UNCHANGED nextFrame
  /\ UNCHANGED <<nextBlock, nextPacket, others, nextNumber, slots, wire>>

\* The two reservations, each a fetch_add of its own.
ReserveBlock(c) ==
  /\ slot[c].at = "block"
  /\ nextBlock' = (nextBlock + 1) % IdSpace
  /\ slot' = [slot EXCEPT ![c].at = "packets", ![c].block = nextBlock]
  /\ UNCHANGED <<nextPacket, nextFrame, others, nextNumber, slots, results, wire, post>>

\* Mutant of ReservePackets: one number is taken for the block.
ReservePacketsOne(c) ==
  /\ slot[c].at = "packets"
  /\ nextPacket' = (nextPacket + 1) % IdSpace
  /\ slot' = [slot EXCEPT ![c].at = "encode", ![c].first = nextPacket]
  /\ UNCHANGED <<nextBlock, nextFrame, others, nextNumber, slots, results, wire, post>>

ReservePackets(c) ==
  /\ slot[c].at = "packets"
  /\ nextPacket' = (nextPacket + PacketCount(slot[c].size, slot[c].symbol)) % IdSpace
  /\ slot' = [slot EXCEPT ![c].at = "encode", ![c].first = nextPacket]
  /\ UNCHANGED <<nextBlock, nextFrame, others, nextNumber, slots, results, wire, post>>

\* encode_stream_fec_payload, which refuses what is not the number of packets that was
\* reserved; then the limit on every datagram.
EncodeSlot(c, ok) ==
  LET s == slot[c]
      asReserved == Encoded(s.size, s.symbol) = PacketCount(s.size, s.symbol)
      tooLong == s.limit # NoLimit /\ s.symbol + Overhead > s.limit
  IN  /\ s.at = "encode"
      /\ IF ~(ok /\ asReserved) THEN Fails(c)
         ELSE /\ IF tooLong THEN Ends(c) ELSE slot' = [slot EXCEPT ![c].at = "send"]
              /\ UNCHANGED <<results, post>>
      /\ UNCHANGED <<nextBlock, nextPacket, nextFrame, others, nextNumber, slots, wire>>

Sending(c) == slot[c].at = "send" /\ slot[c].sent < Encoded(slot[c].size, slot[c].symbol)

SendPacket(c) ==
  LET s == slot[c]
  IN  /\ Sending(c)
      /\ wire' = wire \cup {[id |-> s.id, frame |-> s.frame, block |-> s.block, index |-> s.sent,
                             packet |-> (s.first + s.sent) % IdSpace,
                             bytes |-> s.symbol + Overhead, limit |-> s.limit]}
      /\ slot' = [slot EXCEPT ![c].sent = @ + 1]
      /\ UNCHANGED <<nextBlock, nextPacket, nextFrame, others, nextNumber, slots, results, post>>

SendPacketFails(c) ==
  /\ Sending(c)
  /\ Fails(c)
  /\ UNCHANGED <<nextBlock, nextPacket, nextFrame, others, nextNumber, slots, wire>>

\* The whole slot is out; a part goes on to the relay session, if there is one.
Sent(c) ==
  /\ slot[c].at = "send" /\ ~Sending(c)
  /\ forwarded' = forwarded + 1
  /\ IF slot[c].part # NoPart /\ relay THEN slot' = [slot EXCEPT ![c].at = "relay"]
     ELSE Ends(c)
  /\ post' = IF slot[c].id \in post[c].chunks
             THEN [post EXCEPT ![c].datagrams = @ + slot[c].sent] ELSE post
  /\ UNCHANGED <<nextBlock, nextPacket, nextFrame, others, nextNumber, slots, errors, wire>>

\* See RelayLanes; its failures are counted there.
Relayed(c) ==
  /\ slot[c].at = "relay"
  /\ Ends(c)
  /\ UNCHANGED <<nextBlock, nextPacket, nextFrame, others, nextNumber, slots, results, wire, post>>

\* The body of a raw request ends, with every chunk forwarded: record_raw_http and
\* the acknowledgement.  A chunk that failed has ended the request.
Acknowledge(c) ==
  /\ slot[c].at = "idle" /\ post[c] # NoPost
  /\ acknowledged' = acknowledged \cup {post[c]}
  /\ post' = [post EXCEPT ![c] = NoPost]
  /\ UNCHANGED <<nextBlock, nextPacket, nextFrame, exclusive, relay, nextNumber, slot, slots,
                 results, wire>>

ForwarderNext ==
  \E c \in Caller :
    \/ \E size \in Sizes :
         \/ \E limit \in Limits \cup {NoLimit} : Begin(c, size, limit)
         \/ \E builds \in BOOLEAN : BeginPart(c, size, builds)
         \/ BeginFrame(c, size)
    \/ ReserveBlock(c) \/ ReservePackets(c)
    \/ \E ok \in BOOLEAN : EncodeSlot(c, ok) \/ EncodeFrame(c, ok)
    \/ SendPacket(c) \/ SendPacketFails(c) \/ Sent(c) \/ Relayed(c)
    \/ Acknowledge(c)

ForwarderSpec == ForwarderInit /\ [][ForwarderNext]_forwarderVars

-----------------------------------------------------------------------------
\* Types.
ForwarderTypeOK ==
  /\ nextBlock \in 0 .. IdSpace - 1 /\ nextPacket \in 0 .. IdSpace - 1
  /\ \A c \in Caller :
       /\ slot[c].at \in {"idle", "block", "packets", "frame", "encode", "send", "relay"}
       /\ slot[c].part \in {NoPart} \cup 0 .. nextNumber - 1
  /\ forwarded + errors <= slots

\* However slots overlap between the two reservations and on the socket, and
\* where the counters wrap, no packet number is used twice, a block is one slot
\* and its packets are numbered without a hole from its first; and no datagram
\* of an authorised slot is longer than its lease allows (lines 1461-1580,
\* 7402-7495).  As on the wire, for fewer packets than there are numbers.
\* A raw request is acknowledged for the datagrams of its own that went out, all of
\* them, whatever else was sent meanwhile (lines 6461-6497).
WireNamesOneSlot ==
  /\ \A x, y \in wire : x.frame = y.frame =>
       /\ ~x.frame /\ x.packet = y.packet => x = y
       /\ (x.block = y.block) = (x.id = y.id)
       /\ x.id = y.id => (x.packet - y.packet) % IdSpace = (x.index - y.index) % IdSpace
       /\ x.limit # NoLimit => x.bytes <= x.limit
  /\ \A p \in acknowledged : p.datagrams = Cardinality({x \in wire : x.id \in p.chunks})

=============================================================================
