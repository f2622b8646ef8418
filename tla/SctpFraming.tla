---------------------------- MODULE SctpFraming -----------------------------
(***************************************************************************)
(* framing.cpp: from a pcap record to the S1AP payloads inside it.  Of a   *)
(* record only what the code looks at is kept: the header fields it tests, *)
(* and the SCTP chunks as the sender laid them out, one after the other on *)
(* four-octet boundaries.  Offsets count from the SCTP common header, as   *)
(* in the code.  What the walk would read at an offset where no chunk of   *)
(* the sender begins, or behind the captured octets, is not known: it may  *)
(* be anything, and far enough behind them the read ends the process.      *)
(***************************************************************************)
EXTENDS Integers, Sequences

CONSTANTS
    Packets,
    Headers,   \* what may be read where no chunk of the sender begins
    SizeT,     \* how many values a size_t has
    Mapped     \* how many octets behind a record's last can be read

U16Max == 65535
U16 == 0 .. U16Max

Chunk == [type : {"DATA", "other"}, len : U16, ppid : {"S1AP", "other"}]

Packet == [link     : {"USER1", "SLL", "other"},
           captured : Nat,
           etype    : {"IPv4", "other"},
           version  : 0 .. 15,
           ihl      : {4 * words : words \in 0 .. 15},
           total    : U16,        \* the IPv4 total length
           proto    : {"SCTP", "other"},
           chunks   : Seq(Chunk)]

ASSUME PacketsAssumption == Packets \subseteq Packet
ASSUME HeadersAssumption == Headers \subseteq Chunk

\* No offset that can be read, and no length added to it, comes near the last size_t.
ASSUME SizeAssumption ==
    /\ SizeT \in Nat /\ Mapped \in Nat
    /\ \A p \in Packets : p.captured + Mapped + 4 * U16Max < SizeT

VARIABLES
    packet,   \* the record
    phase,    \* "link", "walk" over the chunks, "done", or "fault": the process died
    off,      \* the walk's offset
    out       \* the payloads found: where they start and how long they are

vars == <<packet, phase, off, out>>

SllHeaderLen == 16
Ipv4MinHeaderLen == 20
CommonHeaderLen == 12
ChunkHeaderLen == 4
DataHeaderLen == 16

MAlign4(n) == n

Align4(n) == ((n + 3) \div 4) * 4

IpAvail(p) == p.captured - SllHeaderLen

\* The difference is a size_t: where the total length is below the header length it
\* is almost the largest there is.
SctpAvail(p) == (p.total - p.ihl) % SizeT

\* The total length covers the header.
CoversHeader(p) == p.ihl <= p.total

CarriesSctp(p) ==
    /\ p.captured >= SllHeaderLen + Ipv4MinHeaderLen + CommonHeaderLen
    /\ p.etype = "IPv4"
    /\ p.version = 4
    /\ Ipv4MinHeaderLen <= p.ihl /\ p.ihl <= IpAvail(p)
    /\ p.total <= IpAvail(p)
    /\ p.proto = "SCTP"
    /\ SctpAvail(p) >= CommonHeaderLen

-----------------------------------------------------------------------------
(* Where the sender put its chunks.                                        *)

Padded(n) == n + ((-n) % 4)

Begins(chunks, i) ==
    LET at[k \in 1 .. Len(chunks) + 1] ==
            IF k = 1 THEN CommonHeaderLen ELSE at[k - 1] + Padded(chunks[k - 1].len)
    IN  at[i]

\* Behind its last chunk a packet that the walk enters has no room for another, if
\* it has room for chunks at all.
ASSUME PacketEndAssumption ==
    \A p \in Packets :
        /\ CarriesSctp(p) /\ CoversHeader(p)
        /\ (\A i \in DOMAIN p.chunks : p.chunks[i].len >= ChunkHeaderLen)
        => SctpAvail(p) < Begins(p.chunks, Len(p.chunks) + 1) + ChunkHeaderLen

\* The chunk laid out at offset o, in a set that is empty when there is none.  (One
\* that claims no length at all begins where its successor does, and is read first.)
ChunkAt(o) ==
    {i \in DOMAIN packet.chunks :
        /\ Begins(packet.chunks, i) = o
        /\ \A j \in 1 .. i - 1 : Begins(packet.chunks, j) # o}

\* What offsets count from: the record itself, or the SCTP common header.
Offset(p) == IF p.link = "USER1" THEN 0 ELSE SllHeaderLen + p.ihl

\* n octets from offset o on lie in the record, or at least in memory.
Captured(o, n) == Offset(packet) + o + n <= packet.captured
InMemory(o, n) == Offset(packet) + o + n <= packet.captured + Mapped

\* The PPID stands behind the chunk header, and may be what was not captured.
AsRead(c, o) ==
    IF Captured(o, DataHeaderLen) THEN {c}
    ELSE {[c EXCEPT !.ppid = ppid] : ppid \in {"S1AP", "other"}}

\* What is read as a chunk header at offset o.
HeadersAt(o) ==
    IF ChunkAt(o) = {} \/ ~Captured(o, ChunkHeaderLen) THEN Headers
    ELSE UNION {AsRead(packet.chunks[i], o) : i \in ChunkAt(o)}

-----------------------------------------------------------------------------

Init ==
    /\ packet \in Packets
    /\ phase = "link"
    /\ off = 0
    /\ out = <<>>

\* The whole record is a NAS PDU.
RawNas ==
    /\ phase = "link"
    /\ packet.link = "USER1"
    /\ packet.captured > 0
    /\ out' = <<[start |-> 0, len |-> packet.captured]>>
    /\ phase' = "done"
    /\ UNCHANGED <<packet, off>>

Dropped ==
    /\ phase = "link"
    /\ \/ packet.captured = 0
       \/ packet.link = "other"
       \/ packet.link = "SLL" /\ ~CarriesSctp(packet)
    /\ phase' = "done"
    /\ UNCHANGED <<packet, off, out>>

Enter ==
    /\ phase = "link"
    /\ packet.link = "SLL"
    /\ CarriesSctp(packet)
    /\ phase' = "walk"
    /\ off' = CommonHeaderLen
    /\ UNCHANGED <<packet, out>>

MBroken(h) == h.len < ChunkHeaderLen

MBrokenZero(h) == off + h.len > SctpAvail(packet)

\* A header that ends the walk.
Broken(h) == h.len < ChunkHeaderLen \/ off + h.len > SctpAvail(packet)

MCarriesS1ap(h) == h.type = "DATA" /\ h.ppid = "S1AP"

CarriesS1ap(h) == h.type = "DATA" /\ h.len >= DataHeaderLen /\ h.ppid = "S1AP"

InReach == off + ChunkHeaderLen <= SctpAvail(packet)

\* The PPID of a DATA chunk is looked at once its length has passed.
Read(h) == IF h.type = "DATA" /\ h.len >= DataHeaderLen THEN DataHeaderLen ELSE ChunkHeaderLen

NextChunk ==
    /\ phase = "walk" /\ InReach
    /\ \E h \in HeadersAt(off) :
          /\ ~Broken(h) /\ InMemory(off, Read(h))
          /\ out' = IF CarriesS1ap(h)
                    THEN Append(out, [start |-> off + DataHeaderLen,
                                      len |-> h.len - DataHeaderLen])
                    ELSE out
          /\ off' = off + Align4(h.len)
    /\ UNCHANGED <<packet, phase>>

Stop ==
    /\ phase = "walk"
    /\ \/ ~InReach
       \/ InMemory(off, ChunkHeaderLen) /\ \E h \in HeadersAt(off) : Broken(h)
    /\ phase' = "done"
    /\ UNCHANGED <<packet, off, out>>

\* The walk reads where there is no memory.
Fault ==
    /\ phase = "walk" /\ InReach
    /\ \/ ~InMemory(off, ChunkHeaderLen)
       \/ \E h \in HeadersAt(off) : ~Broken(h) /\ ~InMemory(off, Read(h))
    /\ phase' = "fault"
    /\ UNCHANGED <<packet, off, out>>

Next == RawNas \/ Dropped \/ Enter \/ NextChunk \/ Stop \/ Fault

Spec == Init /\ [][Next]_vars

-----------------------------------------------------------------------------
(* Properties                                                              *)

Span == [start : Nat, len : Nat]

FramingTypeOK ==
    /\ packet \in Packets
    /\ phase \in {"link", "walk", "done", "fault"}
    /\ off \in Nat
    /\ out \in Seq(Span)

\* What framing.hpp says of the payloads, that they are payloads of chunks in the
\* record: each lies inside the octets that were captured.
SpansInPacket ==
    \A i \in DOMAIN out : Offset(packet) + out[i].start + out[i].len <= packet.captured

\* Whatever the packet, no octet is handed to the S1AP decoder twice; and nothing but
\* a total length below the header length takes the walk, or a payload, out of the
\* captured octets, whatever the chunks claim.
OnlyWrapLeavesPacket ==
    /\ \A i, j \in DOMAIN out : i < j => out[i].start + out[i].len <= out[j].start
    /\ CoversHeader(packet) => SpansInPacket /\ phase # "fault"

\* The chunks of a packet that arrived whole, up to the first that is broken.
Intact(p) ==
    {i \in DOMAIN p.chunks :
        \A j \in 1 .. i : /\ p.chunks[j].len >= ChunkHeaderLen
                          /\ Begins(p.chunks, j) + p.chunks[j].len <= SctpAvail(p)}

\* Exactly the S1AP payloads of the sender's chunks are found, however many
\* chunks are bundled in the packet and whatever their padding.
EveryPayloadFound ==
    phase = "done" /\ packet.link = "SLL" /\ CarriesSctp(packet) /\ CoversHeader(packet) =>
        LET mine == {i \in Intact(packet) : CarriesS1ap(packet.chunks[i])}
        IN  {out[k] : k \in DOMAIN out} =
               {[start |-> Begins(packet.chunks, i) + DataHeaderLen,
                 len |-> packet.chunks[i].len - DataHeaderLen] : i \in mine}
=============================================================================
