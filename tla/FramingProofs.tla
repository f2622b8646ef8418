--------------------------- MODULE FramingProofs ----------------------------
(***************************************************************************)
(* Whatever the chunks of a packet claim, the walk of framing.cpp hands    *)
(* out no octet twice, and only octets that were captured unless the IPv4  *)
(* total length leaves the header out; if it covers the header, the walk   *)
(* finds every S1AP payload that arrived whole.                            *)
(***************************************************************************)
EXTENDS SctpFraming, Recursion

\* While the walk goes on, the payloads found lie before its offset, in a packet
\* that passed the header tests.
WalkInv ==
    phase = "walk" =>
        /\ packet.link = "SLL"
        /\ CarriesSctp(packet)
        /\ \A i \in DOMAIN out : out[i].start + out[i].len <= off

FInv ==
    /\ FramingTypeOK
    /\ OnlyWrapLeavesPacket
    /\ WalkInv
    /\ phase = "link" => out = <<>>

LEMMA Words ==
    ASSUME NEW n \in U16
    PROVE  n \in Nat /\ n <= U16Max /\ U16Max \in Nat
<1>1. U16Max \in Nat
  BY DEF U16Max
<1> QED BY <1>1 DEF U16

LEMMA PacketFields ==
    ASSUME NEW p \in Packets
    PROVE  /\ p.captured \in Nat /\ p.ihl \in Nat /\ p.total \in Nat
           /\ p.total <= U16Max /\ U16Max \in Nat
           /\ p.chunks \in Seq(Chunk)
<1>1. p \in Packet
  BY PacketsAssumption
<1>2. p.captured \in Nat /\ p.chunks \in Seq(Chunk)
  BY <1>1 DEF Packet
<1>3. p.total \in Nat /\ p.total <= U16Max /\ U16Max \in Nat
  <2>1. p.total \in U16
    BY <1>1 DEF Packet
  <2> QED BY <2>1, Words
<1>4. p.ihl \in Nat
  <2>1. p.ihl \in {4 * words : words \in 0 .. 15}
    BY <1>1 DEF Packet
  <2>2. PICK words \in 0 .. 15 : p.ihl = 4 * words
    BY <2>1
  <2> QED BY <2>2
<1> QED BY <1>2, <1>3, <1>4

\* Where the total length covers the header, nothing wraps.
LEMMA Avail ==
    ASSUME NEW p \in Packets
    PROVE  /\ SctpAvail(p) \in Nat
           /\ CoversHeader(p) => SctpAvail(p) = p.total - p.ihl
<1>1. /\ p.ihl \in Nat /\ p.total \in Nat /\ p.captured \in Nat /\ p.total <= U16Max
      /\ U16Max \in Nat
      /\ SizeT \in Nat /\ Mapped \in Nat /\ p.captured + Mapped + 4 * U16Max < SizeT
  BY PacketFields, SizeAssumption
<1>2. p.total < SizeT /\ SizeT > 0
  BY <1>1
<1> DEFINE d == p.total - p.ihl
<1>3. d \in Int /\ (d >= 0 => d < SizeT)
  BY <1>1, <1>2
<1>4. d % SizeT \in Nat /\ (d >= 0 => d % SizeT = d)
  <2> HIDE DEF d
  <2> QED BY <1>1, <1>2, <1>3
<1> QED BY <1>1, <1>4 DEF SctpAvail, CoversHeader

\* An unknown PPID is the only thing about a chunk that may be read otherwise.
LEMMA ReadAs ==
    ASSUME NEW c \in Chunk, NEW o, NEW h \in AsRead(c, o)
    PROVE  /\ h \in Chunk /\ h.type = c.type /\ h.len = c.len
           /\ Captured(o, DataHeaderLen) => h = c
BY DEF AsRead, Chunk

LEMMA HeaderLength ==
    ASSUME packet \in Packets, NEW o, NEW h \in HeadersAt(o)
    PROVE  h.len \in Nat
<1>1. packet.chunks \in Seq(Chunk)
  BY PacketFields
<1>2. \A i \in DOMAIN packet.chunks : packet.chunks[i] \in Chunk
  BY <1>1
<1>3. h \in Chunk
  <2>1. CASE h \in Headers
    BY <2>1, HeadersAssumption
  <2>2. CASE h \notin Headers
    <3>1. PICK i \in ChunkAt(o) : h \in AsRead(packet.chunks[i], o)
      BY <2>2 DEF HeadersAt
    <3>2. packet.chunks[i] \in Chunk
      BY <1>2, <3>1 DEF ChunkAt
    <3> QED BY <3>1, <3>2, ReadAs
  <2> QED BY <2>1, <2>2
<1> QED
  <2>1. h.len \in U16
    BY <1>3 DEF Chunk
  <2> QED BY <2>1, Words

\* The walk moves on at least to the end of the chunk, in whole octets.
LEMMA AlignUp ==
    ASSUME NEW n \in Nat
    PROVE  Align4(n) \in Nat /\ n <= Align4(n)
BY DEF Align4

LEMMA Behind ==
    ASSUME NEW a \in Nat, NEW b \in Nat, NEW c \in Nat, NEW d \in Nat,
           a + b <= c, c <= d
    PROVE  a + b <= d
OBVIOUS

LEMMA Within ==
    ASSUME NEW i \in Nat, NEW end \in Nat, NEW t \in Nat, NEW c \in Nat,
           end <= t - i, t <= c - 16
    PROVE  16 + i + end <= c
OBVIOUS

LEMMA SpanFields ==
    ASSUME NEW s \in Seq(Span), NEW i \in DOMAIN s
    PROVE  s[i].start \in Nat /\ s[i].len \in Nat
<1>1. s[i] \in Span
  OBVIOUS
<1> QED
  BY <1>1 DEF Span

LEMMA InitFInv == Init => FInv
BY DEF Init, FInv, FramingTypeOK, OnlyWrapLeavesPacket, SpansInPacket, WalkInv, Span

\* While it is within reach of its bound, the walk is in the captured octets.
LEMMA Reached ==
    ASSUME packet \in Packets, NEW o \in Nat, NEW n \in Nat,
           packet.link = "SLL", CarriesSctp(packet), CoversHeader(packet),
           o + n <= SctpAvail(packet)
    PROVE  Captured(o, n) /\ InMemory(o, n)
<1>1. packet.captured \in Nat /\ packet.ihl \in Nat /\ packet.total \in Nat /\ Mapped \in Nat
  BY PacketFields, SizeAssumption
<1>2. o + n <= packet.total - packet.ihl
  BY Avail
<1>3. packet.total <= packet.captured - 16
  BY DEF CarriesSctp, IpAvail, SllHeaderLen
<1>4. o + n \in Nat
  OBVIOUS
<1>5. 16 + packet.ihl + (o + n) <= packet.captured
  BY <1>1, <1>2, <1>3, <1>4, Within
<1>6. Offset(packet) = 16 + packet.ihl
  BY DEF Offset, SllHeaderLen
<1> QED BY <1>1, <1>5, <1>6 DEF Captured, InMemory

\* A header that does not end the walk is read where the walk may read.
LEMMA ReadInReach ==
    ASSUME packet \in Packets, off \in Nat, NEW h, h.len \in Nat, ~Broken(h)
    PROVE  /\ off + h.len <= SctpAvail(packet)
           /\ Read(h) \in Nat /\ off + Read(h) <= SctpAvail(packet)
<1>1. SctpAvail(packet) \in Nat
  BY Avail
<1>2. h.len >= 4 /\ off + h.len <= SctpAvail(packet)
  BY <1>1 DEF Broken, ChunkHeaderLen
<1>3. Read(h) \in Nat /\ Read(h) <= h.len
  BY <1>2 DEF Read, DataHeaderLen, ChunkHeaderLen
<1> QED BY <1>1, <1>2, <1>3

LEMMA NextFInv == FInv /\ [Next]_vars => FInv'
<1> SUFFICES ASSUME FInv, [Next]_vars
             PROVE  FInv'
  OBVIOUS
<1> USE DEF FInv
<1>0. packet \in Packets /\ off \in Nat /\ out \in Seq(Span)
  BY DEF FramingTypeOK
<1>1. CASE RawNas
  <2>1. /\ out' = <<[start |-> 0, len |-> packet.captured]>>
        /\ phase' = "done" /\ packet' = packet /\ off' = off
        /\ packet.link = "USER1"
    BY <1>1 DEF RawNas
  <2>2. packet.captured \in Nat
    BY <1>0, PacketFields
  <2>3. [start |-> 0, len |-> packet.captured] \in Span
    BY <2>2 DEF Span
  <2>4. FramingTypeOK'
    BY <1>0, <2>1, <2>3 DEF FramingTypeOK
  <2>5. OnlyWrapLeavesPacket'
    BY <2>1, <2>2 DEF OnlyWrapLeavesPacket, SpansInPacket, Offset
  <2> QED
    BY <2>1, <2>4, <2>5 DEF WalkInv
<1>2. CASE Dropped
  BY <1>2 DEF Dropped, FramingTypeOK, OnlyWrapLeavesPacket, SpansInPacket, WalkInv
<1>3. CASE Enter
  <2>1. out = <<>> /\ out' = out /\ packet' = packet /\ phase' = "walk"
        /\ off' = 12 /\ packet.link = "SLL" /\ CarriesSctp(packet)
    BY <1>3 DEF Enter, CommonHeaderLen
  <2>2. FramingTypeOK'
    BY <1>0, <2>1 DEF FramingTypeOK
  <2>3. OnlyWrapLeavesPacket' /\ WalkInv'
    BY <2>1 DEF OnlyWrapLeavesPacket, SpansInPacket, WalkInv, CarriesSctp, IpAvail, SctpAvail
  <2> QED
    BY <2>1, <2>2, <2>3
<1>4. CASE NextChunk
  <2> DEFINE NewSpan(h) == [start |-> off + 16, len |-> h.len - 16]
  <2>1. PICK h \in HeadersAt(off) :
          /\ ~Broken(h)
          /\ out' = IF CarriesS1ap(h) THEN Append(out, NewSpan(h)) ELSE out
          /\ off' = off + Align4(h.len)
    BY <1>4 DEF NextChunk, DataHeaderLen
  <2>2. packet' = packet /\ phase' = phase /\ phase = "walk"
    BY <1>4 DEF NextChunk
  <2>3. packet.link = "SLL" /\ CarriesSctp(packet)
        /\ \A i \in DOMAIN out : out[i].start + out[i].len <= off
    BY <2>2 DEF WalkInv
  <2>4. h.len \in Nat
    BY <1>0, HeaderLength
  <2>5. Align4(h.len) \in Nat /\ h.len <= Align4(h.len)
    BY <2>4, AlignUp
  <2>6. off' \in Nat /\ off + h.len <= off' /\ off <= off'
    BY <1>0, <2>1, <2>4, <2>5
  <2>7. /\ packet.captured \in Nat /\ packet.ihl \in Nat /\ packet.total \in Nat
    BY <1>0, PacketFields
  <2>8. CoversHeader(packet) => 16 + packet.ihl + (off + h.len) <= packet.captured
    <3>1. off + h.len <= SctpAvail(packet)
      BY <1>0, <2>1, <2>4, ReadInReach
    <3>2. CoversHeader(packet) => Captured(off, h.len)
      BY <1>0, <2>3, <2>4, <3>1, Reached
    <3>3. Offset(packet) = 16 + packet.ihl
      BY <2>3 DEF Offset, SllHeaderLen
    <3> QED
      BY <1>0, <2>4, <2>7, <3>2, <3>3 DEF Captured
  <2>9. CASE ~CarriesS1ap(h)
    <3>1. out' = out
      BY <2>1, <2>9
    <3>2. \A i \in DOMAIN out : out[i].start \in Nat /\ out[i].len \in Nat
      BY <1>0, SpanFields
    <3>3. \A i \in DOMAIN out : out[i].start + out[i].len <= off'
      BY <1>0, <2>3, <2>6, <3>2, Behind
    <3> QED
      BY <1>0, <2>2, <2>3, <2>6, <3>1, <3>3
      DEF FramingTypeOK, OnlyWrapLeavesPacket, SpansInPacket, WalkInv, CoversHeader, Offset
  <2>10. CASE CarriesS1ap(h)
    <3>1. out' = Append(out, NewSpan(h))
      BY <2>1, <2>10
    <3>2. h.len >= 16
      BY <2>10 DEF CarriesS1ap, DataHeaderLen
    <3>3. /\ NewSpan(h) \in Span
          /\ NewSpan(h).start = off + 16
          /\ NewSpan(h).start + NewSpan(h).len = off + h.len
      BY <1>0, <2>4, <3>2 DEF Span
    <3>4. /\ out' \in Seq(Span)
          /\ DOMAIN out' = 1 .. Len(out) + 1 /\ DOMAIN out = 1 .. Len(out)
          /\ Len(out) \in Nat
          /\ out'[Len(out) + 1] = NewSpan(h)
          /\ \A i \in DOMAIN out : out'[i] = out[i]
      BY <1>0, <3>1, <3>3
    <3>5. \A i \in DOMAIN out : out[i].start \in Nat /\ out[i].len \in Nat
      BY <1>0, SpanFields
    <3>6. \A i \in DOMAIN out' : out'[i].start + out'[i].len <= off'
      <4> SUFFICES ASSUME NEW i \in DOMAIN out'
                   PROVE  out'[i].start + out'[i].len <= off'
        OBVIOUS
      <4>1. CASE i \in DOMAIN out
        <5>1. out[i].start + out[i].len <= off'
          BY <1>0, <2>3, <2>6, <3>5, <4>1, Behind
        <5> QED
          BY <3>4, <4>1, <5>1
      <4>2. CASE i = Len(out) + 1
        BY <2>6, <3>3, <3>4, <4>2
      <4> QED
        BY <3>4, <4>1, <4>2
    <3>7. CoversHeader(packet) => \A i \in DOMAIN out' :
             16 + packet.ihl + out'[i].start + out'[i].len <= packet.captured
      <4> SUFFICES ASSUME CoversHeader(packet), NEW i \in DOMAIN out'
                   PROVE  16 + packet.ihl + out'[i].start + out'[i].len
                             <= packet.captured
        OBVIOUS
      <4>1. CASE i \in DOMAIN out
        BY <2>3, <3>4, <4>1 DEF OnlyWrapLeavesPacket, SpansInPacket, Offset, SllHeaderLen
      <4>2. CASE i = Len(out) + 1
        <5> DEFINE s == NewSpan(h).start
                   l == NewSpan(h).len
        <5>1. s \in Nat /\ l \in Nat /\ s + l = off + h.len
          BY <3>3 DEF Span
        <5>2. out'[i].start = s /\ out'[i].len = l
          BY <3>4, <4>2
        <5> HIDE DEF s, l
        <5>3. 16 + packet.ihl + s + l <= packet.captured
          BY <1>0, <2>4, <2>7, <2>8, <5>1
        <5> QED
          BY <5>2, <5>3
      <4> QED
        BY <3>4, <4>1, <4>2
    <3>8. \A i, j \in DOMAIN out' :
             i < j => out'[i].start + out'[i].len <= out'[j].start
      <4> SUFFICES ASSUME NEW i \in DOMAIN out', NEW j \in DOMAIN out', i < j
                   PROVE  out'[i].start + out'[i].len <= out'[j].start
        OBVIOUS
      <4>1. i \in DOMAIN out
        BY <3>4
      <4>2. CASE j \in DOMAIN out
        BY <3>4, <4>1, <4>2 DEF OnlyWrapLeavesPacket
      <4>3. CASE j = Len(out) + 1
        BY <1>0, <2>3, <3>3, <3>4, <3>5, <4>1, <4>3
      <4> QED
        BY <3>4, <4>2, <4>3
    <3>9. FramingTypeOK'
      BY <1>0, <2>2, <2>6, <3>4 DEF FramingTypeOK
    <3>10. OnlyWrapLeavesPacket' /\ WalkInv'
      BY <2>2, <2>3, <3>6, <3>7, <3>8
      DEF OnlyWrapLeavesPacket, SpansInPacket, WalkInv, CoversHeader, Offset, SllHeaderLen
    <3> QED
      BY <2>2, <3>9, <3>10
  <2> QED
    BY <2>9, <2>10
<1>5. CASE Stop
  BY <1>5 DEF Stop, FramingTypeOK, OnlyWrapLeavesPacket, SpansInPacket, WalkInv
<1>6. CASE UNCHANGED vars
  BY <1>6 DEF vars, FramingTypeOK, OnlyWrapLeavesPacket, SpansInPacket, WalkInv
<1>7. CASE Fault
  <2>1. /\ phase = "walk" /\ phase' = "fault" /\ UNCHANGED <<packet, off, out>>
        /\ packet.link = "SLL" /\ CarriesSctp(packet)
    BY <1>7 DEF Fault, WalkInv
  <2>2. ~CoversHeader(packet)
    <3> SUFFICES ASSUME CoversHeader(packet) PROVE FALSE
      OBVIOUS
    <3>1. InMemory(off, ChunkHeaderLen)
      BY <1>0, <1>7, <2>1, Reached DEF Fault, InReach, ChunkHeaderLen
    <3>2. ASSUME NEW h \in HeadersAt(off), ~Broken(h) PROVE InMemory(off, Read(h))
      <4>1. h.len \in Nat
        BY <1>0, HeaderLength
      <4>2. Read(h) \in Nat /\ off + Read(h) <= SctpAvail(packet)
        BY <1>0, <3>2, <4>1, ReadInReach
      <4> QED BY <1>0, <2>1, <4>2, Reached
    <3> QED BY <1>7, <3>1, <3>2 DEF Fault
  <2> QED
    BY <2>1, <2>2 DEF FramingTypeOK, OnlyWrapLeavesPacket, WalkInv, CoversHeader
<1> QED
  BY <1>1, <1>2, <1>3, <1>4, <1>5, <1>6, <1>7 DEF Next

\* sll_to_s1ap_payloads hands out no octet twice, whatever the record is; and of all
\* that a record may claim only a total length below the header length, which it
\* does not test, makes it hand out or read octets beyond the captured ones.
THEOREM OnlyWrapsLeavePacket == Spec => []OnlyWrapLeavesPacket
<1>1. FInv => OnlyWrapLeavesPacket
  BY DEF FInv
<1> QED
  BY <1>1, InitFInv, NextFInv, PTL DEF Spec

\* The offset and the lengths that the walk hands out are numbers at every step, for
\* every record: past its first difference it never subtracts past zero.
THEOREM FramingTypes == Spec => []FramingTypeOK
<1>1. FInv => FramingTypeOK
  BY DEF FInv
<1> QED
  BY <1>1, InitFInv, NextFInv, PTL DEF Spec

-----------------------------------------------------------------------------
(* Every payload is found.                                                 *)

\* The sender's padding is what the walk expects of it.
LEMMA PaddedIsAligned ==
    ASSUME NEW n \in Nat
    PROVE  Padded(n) = Align4(n)
BY DEF Padded, Align4

LEMMA BeginsFacts ==
    ASSUME NEW chunks \in Seq(Chunk)
    PROVE  /\ Begins(chunks, 1) = 12
           /\ \A i \in 1 .. Len(chunks) + 1 : Begins(chunks, i) \in Nat
           /\ \A i \in 1 .. Len(chunks) :
                 /\ chunks[i].len \in Nat
                 /\ Begins(chunks, i + 1) = Begins(chunks, i) + Align4(chunks[i].len)
<1> DEFINE n == Len(chunks)
           step == [k \in 1 .. n |-> [pos \in Nat |-> pos + Padded(chunks[k].len)]]
           Is(g) == g = [k \in 1 .. n + 1 |->
                            IF k = 1 THEN CommonHeaderLen
                            ELSE g[k - 1] + Padded(chunks[k - 1].len)]
           at == CHOOSE g : Is(g)
<1>1. n \in Nat
  OBVIOUS
<1>2. ASSUME NEW k \in 1 .. n
      PROVE  /\ chunks[k].len \in Nat
             /\ Padded(chunks[k].len) = Align4(chunks[k].len)
             /\ Align4(chunks[k].len) \in Nat
  <2>1. chunks[k] \in Chunk
    OBVIOUS
  <2>2. chunks[k].len \in Nat
    <3>1. chunks[k].len \in U16
      BY <2>1 DEF Chunk
    <3> QED BY <3>1, Words
  <2> QED BY <2>2, PaddedIsAligned, AlignUp
<1>3. step \in [1 .. n -> [Nat -> Nat]]
  BY <1>2
<1>4. PICK f : Iterates(f, Nat, n, CommonHeaderLen, step)
  <2> HIDE DEF step, n
  <2>1. CommonHeaderLen \in Nat
    BY DEF CommonHeaderLen
  <2> QED BY <1>1, <1>3, <2>1, Iterated
<1>5. Is([k \in 1 .. n + 1 |-> f[k - 1]])
  <2> DEFINE g == [k \in 1 .. n + 1 |-> f[k - 1]]
  <2>1. ASSUME NEW k \in 1 .. n + 1
        PROVE  f[k - 1] = IF k = 1 THEN CommonHeaderLen
                          ELSE g[k - 1] + Padded(chunks[k - 1].len)
    <3>1. CASE k = 1
      BY <1>4, <3>1 DEF Iterates, CommonHeaderLen
    <3>2. CASE k # 1
      <4>1. k - 1 \in 1 .. n /\ k - 1 \in 1 .. n + 1 /\ k - 2 \in 0 .. n
        BY <1>1, <3>2
      <4>2. f[k - 1] = step[k - 1][f[k - 2]] /\ g[k - 1] = f[k - 2]
        BY <1>4, <4>1 DEF Iterates
      <4>3. f[k - 2] \in Nat
        BY <1>4, <4>1 DEF Iterates
      <4> QED BY <3>2, <4>1, <4>2, <4>3
    <3> QED BY <3>1, <3>2
  <2> QED BY <2>1
<1>6. Is(at)
  BY <1>5
<1>7. ASSUME NEW i \in 1 .. n + 1 PROVE Begins(chunks, i) = at[i]
  BY DEF Begins
<1> HIDE DEF at
<1>8. at[1] = 12
  BY <1>1, <1>6 DEF CommonHeaderLen
<1>9. ASSUME NEW i \in 1 .. n
      PROVE  at[i + 1] = at[i] + Align4(chunks[i].len)
  <2>1. i + 1 \in 1 .. n + 1 /\ i + 1 # 1 /\ (i + 1) - 1 = i
    BY <1>1
  <2>2. at[i + 1] = at[i] + Padded(chunks[i].len)
    BY <1>6, <2>1
  <2> QED BY <1>2, <2>2
<1>10. \A i \in 1 .. n + 1 : at[i] \in Nat
  <2> DEFINE S == {m \in Nat : m <= n => at[m + 1] \in Nat}
  <2>1. 0 \in S
    BY <1>8
  <2>2. ASSUME NEW m \in Nat, m \in S PROVE m + 1 \in S
    <3>1. CASE m + 1 <= n
      <4>1. m + 1 \in 1 .. n /\ at[m + 1] \in Nat
        BY <1>1, <2>2, <3>1
      <4>2. at[(m + 1) + 1] = at[m + 1] + Align4(chunks[m + 1].len)
        BY <1>9, <4>1
      <4>3. Align4(chunks[m + 1].len) \in Nat
        BY <1>2, <4>1
      <4> QED BY <4>1, <4>2, <4>3
    <3> QED BY <3>1
  <2> HIDE DEF S
  <2>3. \A m \in Nat : m \in S
    BY <2>1, <2>2, Induction
  <2>4. ASSUME NEW i \in 1 .. n + 1 PROVE at[i] \in Nat
    <3>1. i - 1 \in Nat /\ i - 1 <= n /\ (i - 1) + 1 = i
      BY <1>1
    <3>2. i - 1 \in S
      BY <2>3, <3>1
    <3> QED BY <3>1, <3>2 DEF S
  <2> QED BY <2>4
<1>11. 1 \in 1 .. n + 1 /\ \A i \in 1 .. n : i \in 1 .. n + 1 /\ i + 1 \in 1 .. n + 1
  BY <1>1
<1> QED BY <1>2, <1>7, <1>8, <1>9, <1>10, <1>11

\* Chunks that are no shorter than their headers begin one behind the other.
LEMMA BeginsRise ==
    ASSUME NEW chunks \in Seq(Chunk), NEW k \in 0 .. Len(chunks),
           \A i \in 1 .. k : chunks[i].len >= ChunkHeaderLen
    PROVE  \A j \in 1 .. k : Begins(chunks, j) < Begins(chunks, k + 1)
<1> DEFINE S == {m \in Nat : m <= k => \A j \in 1 .. m :
                                Begins(chunks, j) < Begins(chunks, m + 1)}
<1>1. 0 \in S
  OBVIOUS
<1>2. ASSUME NEW m \in Nat, m \in S PROVE m + 1 \in S
  <2> SUFFICES ASSUME m + 1 <= k, NEW j \in 1 .. m + 1
               PROVE  Begins(chunks, j) < Begins(chunks, (m + 1) + 1)
    OBVIOUS
  <2>1. /\ m + 1 \in 1 .. Len(chunks) /\ m + 1 \in 1 .. k
        /\ j \in 1 .. Len(chunks) + 1 /\ m + 1 \in 1 .. Len(chunks) + 1
    OBVIOUS
  <2>2. chunks[m + 1].len \in Nat /\ chunks[m + 1].len >= 4
    BY <2>1, BeginsFacts DEF ChunkHeaderLen
  <2>3. Align4(chunks[m + 1].len) \in Nat /\ Align4(chunks[m + 1].len) >= 4
    <3>1. /\ Align4(chunks[m + 1].len) \in Nat
          /\ chunks[m + 1].len <= Align4(chunks[m + 1].len)
      BY <2>2, AlignUp
    <3> QED BY <2>2, <3>1
  <2>4. /\ Begins(chunks, (m + 1) + 1) =
              Begins(chunks, m + 1) + Align4(chunks[m + 1].len)
        /\ Begins(chunks, m + 1) \in Nat /\ Begins(chunks, j) \in Nat
    BY <2>1, BeginsFacts
  <2>5. Begins(chunks, j) <= Begins(chunks, m + 1)
    <3>1. CASE j = m + 1
      BY <2>4, <3>1
    <3>2. CASE j # m + 1
      <4>1. j \in 1 .. m /\ m <= k
        BY <3>2
      <4>2. Begins(chunks, j) < Begins(chunks, m + 1)
        BY <1>2, <4>1
      <4> QED BY <2>4, <4>2
    <3> QED BY <3>1, <3>2
  <2> QED BY <2>3, <2>4, <2>5
<1> HIDE DEF S
<1>3. k \in S
  BY <1>1, <1>2, Induction
<1> QED BY <1>3 DEF S

Unbroken(p, j) ==
    /\ p.chunks[j].len >= ChunkHeaderLen
    /\ Begins(p.chunks, j) + p.chunks[j].len <= SctpAvail(p)

PayloadOf(p, i) == [start |-> Begins(p.chunks, i) + DataHeaderLen,
                    len |-> p.chunks[i].len - DataHeaderLen]

PayloadsUpto(p, k) == {PayloadOf(p, i) : i \in {j \in 1 .. k : CarriesS1ap(p.chunks[j])}}

\* The walk is in front of chunk k + 1 and has the payloads of the first k.
ReachInv ==
    phase = "walk" /\ CoversHeader(packet) =>
        \E k \in 0 .. Len(packet.chunks) :
            /\ off = Begins(packet.chunks, k + 1)
            /\ \A j \in 1 .. k : Unbroken(packet, j)
            /\ {out[i] : i \in DOMAIN out} = PayloadsUpto(packet, k)

EInv == ReachInv /\ EveryPayloadFound

\* In front of a chunk that was captured the walk reads that chunk's header.
LEMMA ReadsThere ==
    ASSUME packet \in Packets, NEW k \in 0 .. Len(packet.chunks) - 1,
           \A j \in 1 .. k : Unbroken(packet, j),
           Captured(Begins(packet.chunks, k + 1), ChunkHeaderLen),
           NEW h \in HeadersAt(Begins(packet.chunks, k + 1))
    PROVE  /\ h.type = packet.chunks[k + 1].type /\ h.len = packet.chunks[k + 1].len
           /\ Captured(Begins(packet.chunks, k + 1), DataHeaderLen) =>
                 h = packet.chunks[k + 1]
<1> DEFINE chunks == packet.chunks
           o == Begins(chunks, k + 1)
<1>1. chunks \in Seq(Chunk) /\ Len(chunks) \in Nat /\ DOMAIN chunks = 1 .. Len(chunks)
  BY PacketFields
<1>2. \A j \in 1 .. k : Begins(chunks, j) < o /\ Begins(chunks, j) \in Nat
  <2>1. \A j \in 1 .. k : chunks[j].len >= ChunkHeaderLen
    BY DEF Unbroken
  <2>2. k \in 0 .. Len(chunks)
    BY <1>1
  <2>3. \A j \in 1 .. k : Begins(chunks, j) < o
    BY <1>1, <2>1, <2>2, BeginsRise
  <2> QED BY <1>1, <2>3, BeginsFacts
<1>3. o \in Nat
  BY <1>1, BeginsFacts
<1>4. k + 1 \in ChunkAt(o)
  <2>1. k + 1 \in DOMAIN chunks /\ (k + 1) - 1 = k
    BY <1>1
  <2>2. \A j \in 1 .. (k + 1) - 1 : Begins(chunks, j) # o
    BY <1>2, <1>3, <2>1
  <2> QED BY <2>1, <2>2 DEF ChunkAt
<1>5. ASSUME NEW i \in ChunkAt(o) PROVE i = k + 1
  <2>1. i \in 1 .. Len(chunks) /\ Begins(chunks, i) = o
        /\ \A j \in 1 .. i - 1 : Begins(chunks, j) # o
    BY <1>1 DEF ChunkAt
  <2>2. ~(k + 1 < i)
    <3>1. k + 1 < i => k + 1 \in 1 .. i - 1
      BY <1>1, <2>1
    <3> QED BY <2>1, <3>1
  <2>3. ~(i < k + 1)
    <3>1. i < k + 1 => i \in 1 .. k
      BY <1>1, <2>1
    <3> QED BY <1>2, <1>3, <2>1, <3>1
  <2> QED BY <1>1, <2>1, <2>2, <2>3
<1>6. ChunkAt(o) = {k + 1}
  BY <1>4, <1>5
<1>7. h \in AsRead(chunks[k + 1], o) /\ chunks[k + 1] \in Chunk
  <2>1. k + 1 \in DOMAIN chunks
    BY <1>1
  <2>2. chunks[k + 1] \in Chunk
    BY <1>1, <2>1
  <2>3. PICK i \in ChunkAt(o) : h \in AsRead(chunks[i], o)
    BY <1>6 DEF HeadersAt
  <2> QED BY <1>6, <2>2, <2>3
<1> QED BY <1>7, ReadAs

\* Where the walk ends, the chunks behind did not arrive whole.
LEMMA IntactAre ==
    ASSUME NEW p \in Packets, NEW k \in 0 .. Len(p.chunks),
           \A j \in 1 .. k : Unbroken(p, j),
           k < Len(p.chunks) => ~Unbroken(p, k + 1)
    PROVE  Intact(p) = 1 .. k
<1>1. p.chunks \in Seq(Chunk) /\ Len(p.chunks) \in Nat
      /\ DOMAIN p.chunks = 1 .. Len(p.chunks)
  BY PacketFields
<1>2. Intact(p) = {i \in DOMAIN p.chunks : \A j \in 1 .. i : Unbroken(p, j)}
  BY DEF Intact, Unbroken
<1>3. ASSUME NEW i \in 1 .. k PROVE i \in Intact(p)
  <2>1. i \in DOMAIN p.chunks /\ \A j \in 1 .. i : j \in 1 .. k
    BY <1>1
  <2> QED BY <1>2, <2>1
<1>4. ASSUME NEW i \in Intact(p) PROVE i \in 1 .. k
  <2>1. i \in 1 .. Len(p.chunks) /\ \A j \in 1 .. i : Unbroken(p, j)
    BY <1>1, <1>2
  <2>2. i > k => k + 1 \in 1 .. i /\ k < Len(p.chunks)
    BY <1>1, <2>1
  <2> QED BY <1>1, <2>1, <2>2
<1> QED BY <1>3, <1>4

LEMMA FoundAre ==
    ASSUME NEW k, Intact(packet) = 1 .. k,
           {out[i] : i \in DOMAIN out} = PayloadsUpto(packet, k)
    PROVE  EveryPayloadFound
BY DEF EveryPayloadFound, PayloadsUpto, PayloadOf

LEMMA WalkEInv ==
    ASSUME FInv, EInv, NextChunk, CoversHeader(packet)
    PROVE  EInv'
<1> DEFINE chunks == packet.chunks
<1>1. /\ phase = "walk" /\ packet' = packet /\ phase' = phase /\ InReach
      /\ packet \in Packets /\ out \in Seq(Span) /\ off \in Nat
      /\ packet.link = "SLL" /\ CarriesSctp(packet)
  BY DEF NextChunk, FInv, FramingTypeOK, WalkInv
<1>2. PICK k \in 0 .. Len(chunks) :
          /\ off = Begins(chunks, k + 1)
          /\ \A j \in 1 .. k : Unbroken(packet, j)
          /\ {out[i] : i \in DOMAIN out} = PayloadsUpto(packet, k)
  BY <1>1 DEF EInv, ReachInv
<1>3. chunks \in Seq(Chunk) /\ Len(chunks) \in Nat /\ DOMAIN chunks = 1 .. Len(chunks)
      /\ packet.total \in Nat /\ packet.ihl \in Nat
  BY <1>1, PacketFields
<1>4. k # Len(chunks)
  <2> SUFFICES ASSUME k = Len(chunks) PROVE FALSE
    OBVIOUS
  <2>1. SctpAvail(packet) < off + ChunkHeaderLen
    BY <1>1, <1>2, <1>3, PacketEndAssumption DEF Unbroken
  <2>2. SctpAvail(packet) \in Nat
    BY <1>1, Avail
  <2> QED BY <1>1, <2>1, <2>2 DEF InReach, ChunkHeaderLen
<1>5. k \in 0 .. Len(chunks) - 1 /\ k + 1 \in DOMAIN chunks /\ k + 1 \in 1 .. Len(chunks)
      /\ k + 1 \in 0 .. Len(chunks)
  BY <1>2, <1>3, <1>4
<1> DEFINE h == chunks[k + 1]
           span == [start |-> off + DataHeaderLen, len |-> h.len - DataHeaderLen]
<1>6. h.len \in Nat /\ SctpAvail(packet) \in Nat
  BY <1>1, <1>3, <1>5, BeginsFacts, Avail
<1>7. /\ ~Broken(h)
      /\ out' = IF CarriesS1ap(h) THEN Append(out, span) ELSE out
      /\ off' = off + Align4(h.len)
  <2>1. PICK read \in HeadersAt(off) :
          /\ ~Broken(read)
          /\ out' = IF CarriesS1ap(read)
                    THEN Append(out, [start |-> off + DataHeaderLen,
                                      len |-> read.len - DataHeaderLen])
                    ELSE out
          /\ off' = off + Align4(read.len)
    BY DEF NextChunk
  <2>2. Captured(off, ChunkHeaderLen)
    BY <1>1, Reached DEF InReach, ChunkHeaderLen
  <2>3. /\ read.type = h.type /\ read.len = h.len
        /\ Captured(off, DataHeaderLen) => read = h
    BY <1>1, <1>2, <1>5, <2>2, ReadsThere
  <2>4. CASE h.len >= DataHeaderLen
    <3>1. off + h.len <= SctpAvail(packet)
      BY <1>1, <1>6, <2>1, <2>3, ReadInReach
    <3>2. DataHeaderLen \in Nat /\ off + DataHeaderLen <= SctpAvail(packet)
      <4> HIDE DEF h
      <4> QED BY <1>1, <1>6, <2>4, <3>1 DEF DataHeaderLen
    <3>3. read = h
      BY <1>1, <2>3, <3>2, Reached
    <3> QED BY <2>1, <3>3
  <2>5. CASE ~(h.len >= DataHeaderLen)
    <3>1. ~CarriesS1ap(h) /\ ~CarriesS1ap(read)
      BY <2>3, <2>5 DEF CarriesS1ap
    <3>2. ~Broken(h)
      BY <2>1, <2>3 DEF Broken
    <3> QED BY <2>1, <2>3, <3>1, <3>2
  <2> QED BY <2>4, <2>5
<1>8. off' = Begins(chunks, (k + 1) + 1)
  BY <1>2, <1>3, <1>5, <1>7, BeginsFacts
<1>9. Unbroken(packet, k + 1)
  <2>1. h.len \in Nat /\ SctpAvail(packet) \in Int
    BY <1>6
  <2>2. ~(h.len < 4) /\ ~(off + h.len > SctpAvail(packet))
    BY <1>7 DEF Broken, ChunkHeaderLen
  <2>3. h.len >= 4 /\ off + h.len <= SctpAvail(packet)
    <3> HIDE DEF h
    <3> QED BY <1>1, <2>1, <2>2
  <2> QED BY <1>2, <2>3 DEF Unbroken, ChunkHeaderLen
<1>10. \A j \in 1 .. k + 1 : Unbroken(packet, j)
  <2>1. \A j \in 1 .. k + 1 : j \in 1 .. k \/ j = k + 1
    BY <1>2
  <2> QED BY <1>2, <1>9, <2>1
<1>11. {out'[i] : i \in DOMAIN out'} = PayloadsUpto(packet, k + 1)
  <2>1. 1 .. k + 1 = 1 .. k \cup {k + 1}
    BY <1>2
  <2>2. span = PayloadOf(packet, k + 1)
    BY <1>2 DEF PayloadOf
  <2>3. CASE CarriesS1ap(h)
    <3>1. PayloadsUpto(packet, k + 1) = PayloadsUpto(packet, k) \cup {span}
      BY <2>1, <2>2, <2>3 DEF PayloadsUpto
    <3>2. /\ DOMAIN out' = DOMAIN out \cup {Len(out) + 1}
          /\ out'[Len(out) + 1] = span
          /\ \A i \in DOMAIN out : out'[i] = out[i]
      <4> HIDE DEF span, h
      <4>1. out' = Append(out, span) /\ Len(out) \in Nat /\ DOMAIN out = 1 .. Len(out)
        BY <1>1, <1>7, <2>3
      <4>2. Len(out') = Len(out) + 1 /\ DOMAIN out' = 1 .. Len(out) + 1
        BY <1>1, <4>1
      <4> QED BY <1>1, <4>1, <4>2
    <3>3. {out'[i] : i \in DOMAIN out'} = {out[i] : i \in DOMAIN out} \cup {span}
      BY <3>2
    <3> QED BY <1>2, <3>1, <3>3
  <2>4. CASE ~CarriesS1ap(h)
    <3>1. PayloadsUpto(packet, k + 1) = PayloadsUpto(packet, k)
      BY <2>1, <2>4 DEF PayloadsUpto
    <3> QED BY <1>2, <1>7, <2>4, <3>1
  <2> QED BY <2>3, <2>4
<1>12. ReachInv'
  <2>1. /\ off' = Begins(packet'.chunks, (k + 1) + 1)
        /\ \A j \in 1 .. k + 1 : Unbroken(packet', j)
        /\ {out'[i] : i \in DOMAIN out'} = PayloadsUpto(packet', k + 1)
        /\ k + 1 \in 0 .. Len(packet'.chunks)
    BY <1>1, <1>5, <1>8, <1>10, <1>11
  <2>2. \E l \in 0 .. Len(packet'.chunks) :
            /\ off' = Begins(packet'.chunks, l + 1)
            /\ \A j \in 1 .. l : Unbroken(packet', j)
            /\ {out'[i] : i \in DOMAIN out'} = PayloadsUpto(packet', l)
    BY <2>1
  <2> QED BY <2>2 DEF ReachInv
<1>13. EveryPayloadFound'
  BY <1>1 DEF EveryPayloadFound
<1> QED BY <1>12, <1>13 DEF EInv

LEMMA StopEInv ==
    ASSUME FInv, EInv, Stop, CoversHeader(packet)
    PROVE  EInv'
<1> DEFINE chunks == packet.chunks
<1>1. /\ phase = "walk" /\ phase' = "done" /\ UNCHANGED <<packet, off, out>>
      /\ packet \in Packets /\ off \in Nat
      /\ packet.link = "SLL" /\ CarriesSctp(packet)
      /\ ~InReach \/ \E h \in HeadersAt(off) : Broken(h)
  BY DEF Stop, FInv, FramingTypeOK, WalkInv
<1>2. PICK k \in 0 .. Len(chunks) :
          /\ off = Begins(chunks, k + 1)
          /\ \A j \in 1 .. k : Unbroken(packet, j)
          /\ {out[i] : i \in DOMAIN out} = PayloadsUpto(packet, k)
  BY <1>1 DEF EInv, ReachInv
<1>3. chunks \in Seq(Chunk) /\ Len(chunks) \in Nat
      /\ packet.total \in Nat /\ packet.ihl \in Nat
  BY <1>1, PacketFields
<1>4. ASSUME k < Len(chunks) PROVE ~Unbroken(packet, k + 1)
  <2>1. k \in 0 .. Len(chunks) - 1 /\ k + 1 \in 1 .. Len(chunks)
    BY <1>2, <1>3, <1>4
  <2>2. chunks[k + 1].len \in Nat
    BY <1>3, <2>1, BeginsFacts
  <2>3. ASSUME InReach, NEW h \in HeadersAt(off) PROVE h.len = chunks[k + 1].len
    <3>1. Captured(off, ChunkHeaderLen)
      BY <1>1, <2>3, Reached DEF InReach, ChunkHeaderLen
    <3> QED BY <1>1, <1>2, <2>1, <2>3, <3>1, ReadsThere
  <2> DEFINE len == chunks[k + 1].len
             avail == SctpAvail(packet)
  <2>7. len \in Nat
    BY <2>2
  <2>4. len < 4 \/ off + len > avail \/ ~(off + 4 <= avail)
    <3>1. CASE InReach
      <4>1. PICK h \in HeadersAt(off) : Broken(h)
        BY <1>1, <3>1
      <4> QED BY <2>3, <3>1, <4>1 DEF Broken, ChunkHeaderLen
    <3>2. CASE ~InReach
      BY <3>2 DEF InReach, ChunkHeaderLen
    <3> QED BY <3>1, <3>2
  <2>5. avail \in Int
    BY <1>1, Avail
  <2>6. ~(len >= 4 /\ off + len <= avail)
    <3> HIDE DEF len, avail
    <3> QED BY <1>1, <2>7, <2>4, <2>5
  <2> QED BY <1>2, <2>6 DEF Unbroken, ChunkHeaderLen
<1>5. Intact(packet) = 1 .. k
  BY <1>1, <1>2, <1>4, IntactAre
<1>6. EveryPayloadFound
  BY <1>2, <1>5, FoundAre
<1>7. EveryPayloadFound'
  <2>1. {out[i] : i \in DOMAIN out} =
            {PayloadOf(packet, i) : i \in {j \in Intact(packet) : CarriesS1ap(chunks[j])}}
    BY <1>2, <1>5 DEF PayloadsUpto
  <2>2. packet' = packet /\ out' = out
    BY <1>1
  <2> QED
    BY <2>1, <2>2 DEF EveryPayloadFound, PayloadOf, Intact, SctpAvail, CarriesS1ap,
       CarriesSctp, CoversHeader, IpAvail
<1> QED BY <1>1, <1>7 DEF EInv, ReachInv

LEMMA NextEInv == FInv /\ EInv /\ [Next]_vars => EInv'
<1> SUFFICES ASSUME FInv, EInv, [Next]_vars
             PROVE  EInv'
  OBVIOUS
<1>1. CASE RawNas
  BY <1>1 DEF RawNas, EInv, ReachInv, EveryPayloadFound
<1>2. CASE Dropped
  <2>1. CASE packet.captured = 0
    <3>1. ~CarriesSctp(packet)
      BY <2>1 DEF CarriesSctp, SllHeaderLen, Ipv4MinHeaderLen, CommonHeaderLen
    <3> QED BY <1>2, <3>1 DEF Dropped, EInv, ReachInv, EveryPayloadFound, CarriesSctp
  <2>2. CASE packet.captured # 0
    BY <1>2, <2>2 DEF Dropped, EInv, ReachInv, EveryPayloadFound, CarriesSctp
  <2> QED BY <2>1, <2>2
<1>3. CASE Enter
  <2>1. /\ out = <<>> /\ out' = out /\ packet' = packet /\ phase' = "walk"
        /\ off' = 12 /\ packet \in Packets
    BY <1>3 DEF Enter, CommonHeaderLen, FInv, FramingTypeOK
  <2>2. packet.chunks \in Seq(Chunk) /\ 0 \in 0 .. Len(packet.chunks)
    <3>1. packet.chunks \in Seq(Chunk)
      BY <2>1, PacketFields
    <3> QED BY <3>1
  <2>3. off' = Begins(packet.chunks, 0 + 1)
    BY <2>1, <2>2, BeginsFacts
  <2>4. {out[i] : i \in DOMAIN out} = PayloadsUpto(packet, 0)
    BY <2>1 DEF PayloadsUpto
  <2>5. ReachInv'
    BY <2>1, <2>2, <2>3, <2>4 DEF ReachInv, PayloadsUpto, PayloadOf, CarriesS1ap
  <2> QED BY <2>1, <2>5 DEF EInv, EveryPayloadFound
<1>4. CASE NextChunk
  <2>1. CASE CoversHeader(packet)
    BY <1>4, <2>1, WalkEInv
  <2>2. CASE ~CoversHeader(packet)
    BY <1>4, <2>2 DEF NextChunk, EInv, ReachInv, EveryPayloadFound, CoversHeader
  <2> QED BY <2>1, <2>2
<1>5. CASE Stop
  <2>1. CASE CoversHeader(packet)
    BY <1>5, <2>1, StopEInv
  <2>2. CASE ~CoversHeader(packet)
    BY <1>5, <2>2 DEF Stop, EInv, ReachInv, EveryPayloadFound, CoversHeader
  <2> QED BY <2>1, <2>2
<1>6. CASE Fault
  BY <1>6 DEF Fault, EInv, ReachInv, EveryPayloadFound
<1>7. CASE UNCHANGED vars
  <2>1. packet' = packet /\ phase' = phase /\ off' = off /\ out' = out
    BY <1>7 DEF vars
  <2>2. ReachInv'
    BY <2>1, Zenon DEF EInv, ReachInv
  <2>3. EveryPayloadFound'
    BY <2>1 DEF EInv, EveryPayloadFound, CoversHeader, CarriesSctp
  <2> QED BY <2>2, <2>3 DEF EInv
<1> QED BY <1>1, <1>2, <1>3, <1>4, <1>5, <1>6, <1>7 DEF Next

\* sll_to_s1ap_payloads finds exactly the S1AP payloads of the chunks that arrived
\* whole, however many there are, whatever their lengths and padding, as long as
\* the IPv4 total length covers its header and leaves no room for a chunk behind
\* the sender's last.
THEOREM PayloadsFound == Spec => []EveryPayloadFound
<1>1. Init => EInv
  BY DEF Init, EInv, ReachInv, EveryPayloadFound
<1>2. EInv => EveryPayloadFound
  BY DEF EInv
<1> QED
  BY <1>1, <1>2, InitFInv, NextFInv, NextEInv, PTL DEF Spec
=============================================================================
