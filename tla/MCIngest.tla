------------------------------ MODULE MCIngest ------------------------------
(***************************************************************************)
(* Small captures for Ingest: the crafted one, its messages in frames that *)
(* the sniffer reads, bundled, with their IEs in any order, cut and among  *)
(* others, every NAS message, and frames of every shape.                   *)
(***************************************************************************)
EXTENDS Ingest, MCFraming

Crafted == INSTANCE Craft

Attach == Crafted!Pdus[1]
IdentityRequest == Crafted!Pdus[2]
IdentityResponse == Crafted!Pdus[3]

DataChunk(p) == [type |-> "DATA", len |-> DataHeaderLen + Crafted!Octets(p), ppid |-> "S1AP"]

Sll(chunks, pdus) == [frame |-> Plain(chunks, 20), pdus |-> pdus]

Bundle(pdus) == Sll([i \in DOMAIN pdus |-> DataChunk(pdus[i])], pdus)

\* The first n octets of a chunk's PDU, all else as it was.
CutTo(p, n) ==
    Sll(<<DataChunk(Attach), [DataChunk(p) EXCEPT !.len = DataHeaderLen + n],
          DataChunk(IdentityResponse)>>,
        <<Attach, p, IdentityResponse>>)

WithNas(m) == Crafted!DlNasTransport(m)

\* Octets of another type than the seventeen, which is what nas None means.
Strange == <<7, 100, 1>>
Stranger ==
    [WithNas(Crafted!IdReqNas) EXCEPT !.nas = None, !.sent.nas = Strange,
                                      !.ies[3].octets = Crafted!S1ap!EncodeNas(Strange)]

Reset == [IdentityRequest EXCEPT !.sent.proc = "other"]

Answer == [IdentityRequest EXCEPT !.sent.choice = "successfulOutcome"]

\* Its claimed length leaves the last IE out, or an IE is fragmented.
Short == [Attach EXCEPT !.claimed = @ - 2]
Fragmented == [Attach EXCEPT !.ies[5].fragmented = TRUE]

NasMessages ==
    {Crafted!NasMessage(type, IF type \in {"AttachRequest", "IdentityResponse"}
                              THEN "IMSI" ELSE None, 178, <<240, 112>>) :
        type \in DOMAIN Nas!Code}

RawNasRecord ==
    [frame |-> [Plain(<<>>, 20) EXCEPT !.link = "USER1"], pdus |-> <<Attach>>]

SampleCaptures ==
    {Crafted!Capture,
     <<Bundle(<<Attach>>), Bundle(<<IdentityRequest>>), Bundle(<<IdentityResponse>>)>>,
     <<Bundle(<<Attach, IdentityRequest, IdentityResponse>>)>>,
     <<RawNasRecord, RawNasRecord>>}
    \cup {<<Bundle(<<Attach, p, IdentityResponse>>)>> :
             p \in {Stranger, Reset, Answer, Short, Fragmented}}
    \cup {<<CutTo(p, n)>> : p \in {IdentityRequest, IdentityResponse}, n \in 0 .. 26}
    \cup {<<Bundle(<<[Attach EXCEPT !.ies = ies]>>)>> : ies \in SetToSeqs(ToSet(Attach.ies))}
    \cup {<<Bundle(<<WithNas([m EXCEPT !.sht = sht])>>)>> : m \in NasMessages, sht \in 0 .. 4}
    \cup {<<[frame |-> p, pdus |-> [i \in DOMAIN p.chunks |-> IdentityRequest]]>> :
             p \in SamplePackets}

SampleStrays == {IdentityRequest, Reset}

IngestPackets == UNION {{c[i].frame : i \in DOMAIN c} : c \in SampleCaptures}
=============================================================================
