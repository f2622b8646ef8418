------------------------------- MODULE Ingest -------------------------------
(***************************************************************************)
(* ingest_packet and insert_message over the records of one capture: the   *)
(* walk of SctpFraming finds the payloads of a record, S1apPeel takes each *)
(* apart, decode_nas reads the NAS PDU inside, and what has a direction    *)
(* and a known type becomes a row.  What the sender of a record meant is   *)
(* kept beside it, so that the rows can be compared with it.               *)
(***************************************************************************)
EXTENDS SctpFraming, SequencesExt

CONSTANTS
    None,
    Captures,  \* sequences of records
    Strays     \* what octets may hold that are not a PDU of the sender's

\* A file has one link type.  A record is the frame with, for each of its chunks, the
\* S1AP PDU in it: the message, its IEs in their order, the length it claims, and the
\* NAS message it was made for, None if it was for none of the known types.  The pdu
\* of a raw NAS record has only the NAS octets.
ASSUME CapturesAssumption ==
    /\ <<>> \notin Captures
    /\ \A c \in Captures : \A i \in DOMAIN c :
        /\ c[i].frame \in Packets
        /\ c[i].frame.link = c[1].frame.link
        /\ DOMAIN c[i].frame.chunks \subseteq DOMAIN c[i].pdus

VARIABLES
    capture,   \* the records
    at,        \* the one that is ingested
    taken,     \* how many of its payloads were looked at
    peeling,   \* "none", or the phase of peel_s1ap
    pdu, next, left, peel,   \* its variables
    rows       \* of the table messages, in the order of the INSERTs

S1apVars == <<peeling, pdu, next, left, peel>>
ingestVars == <<vars, capture, at, taken, S1apVars, rows>>

S1ap == INSTANCE S1apPeel
            WITH phase <- peeling,
                 Sent <- {p.sent : p \in UNION {ToSet(r.pdus) :
                                     r \in UNION {ToSet(c) : c \in Captures}}}
Nas == INSTANCE NasPdu

IngestInit ==
    /\ capture \in Captures
    /\ at = 1
    /\ packet = capture[1].frame /\ phase = "link" /\ off = 0 /\ out = <<>>
    /\ taken = 0
    /\ peeling = "none" /\ pdu = None /\ next = 1 /\ left = 0 /\ peel = S1ap!NoPeel
    /\ rows = <<>>

-----------------------------------------------------------------------------

\* link_payloads
Frame ==
    /\ Next
    /\ UNCHANGED <<capture, at, taken, S1apVars, rows>>

Pending == phase = "done" /\ peeling = "none" /\ taken < Len(out)

Payload == out[taken + 1]

\* The first n octets of a PDU.
UpTo(p, n) ==
    [sent |-> p.sent, ies |-> p.ies, claimed |-> p.claimed,
     cut |-> S1ap!Header(p.ies) + S1ap!Body(p.ies) - n]

\* What may be in a payload: the PDU of the chunk there, as much of it as the payload
\* has; where no chunk begins, or behind the captured octets, anything.
PdusIn(payload) ==
    LET chunk == {i \in DOMAIN packet.chunks :
                    /\ Begins(packet.chunks, i) + DataHeaderLen = payload.start
                    /\ Captured(payload.start, payload.len)}
    IN  {UpTo(p, payload.len) :
            p \in IF chunk = {} THEN Strays ELSE {capture[at].pdus[i] : i \in chunk}}

\* The next payload is given to peel_s1ap.
Unwrap ==
    /\ Pending /\ packet.link = "SLL"
    /\ pdu' \in PdusIn(Payload)
    /\ peeling' = "header" /\ next' = 1 /\ left' = 0 /\ peel' = S1ap!NoPeel
    /\ UNCHANGED <<vars, capture, at, taken, rows>>

PeelOn ==
    /\ S1ap!Next
    /\ UNCHANGED <<vars, capture, at, taken, rows>>

Direction == [InitialUEMessage     |-> "UL",
              DownlinkNASTransport |-> "DL",
              UplinkNASTransport   |-> "UL"]

Row(direction, ids, nas) ==
    [direction |-> direction, type |-> nas.type, identity |-> nas.identity,
     eea |-> nas.eea, eia |-> nas.eia, ueEea |-> nas.ueEea, ueEia |-> nas.ueEia,
     cause |-> nas.cause,
     enb |-> ids.enb, mme |-> ids.mme, plmn |-> ids.plmn, cell |-> ids.cell]

\* The rows that insert_message adds for a message: one or none.
Inserted(proc, ids, nas) ==
    IF proc \in DOMAIN Direction /\ nas # Nas!Nothing /\ nas.type # Nas!Unknown
    THEN <<Row(Direction[proc], ids, nas)>> ELSE <<>>

MEmitS1ap ==
    /\ peeling \in {"peeled", "rejected"}
    /\ peeling' = "none" /\ taken' = taken + 1
    /\ \E nas \in {Nas!Decode(peel.nas)} :
          rows' = rows \o Inserted(pdu.sent.proc, peel, nas)
    /\ UNCHANGED <<vars, capture, at, pdu, next, left, peel>>

\* emit_s1ap, when peel_s1ap has returned something.
EmitS1ap ==
    /\ peeling \in {"peeled", "rejected"}
    /\ peeling' = "none" /\ taken' = taken + 1
    /\ \E nas \in {IF peeling = "peeled" THEN Nas!Decode(peel.nas) ELSE Nas!Nothing} :
          rows' = rows \o Inserted(pdu.sent.proc, peel, nas)
    /\ UNCHANGED <<vars, capture, at, pdu, next, left, peel>>

\* emit_nas: a message without a procedure code.
EmitNas ==
    /\ Pending /\ packet.link = "USER1"
    /\ taken' = taken + 1
    /\ \E nas \in {Nas!Decode(capture[at].pdus[1].sent.nas)} :
          rows' = rows \o Inserted(None, S1ap!NoPeel, nas)
    /\ UNCHANGED <<vars, capture, at, S1apVars>>

Ingested == phase = "done" /\ peeling = "none" /\ taken = Len(out)

\* pcap_next_ex gives the next record.
NextRecord ==
    /\ Ingested /\ at < Len(capture)
    /\ at' = at + 1
    /\ packet' = capture[at'].frame /\ phase' = "link" /\ off' = 0 /\ out' = <<>>
    /\ taken' = 0
    /\ UNCHANGED <<capture, S1apVars, rows>>

IngestNext == Frame \/ Unwrap \/ PeelOn \/ EmitS1ap \/ EmitNas \/ NextRecord

\* The sniffer is not killed here; Pipeline has that.
IngestSpec ==
    /\ IngestInit /\ [][IngestNext]_ingestVars
    /\ WF_ingestVars(IngestNext)

-----------------------------------------------------------------------------
(* Properties                                                              *)

\* The PDU of chunk i of a record is there from its first octet to its last, in a
\* form the code handles, and carries a message of a known type.
Readable(r, i) ==
    LET p == r.pdus[i]
    IN  /\ CarriesS1ap(r.frame.chunks[i])
        /\ r.frame.chunks[i].len - DataHeaderLen = S1ap!Header(p.ies) + S1ap!Body(p.ies)
        /\ p.claimed = S1ap!Body(p.ies)
        /\ \A k \in DOMAIN p.ies : ~p.ies[k].fragmented
        /\ S1ap!CarriesNas(p.sent)
        /\ p.nas # None

\* What the sender meant by it.
Meant(p) ==
    Row(IF p.sent.proc = "DownlinkNASTransport" THEN "DL" ELSE "UL",
        S1ap!Meaning(p.sent), Nas!Meaning(p.nas))

MeantBy(r) ==
    IF r.frame.link # "SLL" \/ ~CarriesSctp(r.frame) THEN <<>>
    ELSE LET whole == SelectSeq([i \in DOMAIN r.frame.chunks |-> i],
                                LAMBDA i : i \in Intact(r.frame) /\ Readable(r, i))
         IN  [k \in DOMAIN whole |-> Meant(r.pdus[whole[k]])]

\* From the wire to the table: the rows are what the senders meant, one for each
\* message that arrived whole, in the order they were sent, however the messages
\* are bundled in chunks and their IEs ordered; a message that is cut, not S1AP or
\* of an unknown type adds nothing and takes nothing from its neighbours.  (From a
\* packet with a total length below its header length on, the rows may be anything.)
RowsAreTheMessages ==
    LET meant == FlattenSeq([i \in 1 .. Len(capture) |-> MeantBy(capture[i])])
    IN  (\A i \in 1 .. at : CoversHeader(capture[i].frame)) =>
        /\ IsPrefix(rows, meant)
        /\ Ingested /\ at = Len(capture) => rows = meant

\* The capture is read to its end, whatever lengths its packets and chunks claim,
\* unless the walk reads where there is no memory.
CaptureEnds == <>(phase = "fault" \/ (Ingested /\ at = Len(capture)))
=============================================================================
