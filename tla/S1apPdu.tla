------------------------------ MODULE S1apPdu -------------------------------
(***************************************************************************)
(* What senders put into the octets of one S1AP PDU: the list of its       *)
(* protocol IEs, each with the octets of its open-type value.  The octets  *)
(* of the framing around the values count but are not spelled out.         *)
(***************************************************************************)
EXTENDS Integers, Sequences

CONSTANT None

Octet == 0 .. 255
Octets == Seq(Octet)

\* NAS-carrying messages, and with the procedure "other" all the rest.  A UE id
\* is the sequence of its octets.
Message == [proc : {"InitialUEMessage", "DownlinkNASTransport",
                    "UplinkNASTransport", "other"},
            choice : {"initiatingMessage", "successfulOutcome", "extension"},
            mme : Octets, enb : Octets, plmn : Octets,
            cell : Nat \cup {None}, nas : Octets]

\* Big-endian.
Value(octets) ==
    LET v[k \in 0 .. Len(octets)] == IF k = 0 THEN 0 ELSE v[k - 1] * 256 + octets[k]
    IN  v[Len(octets)]

LengthDeterminant(n) ==
    IF n < 128 THEN <<n>> ELSE <<128 + (n \div 256), n % 256>>

EncodeNas(nas) == LengthDeterminant(Len(nas)) \o nas

EncodeCgi(plmn, cell) ==
    LET high == cell \div 16
    IN  <<0>> \o plmn \o <<(high \div 256) \div 256, (high \div 256) % 256, high % 256,
                           (cell % 16) * 16>>

Ie(id, octets, fragmented) ==
    [id |-> id, octets |-> octets, fragmented |-> fragmented]

IfAny(octets, id, value) == IF octets = <<>> THEN {} ELSE {Ie(id, value, FALSE)}

\* An IE without a value is not sent; IEs that the code ignores stand between.
Ies(m) ==
    {Ie("other", <<0>>, FALSE)}
    \cup IfAny(m.mme, "MME", m.mme)
    \cup IfAny(m.enb, "ENB", m.enb)
    \cup IfAny(m.nas, "NAS", EncodeNas(m.nas))
    \cup (IF m.cell = None THEN {} ELSE {Ie("CGI", EncodeCgi(m.plmn, m.cell), FALSE)})

\* Identifier, criticality and length determinant.
FieldHeader(ie) == 3 + Len(LengthDeterminant(Len(ie.octets)))

\* Extension marker and count, then the first fields.
Upto(ies, i) ==
    LET size[k \in 0 .. Len(ies)] ==
            IF k = 0 THEN 3 ELSE size[k - 1] + FieldHeader(ies[k]) + Len(ies[k].octets)
    IN  size[i]

Body(ies) == Upto(ies, Len(ies))

\* Choice, procedure code, criticality and length determinant.
Header(ies) == 3 + Len(LengthDeterminant(Body(ies)))
=============================================================================
