------------------------------- MODULE Craft --------------------------------
(***************************************************************************)
(* scripts/craft_imsi_cleartext.py: the capture of an attach in which the  *)
(* MME asks a UE that offers a valid GUTI for its IMSI.  Three NAS         *)
(* messages, each in an S1AP PDU, each PDU alone in the DATA chunk of an   *)
(* Ethernet frame.                                                         *)
(***************************************************************************)
EXTENDS Integers, Sequences

CONSTANT None

Nas == INSTANCE NasPdu
S1ap == INSTANCE S1apPdu

PlmnBytes == <<0, 241, 16>>   \* 00101
CellId == 411
EnbUeId == <<0, 1>>           \* the length in front, as APER has it for a wide range
MmeUeId == <<0, 1>>

\* The NAS messages.
NasMessage(type, identity, octet, capability) ==
    [type |-> type, sht |-> 0, identity |-> identity, octet |-> octet,
     capability |-> capability]

AttachNas == NasMessage("AttachRequest", "GUTI", 0, <<224, 224>>)
IdReqNas == NasMessage("IdentityRequest", None, 1, <<>>)
IdRespNas == NasMessage("IdentityResponse", "IMSI", 0, <<>>)

EsmContainer == <<0, 3, 0, 0, 0>>

BuildNas(m) ==
    Nas!Encode(m) \o (IF m.type = "AttachRequest" THEN EsmContainer ELSE <<>>)

\* The PDUs, their IEs in the order of the script.  Tai and the establishment
\* cause are IEs the sniffer ignores.
Other(octets) == S1ap!Ie("other", octets, FALSE)
Tai == Other(<<0>> \o PlmnBytes \o <<0, 1>>)
Cause == Other(<<48>>)
Mme == S1ap!Ie("MME", MmeUeId, FALSE)
Enb == S1ap!Ie("ENB", EnbUeId, FALSE)
Cgi == S1ap!Ie("CGI", S1ap!EncodeCgi(PlmnBytes, CellId), FALSE)
NasPdu(m) == S1ap!Ie("NAS", S1ap!EncodeNas(BuildNas(m)), FALSE)

S1apInitiating(proc, mme, cell, m, ies) ==
    [sent |-> [proc |-> proc, choice |-> "initiatingMessage", mme |-> mme,
               enb |-> EnbUeId, plmn |-> PlmnBytes, cell |-> cell,
               nas |-> BuildNas(m)],
     ies |-> ies, claimed |-> S1ap!Body(ies), nas |-> m]

InitialUeMessage(m) ==
    S1apInitiating("InitialUEMessage", <<>>, CellId, m,
                   <<Enb, NasPdu(m), Tai, Cgi, Cause>>)

DlNasTransport(m) ==
    S1apInitiating("DownlinkNASTransport", MmeUeId, None, m, <<Mme, Enb, NasPdu(m)>>)

UlNasTransport(m) ==
    S1apInitiating("UplinkNASTransport", MmeUeId, CellId, m,
                   <<Mme, Enb, NasPdu(m), Cgi, Tai>>)

Pdus == <<InitialUeMessage(AttachNas), DlNasTransport(IdReqNas), UlNasTransport(IdRespNas)>>

\* Ethernet, IPv4 without options, SCTP, one DATA chunk.
EthernetHeaderLen == 14

Octets(p) == S1ap!Header(p.ies) + S1ap!Body(p.ies)

Frame(p) ==
    LET len   == 16 + Octets(p)
        total == 20 + 12 + len + ((-len) % 4)
    IN  [frame |-> [link |-> "other", captured |-> EthernetHeaderLen + total,
                    etype |-> "IPv4", version |-> 4, ihl |-> 20, total |-> total,
                    proto |-> "SCTP",
                    chunks |-> <<[type |-> "DATA", len |-> len, ppid |-> "S1AP"]>>],
         pdus |-> <<p>>]

Capture == [i \in 1 .. 3 |-> Frame(Pdus[i])]
=============================================================================
