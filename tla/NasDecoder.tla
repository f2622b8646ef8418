----------------------------- MODULE NasDecoder -----------------------------
(***************************************************************************)
(* decode_nas under truncation: the PDU arrives octet by octet, so that    *)
(* every state is what a cut of it would be decoded to.                    *)
(***************************************************************************)
EXTENDS NasPdu

CONSTANTS
    Sent,   \* what senders encode, see Message
    Noise   \* octets that no encoder made, a ciphered PDU among them

ASSUME SentAssumption ==
    /\ \A m \in Sent : m \in Message
    /\ \A m \in Sent : m.type \in {"AttachRequest", "IdentityResponse"}
                          => m.identity # None

ASSUME NoiseAssumption == Noise \subseteq Seq(Octet)

VARIABLES
    sent,     \* the message, or None
    whole,    \* its octets
    octets,   \* those that have arrived
    decoded   \* what decode_nas says of them

vars == <<sent, whole, octets, decoded>>

-----------------------------------------------------------------------------

Init ==
    /\ \/ sent \in Sent /\ whole = Encode(sent)
       \/ sent = None /\ whole \in Noise
    /\ octets = <<>>
    /\ decoded = Nothing

Arrive ==
    /\ Len(octets) < Len(whole)
    /\ octets' = Append(octets, whole[Len(octets) + 1])
    /\ decoded' = Decode(octets')
    /\ UNCHANGED <<sent, whole>>

Next == Arrive

Spec == Init /\ [][Next]_vars

-----------------------------------------------------------------------------
(* Properties                                                              *)

DecoderTypeOK == decoded \in Fields \cup {Nothing}

KnowsLess(d, e) ==
    \/ d = Nothing
    \/ /\ e # Nothing
       /\ d.sht = e.sht
       /\ d.type \in {Unknown, e.type}
       /\ \A f \in {"identity", "requested", "cause", "eea", "eia", "ueEea", "ueEia"} :
             d[f] \in {None, e[f]}

\* A capture that cut the PDU is decoded to part of what the whole PDU says and
\* never to anything else.
TruncationNeverInvents == [][KnowsLess(decoded, decoded')]_vars

\* A PDU that arrived whole is decoded to the message it was made from, behind a
\* security header as well as without one.
DecodesWhatWasSent ==
    sent # None /\ octets = whole => decoded = Meaning(sent)
=============================================================================
